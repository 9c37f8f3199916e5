----------------------------- MODULE RunEvents -----------------------------
(***************************************************************************)
(* The event log of one run and who follows it.                            *)
(*                                                                         *)
(* A run started in the browser is followed by an event stream over        *)
(* loopback (lcl-workspace routes/runs.rs, execution.rs, assets/app.js).   *)
(* A run started by a device is polled by the device's session and sent    *)
(* over a connection that may drop; the device counts what it has seen and *)
(* asks for the rest when it is back (remote session/runs.rs, and the      *)
(* phone's WorkspaceController).                                           *)
(*                                                                         *)
(* An event is its index in the log; the last one is the report.  Both     *)
(* followers read the run's log and its `finished` flag under two locks,   *)
(* one after the other, while the run thread goes on.                      *)
(***************************************************************************)
EXTENDS Naturals, Sequences, Functions

CONSTANT MaxEvents   \* bound: events of the run, its report included

ASSUME RunEventsAssumption == MaxEvents \in Nat \ {0}

VARIABLES
    by,        \* who started the run: "browser" or "device"
    log,       \* the length of Session.log
    reported,  \* the report is in the log
    finished,  \* State.finished
    kept,      \* Runs still has the session
    stream,    \* the browser's event stream: where it is, `sent`, its batch
    tab,       \* the browser tab: open, the events received, whether "end" was
    link,      \* the device is connected
    watch,     \* the session's Watching entry for the run, and its `sent`
    poll,      \* the session's forward_runs: where it is, what it has read
    wire,      \* messages on their way to the device
    request,   \* the device's `follow`: not made, on its way, or made
    device     \* the device: the events received, whether it takes the run as over

run == <<by, log, reported, finished, kept>>
browserVars == <<stream, tab>>
deviceVars == <<link, watch, poll, wire, request, device>>
vars == <<run, browserVars, deviceVars>>

Events == 1..MaxEvents
Event(n) == [message |-> "event", index |-> n]
End == [message |-> "end", index |-> 0]
NoSuchRun == [message |-> "no such run", index |-> 0]
Messages == {Event(n) : n \in Events} \cup {End, NoSuchRun}

NoRequest == [made |-> FALSE, pending |-> FALSE, from |-> 0]
Quiet == [at |-> "finished", finished |-> FALSE, batch |-> 0, left |-> <<>>]

\* The part of the log from index `from` (a count) on.
From(from) == [i \in 1..(log - from) |-> from + i]

TypeOK ==
    /\ by \in {"browser", "device"}
    /\ log \in 0..MaxEvents
    /\ reported \in BOOLEAN /\ finished \in BOOLEAN /\ kept \in BOOLEAN
    /\ stream \in [at : {"closed", "read", "send"}, sent : 0..MaxEvents,
                   batch : 0..MaxEvents, left : Seq(Events)]
    /\ tab \in [open : BOOLEAN, got : Seq(Events), ended : BOOLEAN]
    /\ link \in BOOLEAN
    /\ watch \in [on : BOOLEAN, sent : 0..MaxEvents]
    /\ poll \in [at : {"finished", "events", "send"}, finished : BOOLEAN,
                 batch : 0..MaxEvents, left : Seq(Events)]
    /\ wire \in Seq(Messages)
    /\ request \in [made : BOOLEAN, pending : BOOLEAN, from : 0..MaxEvents]
    /\ device \in [got : Seq(Events), over : BOOLEAN]

Init ==
    /\ by \in {"browser", "device"}
    /\ log = 0 /\ reported = FALSE /\ finished = FALSE /\ kept = TRUE
    /\ stream = [at |-> "closed", sent |-> 0, batch |-> 0, left |-> <<>>]
    /\ tab = [open |-> FALSE, got |-> <<>>, ended |-> FALSE]
    /\ link = (by = "device")
    /\ watch = [on |-> by = "device", sent |-> 0]
    /\ poll = Quiet /\ wire = <<>> /\ request = NoRequest
    /\ device = [got |-> <<>>, over |-> FALSE]

-----------------------------------------------------------------------------
(* The run thread and the registry of runs. *)

\* An event of the engine's; a paused run emits nothing until it is answered.
Emit ==
    /\ ~reported /\ log < MaxEvents - 1
    /\ log' = log + 1
    /\ UNCHANGED <<by, reported, finished, kept, browserVars, deviceVars>>

Report ==
    /\ ~reported
    /\ log' = log + 1
    /\ reported' = TRUE
    /\ UNCHANGED <<by, finished, kept, browserVars, deviceVars>>

Finish ==
    /\ reported /\ ~finished
    /\ finished' = TRUE
    /\ UNCHANGED <<by, log, reported, kept, browserVars, deviceVars>>

\* Runs::open of a later run makes room.
Evict ==
    /\ finished /\ kept
    /\ kept' = FALSE
    /\ UNCHANGED <<by, log, reported, finished, browserVars, deviceVars>>

-----------------------------------------------------------------------------
(* The browser. *)

\* The tab opens the stream of the run it started, and the stream finds the run.
StreamOpen ==
    /\ by = "browser" /\ kept /\ ~tab.open /\ ~tab.ended /\ stream.at = "closed"
    /\ tab.got = <<>>
    /\ tab' = [tab EXCEPT !.open = TRUE]
    /\ stream' = [stream EXCEPT !.at = "read"]
    /\ UNCHANGED <<run, deviceVars>>

\* events_from: what is new, or nothing because the run has finished or because
\* nothing came for half a second.
StreamRead ==
    /\ stream.at = "read"
    /\ stream' = [stream EXCEPT !.at = "send", !.left = From(stream.sent),
                                !.batch = log - stream.sent]
    /\ UNCHANGED <<run, tab, deviceVars>>

\* One event of the batch; the stream ends if the tab is gone.
StreamSend ==
    /\ stream.at = "send" /\ stream.left # <<>>
    /\ IF tab.open
       THEN /\ tab' = [tab EXCEPT !.got = Append(@, Head(stream.left))]
            /\ stream' = [stream EXCEPT !.left = Tail(@)]
       ELSE /\ stream' = [stream EXCEPT !.at = "closed", !.left = <<>>]
            /\ UNCHANGED tab
    /\ UNCHANGED <<run, deviceVars>>

\* Mutant: a heartbeat ends the stream.
StreamOverWhenIdle == stream.batch = 0
StreamOver == finished /\ stream.batch = 0

Counted == stream.sent + stream.batch

\* The batch is counted, and a run that is over ends the stream.
StreamCheck ==
    /\ stream.at = "send" /\ stream.left = <<>>
    /\ stream' = [stream EXCEPT !.sent = Counted,
                                !.at = IF StreamOver THEN "closed" ELSE "read"]
    /\ tab' = IF StreamOver /\ tab.open THEN [tab EXCEPT !.open = FALSE, !.ended = TRUE] ELSE tab
    /\ UNCHANGED <<run, deviceVars>>

\* The tab is closed, or its connection fails.
TabCloses ==
    /\ tab.open
    /\ tab' = [tab EXCEPT !.open = FALSE]
    /\ UNCHANGED <<run, stream, deviceVars>>

-----------------------------------------------------------------------------
(* The device's session on the PC. *)

\* run_events, first half: the flag; an evicted run is finished and empty.
PollFinished ==
    /\ link /\ watch.on /\ poll.at = "finished"
    /\ poll' = IF kept THEN [Quiet EXCEPT !.at = "events", !.finished = finished]
                       ELSE [Quiet EXCEPT !.at = "send", !.finished = TRUE]
    /\ UNCHANGED <<run, browserVars, link, watch, wire, request, device>>

\* Mutant: the flag is read after the log.
FinishedNow == finished
FinishedThen == poll.finished

\* run_events, second half: the log.
PollEvents ==
    /\ poll.at = "events"
    /\ poll' = [poll EXCEPT !.at = "send", !.left = From(watch.sent),
                            !.batch = log - watch.sent]
    /\ UNCHANGED <<run, browserVars, link, watch, wire, request, device>>

PollSend ==
    /\ poll.at = "send" /\ poll.left # <<>>
    /\ wire' = Append(wire, Event(Head(poll.left)))
    /\ poll' = [poll EXCEPT !.left = Tail(@)]
    /\ UNCHANGED <<run, browserVars, link, watch, request, device>>

\* The batch is sent: it is counted, and a run that is over ends.
PollDone ==
    /\ poll.at = "send" /\ poll.left = <<>>
    /\ IF FinishedThen /\ poll.batch = 0
       THEN wire' = Append(wire, End) /\ watch' = [watch EXCEPT !.on = FALSE]
       ELSE watch' = [watch EXCEPT !.sent = @ + poll.batch] /\ UNCHANGED wire
    /\ poll' = Quiet
    /\ UNCHANGED <<run, browserVars, link, request, device>>

\* Mutant: a finished run has nothing more to say.
WatchLive(from) == IF watch.on \/ finished THEN watch ELSE [on |-> TRUE, sent |-> from]
Watch(from) == IF watch.on THEN watch ELSE [on |-> TRUE, sent |-> from]

\* Session::follow, between two rounds of forward_runs.
Follow ==
    /\ link /\ request.pending /\ poll.at = "finished"
    /\ request' = [request EXCEPT !.pending = FALSE]
    /\ IF kept THEN watch' = Watch(request.from) /\ UNCHANGED wire
               ELSE wire' = Append(wire, NoSuchRun) /\ UNCHANGED watch
    /\ UNCHANGED <<run, browserVars, link, poll, device>>

-----------------------------------------------------------------------------
(* The device. *)

Drop ==
    /\ link
    /\ link' = FALSE
    /\ watch' = [on |-> FALSE, sent |-> 0]
    /\ poll' = Quiet /\ wire' = <<>> /\ request' = NoRequest
    /\ UNCHANGED <<run, browserVars, device>>

Reconnect ==
    /\ by = "device" /\ ~link
    /\ link' = TRUE
    /\ UNCHANGED <<run, browserVars, watch, poll, wire, request, device>>

\* Mutant: the run's events are asked for from the start.
SeenNone == 0
Seen == Len(device.got)

\* resumeRun, once for each connection and some time after it came about.
AskFollow ==
    /\ link /\ ~request.made /\ ~device.over
    /\ request' = [made |-> TRUE, pending |-> TRUE, from |-> Seen]
    /\ UNCHANGED <<run, browserVars, link, watch, poll, wire, device>>

\* onRunEvent, or resumeRun's refusal.
Receive ==
    /\ wire # <<>>
    /\ wire' = Tail(wire)
    /\ device' = IF Head(wire).message = "event"
                 THEN [device EXCEPT !.got = Append(@, Head(wire).index)]
                 ELSE [device EXCEPT !.over = TRUE]
    /\ UNCHANGED <<run, browserVars, link, watch, poll, request>>

-----------------------------------------------------------------------------
Next ==
    \/ Emit \/ Report \/ Finish \/ Evict
    \/ StreamOpen \/ StreamRead \/ StreamSend \/ StreamCheck \/ TabCloses
    \/ PollFinished \/ PollEvents \/ PollSend \/ PollDone \/ Follow
    \/ Drop \/ Reconnect \/ AskFollow \/ Receive

Spec == Init /\ [][Next]_vars

\* Both servers' threads run, what is sent arrives or the connection drops, a
\* device that is back asks, and each round of its session reads the socket
\* first.  A run may stay at a pause for ever, and a tab and a connection may go
\* at any time.
FairSpec ==
    /\ Spec
    /\ WF_vars(Finish)
    /\ WF_vars(StreamRead) /\ WF_vars(StreamSend) /\ WF_vars(StreamCheck)
    /\ WF_vars(PollFinished) /\ WF_vars(PollEvents) /\ WF_vars(PollSend) /\ WF_vars(PollDone)
    /\ SF_vars(Follow) /\ WF_vars(AskFollow) /\ WF_vars(Receive)

-----------------------------------------------------------------------------
(* Properties. *)

\* However often the connection drops, and with events lost on the way each time,
\* a device that still takes the run as going has seen exactly the first events of
\* the log: none twice, none missing (Session::follow: "events from that index on
\* are exactly what it missed").
FollowsExactly == ~device.over => \A i \in DOMAIN device.got : device.got[i] = i

\* A device that was told the end has everything the run said, its report too,
\* unless the run was evicted first (run_events: "has everything").
EndMeansAll == device.over /\ kept => reported /\ 1..log \subseteq Range(device.got)

\* The same promise to the browser: "the result arrives on the event stream".
StreamComplete == tab.ended => reported /\ 1..log \subseteq Range(tab.got)

\* If the connection holds from some time on, the device learns that the run is
\* over, whenever it finished and whatever was lost before.
DeviceHearsEnd == <>[]link => (finished ~> device.over)

\* A tab that stays is sent every event of a run that goes on, so also the pause
\* somebody has to answer (Session.log).
PauseReachesTab ==
    \A n \in Events :
        tab.open /\ log >= n ~>
            Len(tab.got) >= n \/ finished \/ (~tab.open /\ ~tab.ended)
=============================================================================
