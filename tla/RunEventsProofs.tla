-------------------------- MODULE RunEventsProofs --------------------------
(***************************************************************************)
(* Proofs about RunEvents, for a run of any number of events, any number   *)
(* of dropped connections and any messages lost with them.                 *)
(*                                                                         *)
(* What a device has seen is tied to the log through what is on its way:   *)
(* the events on the wire and left in the batch continue what was received *)
(* (OnItsWay), up to what its session has counted (Covered), and a first   *)
(* message other than an event stands at the end of the whole log          *)
(* (EndAtEnd), because the flag is read before the log (FlagFirst).        *)
(***************************************************************************)
EXTENDS RunEvents, TLAPS

\* The first i messages on the wire are events.
OnlyEvents(i) == \A j \in 1..i : wire[j].message = "event"

Clean == OnlyEvents(Len(wire))

\* The run reports last and finishes after that, so the log of a finished run
\* is complete.
RunOrder ==
    /\ ~reported => log < MaxEvents
    /\ finished => reported

\* Nothing is counted, asked for or sent that the log does not hold.
Within ==
    /\ stream.sent <= log
    /\ stream.at = "send" => stream.sent + stream.batch <= log
    /\ watch.sent + poll.batch <= log
    /\ request.from <= log
    /\ ~device.over => Len(device.got) <= log
    /\ \A i \in 1..Len(wire) : wire[i].message = "event" => wire[i].index <= log
    /\ \A i \in 1..Len(poll.left) : poll.left[i] <= log

\* The flag a round goes by was set before the log was read.
FlagFirst ==
    /\ ~watch.on => poll = Quiet
    /\ poll.at # "send" => poll.batch = 0 /\ poll.left = <<>>
    /\ poll.finished /\ kept => finished
    /\ poll.at = "send" /\ poll.finished /\ kept => watch.sent + poll.batch = log

\* Events on the wire continue what the device has.
OnItsWay ==
    \A i \in 1..Len(wire) :
        ~device.over /\ OnlyEvents(i) => wire[i].index = Len(device.got) + i

\* Received, on the wire and left in the batch make up what is counted; a device
\* nobody follows the run for has nothing on its way and asks from what it has.
Covered ==
    ~device.over /\ Clean =>
        IF watch.on
        THEN /\ Len(device.got) + Len(wire) + Len(poll.left) = watch.sent + poll.batch
             /\ \A i \in 1..Len(poll.left) :
                    poll.left[i] = Len(device.got) + Len(wire) + i
        ELSE /\ wire = <<>>
             /\ request.pending => request.from = Len(device.got)

\* What ends the following comes after the whole log.
EndAtEnd ==
    \A i \in 1..Len(wire) :
        ~device.over /\ kept /\ OnlyEvents(i - 1) /\ wire[i].message # "event" =>
            reported /\ Len(device.got) + i - 1 = log

Inv == /\ TypeOK /\ RunOrder /\ Within /\ FlagFirst /\ OnItsWay /\ Covered /\ EndAtEnd
       /\ FollowsExactly /\ EndMeansAll

-----------------------------------------------------------------------------
(* What batches and messages are. *)

LEMMA BatchOf ==
    ASSUME TypeOK, NEW from \in 0..log
    PROVE  /\ From(from) \in Seq(Events)
           /\ Len(From(from)) = log - from
           /\ log - from \in 0..MaxEvents
           /\ \A i \in 1..(log - from) : From(from)[i] = from + i /\ from + i \in Events
<1>1. log \in Nat /\ log <= MaxEvents /\ log - from \in Nat
  BY RunEventsAssumption DEF TypeOK
<1>2. \A i \in 1..(log - from) : from + i \in Events
  BY <1>1, RunEventsAssumption DEF Events
<1>3. From(from) \in [1..(log - from) -> Events]
  BY <1>2 DEF From
<1>4. From(from) \in Seq(Events)
  BY <1>1, <1>3
<1>5. QED
  BY <1>1, <1>2, <1>3, <1>4, RunEventsAssumption DEF From

LEMMA MessageFacts ==
    /\ \A n \in Events : Event(n) \in Messages /\ Event(n).message = "event" /\ Event(n).index = n
    /\ End \in Messages /\ End.message # "event"
    /\ NoSuchRun \in Messages /\ NoSuchRun.message # "event"
    /\ \A m \in Messages : m.message = "event" => m.index \in Events
<1>1. \A n \in Events : Event(n) \in Messages
  BY DEF Messages
<1>2. \A n \in Events : Event(n).message = "event" /\ Event(n).index = n
  BY DEF Event
<1>3. End \in Messages /\ NoSuchRun \in Messages
  BY DEF Messages
<1>4. End.message # "event" /\ NoSuchRun.message # "event"
  BY DEF End, NoSuchRun
<1>5. ASSUME NEW m \in Messages, m.message = "event" PROVE m.index \in Events
  <2>1. \E n \in Events : m = Event(n)
    BY <1>4, <1>5 DEF Messages
  <2>2. QED
    BY <1>2, <2>1
<1>6. QED
  BY <1>1, <1>2, <1>3, <1>4, <1>5

\* A message sent leaves the ones before it as they were.
LEMMA Sending ==
    ASSUME wire \in Seq(Messages), NEW m \in Messages, wire' = Append(wire, m)
    PROVE  /\ wire' \in Seq(Messages) /\ Len(wire') = Len(wire) + 1
           /\ \A i \in 1..Len(wire) : wire'[i] = wire[i]
           /\ wire'[Len(wire) + 1] = m
           /\ \A i \in 0..Len(wire) : OnlyEvents(i)' <=> OnlyEvents(i)
           /\ \A i \in Nat :
                 i = Len(wire) + 1 => (OnlyEvents(i)' <=> Clean /\ m.message = "event")
           /\ Clean' <=> Clean /\ m.message = "event"
<1>1. /\ wire' \in Seq(Messages) /\ Len(wire') = Len(wire) + 1
      /\ \A i \in 1..Len(wire) : wire'[i] = wire[i]
      /\ wire'[Len(wire) + 1] = m
      /\ Len(wire) \in Nat
  OBVIOUS
<1>2. \A i \in 0..Len(wire) : OnlyEvents(i)' <=> OnlyEvents(i)
  <2> SUFFICES ASSUME NEW i \in 0..Len(wire) PROVE OnlyEvents(i)' <=> OnlyEvents(i)
    OBVIOUS
  <2>1. \A j \in 1..i : wire'[j] = wire[j]
    BY <1>1
  <2>2. QED
    BY <2>1 DEF OnlyEvents
<1>3. Clean' <=> Clean /\ m.message = "event"
  <2>1. 1..(Len(wire) + 1) = (1..Len(wire)) \cup {Len(wire) + 1}
    BY <1>1
  <2>2. QED
    BY <1>1, <2>1 DEF Clean, OnlyEvents
<1>4. \A i \in Nat : i = Len(wire) + 1 => (OnlyEvents(i)' <=> Clean')
  BY <1>1 DEF Clean, OnlyEvents
<1>5. QED
  BY <1>1, <1>2, <1>3, <1>4

\* A message received brings the others forward by one.
LEMMA Receiving ==
    ASSUME wire \in Seq(Messages), wire # <<>>, wire' = Tail(wire)
    PROVE  /\ wire' \in Seq(Messages) /\ Len(wire') = Len(wire) - 1
           /\ Head(wire) = wire[1] /\ Head(wire) \in Messages /\ Len(wire) \in Nat \ {0}
           /\ \A i \in 1..Len(wire') : wire'[i] = wire[i + 1]
           /\ Head(wire).message = "event" =>
                /\ \A i \in 0..Len(wire') : OnlyEvents(i)' <=> OnlyEvents(i + 1)
                /\ Clean' <=> Clean
<1>1. /\ wire' \in Seq(Messages) /\ Len(wire') = Len(wire) - 1
      /\ Head(wire) = wire[1] /\ Head(wire) \in Messages /\ Len(wire) \in Nat \ {0}
      /\ \A i \in 1..Len(wire') : wire'[i] = wire[i + 1]
  OBVIOUS
<1>2. ASSUME Head(wire).message = "event", NEW i \in 0..Len(wire')
      PROVE  OnlyEvents(i)' <=> OnlyEvents(i + 1)
  <2>1. ASSUME OnlyEvents(i)', NEW j \in 1..(i + 1) PROVE wire[j].message = "event"
    <3>1. CASE j = 1
      BY <1>1, <1>2, <3>1
    <3>2. CASE j # 1
      <4>1. j - 1 \in 1..i /\ j - 1 \in 1..Len(wire') /\ (j - 1) + 1 = j
        BY <1>1, <3>2
      <4>2. QED
        BY <1>1, <2>1, <4>1 DEF OnlyEvents
    <3>3. QED
      BY <3>1, <3>2
  <2>2. ASSUME OnlyEvents(i + 1), NEW j \in 1..i PROVE wire'[j].message = "event"
    <3>1. j + 1 \in 1..(i + 1) /\ j \in 1..Len(wire')
      BY <1>1
    <3>2. QED
      BY <1>1, <2>2, <3>1 DEF OnlyEvents
  <2>3. QED
    BY <2>1, <2>2 DEF OnlyEvents
<1>3. ASSUME Head(wire).message = "event" PROVE Clean' <=> Clean
  <2>0. Len(wire') \in 0..Len(wire')
    BY <1>1
  <2>1. PICK n \in 0..Len(wire') : n = Len(wire')
    BY <2>0, Zenon
  <2>2. OnlyEvents(n)' <=> OnlyEvents(n + 1)
    BY <1>2, <1>3
  <2>3. n + 1 = Len(wire)
    BY <1>1, <2>1
  <2>4. QED
    BY <2>1, <2>2, <2>3 DEF Clean, OnlyEvents
<1>4. QED
  BY <1>1, <1>2, <1>3

-----------------------------------------------------------------------------
(* The run thread and the browser: nothing on its way changes. *)

LEMMA InvInit == Init => Inv
<1> SUFFICES ASSUME Init PROVE Inv
  OBVIOUS
<1>1. TypeOK
  <2>1. 0 \in 0..MaxEvents /\ <<>> \in Seq(Events) /\ <<>> \in Seq(Messages)
    BY RunEventsAssumption
  <2>2. Quiet \in [at : {"finished", "events", "send"}, finished : BOOLEAN,
                  batch : 0..MaxEvents, left : Seq(Events)]
    BY <2>1 DEF Quiet
  <2>3. NoRequest \in [made : BOOLEAN, pending : BOOLEAN, from : 0..MaxEvents]
    BY <2>1 DEF NoRequest
  <2>4. QED
    BY <2>1, <2>2, <2>3 DEF Init, TypeOK
<1>2. RunOrder /\ Within /\ FlagFirst
  BY RunEventsAssumption DEF Init, RunOrder, Within, FlagFirst, Quiet, NoRequest
<1>3. OnItsWay /\ Covered /\ EndAtEnd
  BY DEF Init, OnItsWay, Covered, EndAtEnd, Quiet, NoRequest
<1>4. FollowsExactly /\ EndMeansAll
  BY DEF Init, FollowsExactly, EndMeansAll
<1>5. QED
  BY <1>1, <1>2, <1>3, <1>4 DEF Inv

\* The run goes on: its log grows only before the report, and is complete after.
LEMMA RunSteps ==
    ASSUME Inv, Emit \/ Report \/ Finish \/ Evict
    PROVE  Inv'
<1>1. UNCHANGED deviceVars /\ UNCHANGED browserVars /\ by' = by
  BY DEF Emit, Report, Finish, Evict, run, browserVars, deviceVars
<1>2. /\ log \in Nat /\ log' \in Nat /\ log <= log' /\ log' <= MaxEvents
      /\ reported' \in BOOLEAN /\ finished' \in BOOLEAN /\ kept' \in BOOLEAN
      /\ (~reported' => log' < MaxEvents) /\ (finished' => reported')
      /\ (reported => reported' /\ log' = log)
      /\ (finished => finished') /\ (kept' => kept)
  <2> log \in Nat /\ log <= MaxEvents /\ MaxEvents \in Nat /\ (~reported => log < MaxEvents)
      /\ (finished => reported) /\ reported \in BOOLEAN /\ finished \in BOOLEAN /\ kept \in BOOLEAN
    BY RunEventsAssumption DEF Inv, TypeOK, RunOrder
  <2>1. CASE Emit
    BY <2>1 DEF Emit
  <2>2. CASE Report
    BY <2>2 DEF Report
  <2>3. CASE Finish
    BY <2>3 DEF Finish
  <2>4. CASE Evict
    <3>1. log' = log /\ reported' = reported /\ finished' = finished /\ kept' = FALSE
      BY <2>4 DEF Evict
    <3>2. log' \in Nat /\ log <= log' /\ log' <= MaxEvents
          /\ (~reported' => log' < MaxEvents)
      BY <3>1
    <3>3. QED
      BY <3>1, <3>2, Zenon
  <2>5. QED
    BY <2>1, <2>2, <2>3, <2>4
<1>3. TypeOK'
  BY <1>1, <1>2, RunEventsAssumption DEF Inv, TypeOK, browserVars, deviceVars, Events, Messages
<1>4. RunOrder'
  BY <1>2 DEF RunOrder
<1>5. Within'
  <2>1. stream.sent \in Nat /\ stream.batch \in Nat /\ watch.sent \in Nat /\ poll.batch \in Nat
        /\ request.from \in Nat
    BY RunEventsAssumption DEF Inv, TypeOK
  <2>2. device.got \in Seq(Events) /\ poll.left \in Seq(Events) /\ wire \in Seq(Messages)
    BY DEF Inv, TypeOK
  <2>3. Len(device.got) \in Nat /\ \A i \in 1..Len(poll.left) : poll.left[i] \in Nat
    <3>1. Events \subseteq Nat
      BY DEF Events
    <3>2. \A i \in 1..Len(poll.left) : poll.left[i] \in Events
      BY <2>2
    <3>3. Len(device.got) \in Nat
      BY <2>2
    <3>4. QED
      BY <3>1, <3>2, <3>3
  <2>4. \A i \in 1..Len(wire) : wire[i].message = "event" => wire[i].index \in Nat
    BY <2>2, MessageFacts DEF Events
  <2>5. stream' = stream /\ watch' = watch /\ poll' = poll /\ wire' = wire /\ request' = request
        /\ device' = device
    BY <1>1 DEF browserVars, deviceVars
  <2>6. stream.sent <= log' /\ (stream.at = "send" => stream.sent + stream.batch <= log')
        /\ watch.sent + poll.batch <= log' /\ request.from <= log'
    BY <1>2, <2>1 DEF Inv, Within
  <2>7. /\ ~device.over => Len(device.got) <= log'
        /\ \A i \in 1..Len(wire) : wire[i].message = "event" => wire[i].index <= log'
        /\ \A i \in 1..Len(poll.left) : poll.left[i] <= log'
    BY <1>2, <2>3, <2>4 DEF Inv, Within
  <2>8. QED
    BY <2>5, <2>6, <2>7 DEF Within
<1>6. FlagFirst'
  BY <1>1, <1>2 DEF Inv, FlagFirst, RunOrder, deviceVars
<1>7. OnItsWay' /\ Covered'
  BY <1>1 DEF Inv, OnItsWay, Covered, Clean, OnlyEvents, deviceVars
<1>8. EndAtEnd'
  BY <1>1, <1>2 DEF Inv, EndAtEnd, OnlyEvents, deviceVars
<1>9. FollowsExactly' /\ EndMeansAll'
  BY <1>1, <1>2 DEF Inv, FollowsExactly, EndMeansAll, deviceVars, Range
<1>10. QED
  BY <1>3, <1>4, <1>5, <1>6, <1>7, <1>8, <1>9 DEF Inv

\* What only the browser's stream and tab do, within the log.
LEMMA BrowserStep ==
    ASSUME Inv, UNCHANGED <<run, deviceVars>>,
           stream' \in [at : {"closed", "read", "send"}, sent : 0..MaxEvents,
                        batch : 0..MaxEvents, left : Seq(Events)],
           tab' \in [open : BOOLEAN, got : Seq(Events), ended : BOOLEAN],
           stream'.sent <= log,
           stream'.at = "send" => stream'.sent + stream'.batch <= log
    PROVE  Inv'
<1>1. TypeOK'
  BY DEF Inv, TypeOK, run, deviceVars, Messages, Events
<1>2. RunOrder' /\ Within' /\ FlagFirst'
  BY DEF Inv, RunOrder, Within, FlagFirst, run, deviceVars
<1>3. OnItsWay' /\ Covered' /\ EndAtEnd'
  BY DEF Inv, OnItsWay, Covered, EndAtEnd, Clean, OnlyEvents, run, deviceVars
<1>4. FollowsExactly' /\ EndMeansAll'
  BY DEF Inv, FollowsExactly, EndMeansAll, run, deviceVars, Range
<1>5. QED
  BY <1>1, <1>2, <1>3, <1>4 DEF Inv

LEMMA BrowserSteps ==
    ASSUME Inv, StreamOpen \/ StreamRead \/ StreamSend \/ StreamCheck \/ TabCloses
    PROVE  Inv'
<1>1. /\ log \in Nat /\ log <= MaxEvents
      /\ stream \in [at : {"closed", "read", "send"}, sent : 0..MaxEvents,
                     batch : 0..MaxEvents, left : Seq(Events)]
      /\ tab \in [open : BOOLEAN, got : Seq(Events), ended : BOOLEAN]
      /\ stream.sent <= log /\ (stream.at = "send" => stream.sent + stream.batch <= log)
  BY DEF Inv, TypeOK, Within
<1>2. CASE StreamOpen
  BY <1>1, <1>2, BrowserStep DEF StreamOpen
<1>3. CASE StreamRead
  <2>1. stream.sent \in 0..log
    BY <1>1
  <2>2. From(stream.sent) \in Seq(Events) /\ log - stream.sent \in 0..MaxEvents
    BY <2>1, BatchOf DEF Inv
  <2>3. /\ stream'.at = "send" /\ stream'.sent = stream.sent
        /\ stream'.left = From(stream.sent) /\ stream'.batch = log - stream.sent
        /\ stream' \in [at : {"closed", "read", "send"}, sent : 0..MaxEvents,
                       batch : 0..MaxEvents, left : Seq(Events)]
    BY <1>1, <1>3, <2>2 DEF StreamRead
  <2>4. stream'.sent + stream'.batch <= log
    <3>1. stream.sent \in Nat /\ stream.sent + (log - stream.sent) = log
      BY <1>1
    <3>2. QED
      BY <1>1, <2>3, <3>1
  <2>5. tab' = tab /\ UNCHANGED <<run, deviceVars>>
    BY <1>3 DEF StreamRead
  <2>6. QED
    BY <1>1, <2>3, <2>4, <2>5, BrowserStep
<1>4. CASE StreamSend
  <2>1. Head(stream.left) \in Events /\ Tail(stream.left) \in Seq(Events)
    BY <1>1, <1>4 DEF StreamSend
  <2>2. Append(tab.got, Head(stream.left)) \in Seq(Events) /\ <<>> \in Seq(Events)
    BY <1>1, <2>1
  <2>3. QED
    BY <1>1, <1>4, <2>1, <2>2, BrowserStep DEF StreamSend
<1>5. CASE StreamCheck
  <2>1. Counted \in 0..MaxEvents /\ Counted <= log
    BY <1>1, <1>5, RunEventsAssumption DEF StreamCheck, Counted
  <2>2. QED
    BY <1>1, <1>5, <2>1, BrowserStep DEF StreamCheck
<1>6. CASE TabCloses
  BY <1>1, <1>6, BrowserStep DEF TabCloses
<1>7. QED
  BY <1>2, <1>3, <1>4, <1>5, <1>6

-----------------------------------------------------------------------------
(* The device's session and the device. *)

Watches == [on : BOOLEAN, sent : 0..MaxEvents]
Polls == [at : {"finished", "events", "send"}, finished : BOOLEAN, batch : 0..MaxEvents,
          left : Seq(Events)]
Requests == [made : BOOLEAN, pending : BOOLEAN, from : 0..MaxEvents]
Devices == [got : Seq(Events), over : BOOLEAN]

LEMMA Types ==
    ASSUME Inv
    PROVE  /\ log \in Nat /\ log <= MaxEvents /\ MaxEvents \in Nat
           /\ watch \in Watches /\ poll \in Polls /\ request \in Requests /\ device \in Devices
           /\ wire \in Seq(Messages) /\ Len(wire) \in Nat /\ Len(device.got) \in Nat
           /\ Quiet \in Polls /\ NoRequest \in Requests
<1>1. /\ log \in Nat /\ log <= MaxEvents /\ MaxEvents \in Nat
      /\ watch \in Watches /\ poll \in Polls /\ request \in Requests /\ device \in Devices
      /\ wire \in Seq(Messages)
  BY RunEventsAssumption DEF Inv, TypeOK, Watches, Polls, Requests, Devices
<1>2. Len(wire) \in Nat /\ Len(device.got) \in Nat
  BY <1>1 DEF Devices
<1>3. 0 \in 0..MaxEvents /\ <<>> \in Seq(Events)
  BY <1>1
<1>4. Quiet \in Polls
  BY <1>3 DEF Quiet, Polls
<1>5. NoRequest \in Requests
  BY <1>3 DEF NoRequest, Requests
<1>6. QED
  BY <1>1, <1>2, <1>4, <1>5

\* A step of the PC's side, or of asking: what is received and on the wire stays.
LEMMA QuietStep ==
    ASSUME Inv, UNCHANGED <<run, browserVars, wire, device>>, link' \in BOOLEAN,
           watch' \in Watches, poll' \in Polls, request' \in Requests,
           watch'.sent + poll'.batch <= log, request'.from <= log,
           \A i \in 1..Len(poll'.left) : poll'.left[i] <= log,
           FlagFirst', Covered'
    PROVE  Inv'
<1>1. TypeOK'
  BY DEF Inv, TypeOK, Watches, Polls, Requests, run, browserVars, Messages, Events
<1>2. RunOrder' /\ Within'
  BY DEF Inv, RunOrder, Within, run, browserVars
<1>3. OnItsWay' /\ EndAtEnd'
  BY DEF Inv, OnItsWay, EndAtEnd, OnlyEvents, run
<1>4. FollowsExactly' /\ EndMeansAll'
  BY DEF Inv, FollowsExactly, EndMeansAll, run, Range
<1>5. QED
  BY <1>1, <1>2, <1>3, <1>4 DEF Inv

\* A message other than an event goes out: it comes after the whole log, or
\* something before it ended the following.
LEMMA EndStep ==
    ASSUME Inv, UNCHANGED <<run, browserVars, link, device>>,
           NEW m \in Messages, m.message # "event", wire' = Append(wire, m),
           watch' \in Watches, poll' \in Polls, request' \in Requests,
           watch'.sent + poll'.batch <= log, request'.from <= log,
           \A i \in 1..Len(poll'.left) : poll'.left[i] <= log,
           FlagFirst',
           ~device.over /\ kept /\ Clean => reported /\ Len(device.got) + Len(wire) = log
    PROVE  Inv'
<1>1. /\ wire' \in Seq(Messages) /\ Len(wire') = Len(wire) + 1
      /\ \A i \in 1..Len(wire) : wire'[i] = wire[i]
      /\ wire'[Len(wire) + 1] = m
      /\ \A i \in 0..Len(wire) : OnlyEvents(i)' <=> OnlyEvents(i)
      /\ \A i \in Nat : i = Len(wire) + 1 => ~OnlyEvents(i)'
      /\ ~Clean'
  BY Types, Sending
<1>2. Len(wire) \in Nat /\ 1..Len(wire') = (1..Len(wire)) \cup {Len(wire) + 1}
  BY <1>1, Types
<1>3. TypeOK'
  BY <1>1 DEF Inv, TypeOK, Watches, Polls, Requests, run, browserVars, Messages, Events
<1>4. RunOrder'
  BY DEF Inv, RunOrder, run
<1>5. \A i \in 1..Len(wire') : wire'[i].message = "event" => wire'[i].index <= log
  BY <1>1, <1>2 DEF Inv, Within
<1>6. Within'
  BY <1>5 DEF Inv, Within, run, browserVars
<1>7. OnItsWay'
  <2>1. \A i \in 1..Len(wire) : ~device.over /\ OnlyEvents(i)' => wire'[i].index = Len(device.got) + i
    <3> SUFFICES ASSUME NEW i \in 1..Len(wire), ~device.over, OnlyEvents(i)'
                 PROVE  wire'[i].index = Len(device.got) + i
      OBVIOUS
    <3>1. OnlyEvents(i) /\ wire'[i] = wire[i]
      BY <1>1, <1>2
    <3>2. QED
      BY <3>1 DEF Inv, OnItsWay
  <2>2. QED
    BY <1>1, <1>2, <2>1 DEF OnItsWay
<1>8. Covered'
  BY <1>1 DEF Covered
<1>9. EndAtEnd'
  <2> SUFFICES ASSUME NEW i \in 1..Len(wire'), ~device.over, kept, OnlyEvents(i - 1)',
                      wire'[i].message # "event"
               PROVE  reported /\ Len(device.got) + i - 1 = log
    BY DEF EndAtEnd, run
  <2>1. i - 1 \in 0..Len(wire) /\ OnlyEvents(i - 1)
    BY <1>1, <1>2
  <2>2. CASE i \in 1..Len(wire)
    BY <1>1, <2>1, <2>2 DEF Inv, EndAtEnd
  <2>3. CASE i = Len(wire) + 1
    <3>1. Clean
      BY <2>1, <2>3, <1>2 DEF Clean
    <3>2. QED
      BY <3>1, <2>3, <1>2, Types
  <2>4. QED
    BY <1>2, <2>2, <2>3
<1>10. FollowsExactly' /\ EndMeansAll'
  BY DEF Inv, FollowsExactly, EndMeansAll, run, Range
<1>11. QED
  BY <1>3, <1>4, <1>6, <1>7, <1>8, <1>9, <1>10 DEF Inv

LEMMA PollFinishedKeeps == ASSUME Inv, PollFinished PROVE Inv'
<1>1. /\ watch.on /\ poll.at = "finished" /\ poll.batch = 0 /\ poll.left = <<>>
      /\ watch' = watch /\ request' = request /\ link' = link
      /\ UNCHANGED <<run, browserVars, wire, device>>
  BY DEF PollFinished, Inv, FlagFirst
<1>2. /\ poll' \in Polls /\ poll'.batch = 0 /\ poll'.left = <<>>
      /\ (kept => poll'.at = "events" /\ poll'.finished = finished)
  <2>1. finished \in BOOLEAN
    BY DEF Inv, TypeOK
  <2>2. Quiet \in Polls /\ Quiet.batch = 0 /\ Quiet.left = <<>>
    BY Types DEF Quiet
  <2>3. QED
    BY <2>1, <2>2 DEF PollFinished, Polls
<1>3. FlagFirst'
  BY <1>1, <1>2 DEF FlagFirst, run
<1>4. Covered'
  BY <1>1, <1>2 DEF Inv, Covered, Clean, OnlyEvents
<1>5. QED
  BY <1>1, <1>2, <1>3, <1>4, QuietStep, Types DEF Inv, TypeOK, Within

LEMMA PollEventsKeeps == ASSUME Inv, PollEvents PROVE Inv'
<1>1. /\ poll.at = "events" /\ poll.batch = 0 /\ poll.left = <<>> /\ watch.on
      /\ watch' = watch /\ request' = request /\ link' = link
      /\ UNCHANGED <<run, browserVars, wire, device>>
  BY DEF PollEvents, Inv, FlagFirst, Quiet
<1>2. watch.sent \in 0..log
  BY <1>1, Types DEF Inv, Within, Watches
<1>3. /\ From(watch.sent) \in Seq(Events) /\ Len(From(watch.sent)) = log - watch.sent
      /\ log - watch.sent \in 0..MaxEvents
      /\ \A i \in 1..(log - watch.sent) : From(watch.sent)[i] = watch.sent + i
  BY <1>2, BatchOf DEF Inv
<1>4. /\ poll' \in Polls /\ poll'.at = "send" /\ poll'.finished = poll.finished
      /\ poll'.batch = log - watch.sent /\ poll'.left = From(watch.sent)
  BY <1>3, Types DEF PollEvents, Polls
<1>5. watch.sent + poll'.batch = log
  BY <1>2, <1>4, Types
<1>6. \A i \in 1..Len(poll'.left) : poll'.left[i] = watch.sent + i /\ poll'.left[i] <= log
  BY <1>2, <1>3, <1>4, Types
<1>7. FlagFirst'
  BY <1>1, <1>4, <1>5 DEF Inv, FlagFirst, run
<1>8. Covered'
  <2> SUFFICES ASSUME ~device.over, Clean
               PROVE  /\ Len(device.got) + Len(wire) + Len(poll'.left) = watch.sent + poll'.batch
                      /\ \A i \in 1..Len(poll'.left) :
                             poll'.left[i] = Len(device.got) + Len(wire) + i
    BY <1>1 DEF Covered, Clean, OnlyEvents
  <2>1. Len(device.got) + Len(wire) = watch.sent
    BY <1>1, <1>2, Types DEF Inv, Covered
  <2>2. QED
    BY <1>3, <1>4, <1>6, <2>1, Types
<1>9. QED
  BY <1>1, <1>4, <1>5, <1>6, <1>7, <1>8, QuietStep, Types, SMTT(30) DEF Inv, TypeOK, Within

LEMMA ReconnectKeeps == ASSUME Inv, Reconnect PROVE Inv'
<1>1. FlagFirst' /\ Covered'
  BY DEF Reconnect, Inv, FlagFirst, Covered, Clean, OnlyEvents, run
<1>2. QED
  BY <1>1, QuietStep, Types DEF Reconnect, Inv, Within

LEMMA AskFollowKeeps == ASSUME Inv, AskFollow PROVE Inv'
<1>1. /\ request' \in Requests /\ request'.from = Len(device.got) /\ Len(device.got) <= log
      /\ UNCHANGED <<run, browserVars, link, watch, poll, wire, device>>
  <2>1. Seen \in 0..MaxEvents /\ Seen <= log
    BY Types DEF AskFollow, Inv, Within, Seen
  <2>2. QED
    BY <2>1, Types DEF AskFollow, Requests, Seen
<1>2. FlagFirst' /\ Covered'
  BY <1>1 DEF Inv, FlagFirst, Covered, Clean, OnlyEvents, run
<1>3. QED
  BY <1>1, <1>2, QuietStep, Types DEF Inv, Within, TypeOK

LEMMA PollDoneKeeps == ASSUME Inv, PollDone PROVE Inv'
<1>1. /\ poll.at = "send" /\ poll.left = <<>> /\ watch.on /\ poll' = Quiet /\ request' = request
      /\ link' = link /\ UNCHANGED <<run, browserVars, device>>
  BY DEF PollDone, Inv, FlagFirst, Quiet
<1>2. /\ Quiet.batch = 0 /\ Quiet.left = <<>> /\ Quiet.at = "finished" /\ Quiet.finished = FALSE
  BY DEF Quiet
<1>3. CASE FinishedThen /\ poll.batch = 0
  <2>1. /\ wire' = Append(wire, End) /\ watch' \in Watches /\ watch'.on = FALSE
        /\ watch'.sent = watch.sent
    BY <1>3, Types DEF PollDone, Watches
  <2>2. FlagFirst'
    BY <1>1, <1>2, <2>1 DEF FlagFirst
  <2>3. ~device.over /\ kept /\ Clean => reported /\ Len(device.got) + Len(wire) = log
    BY <1>1, <1>3, Types DEF Inv, FlagFirst, RunOrder, Covered, FinishedThen, Watches
  <2>4. watch'.sent + poll'.batch <= log
    BY <1>1, <1>2, <1>3, <2>1, Types DEF Inv, Within, Watches
  <2>5. QED
    BY <1>1, <1>2, <2>1, <2>2, <2>3, <2>4, EndStep, MessageFacts, Types DEF Inv, Within
<1>4. CASE ~(FinishedThen /\ poll.batch = 0)
  <2>1. watch' = [watch EXCEPT !.sent = @ + poll.batch] /\ wire' = wire
    BY <1>4 DEF PollDone
  <2>2. watch.sent \in Nat /\ poll.batch \in Nat /\ watch.sent + poll.batch <= log
    BY Types DEF Watches, Polls, Inv, Within
  <2>3. watch' \in Watches /\ watch'.on = watch.on /\ watch'.sent = watch.sent + poll.batch
    BY <2>1, <2>2, Types DEF Watches
  <2>4. FlagFirst'
    BY <1>1, <1>2, <2>3 DEF FlagFirst
  <2>5. Covered'
    BY <1>1, <1>2, <2>1, <2>2, <2>3, Types DEF Inv, Covered, Clean, OnlyEvents
  <2>6. QED
    BY <1>1, <1>2, <2>1, <2>2, <2>3, <2>4, <2>5, QuietStep, Types DEF Inv, Within, TypeOK
<1>5. QED
  BY <1>3, <1>4

LEMMA FollowKeeps == ASSUME Inv, Follow PROVE Inv'
<1>1. /\ request.pending /\ poll.at = "finished" /\ poll.batch = 0 /\ poll.left = <<>>
      /\ link' = link /\ poll' = poll /\ UNCHANGED <<run, browserVars, device>>
  BY DEF Follow, Inv, FlagFirst
<1>2. request' \in Requests /\ request'.from = request.from /\ request'.pending = FALSE
      /\ request.from \in 0..MaxEvents /\ request.from <= log
  BY Types DEF Follow, Requests, Inv, Within
<1>3. CASE kept
  <2>1. watch' = Watch(request.from) /\ wire' = wire
    BY <1>3 DEF Follow
  <2>2. CASE watch.on
    <3>1. watch' = watch
      BY <2>1, <2>2 DEF Watch
    <3>2. FlagFirst' /\ Covered'
      BY <1>1, <2>1, <2>2, <3>1 DEF Inv, FlagFirst, Covered, Clean, OnlyEvents, run
    <3>3. QED
      BY <1>1, <1>2, <2>1, <3>1, <3>2, QuietStep, Types DEF Inv, Within, TypeOK
  <2>3. CASE ~watch.on
    <3>1. watch' \in Watches /\ watch'.on /\ watch'.sent = request.from
      BY <1>2, <2>1, <2>3 DEF Watch, Watches
    <3>2. poll = Quiet /\ poll.finished = FALSE
      BY <2>3 DEF Inv, FlagFirst, Quiet
    <3>3. FlagFirst'
      BY <1>1, <3>1, <3>2 DEF FlagFirst
    <3>4. Covered'
      <4> SUFFICES ASSUME ~device.over, Clean
                   PROVE  Len(device.got) + Len(wire) + Len(poll.left) = watch'.sent + poll.batch
        <5>1. poll' = poll /\ (\A i \in 1..Len(poll.left) : FALSE)
          BY <1>1
        <5>2. wire' = wire /\ device' = device /\ watch'.on
          BY <1>1, <2>1, <3>1
        <5>3. QED
          BY <5>1, <5>2 DEF Covered, Clean, OnlyEvents
      <4>1. wire = <<>> /\ request.from = Len(device.got)
        BY <1>1, <2>3 DEF Inv, Covered
      <4>2. QED
        BY <1>1, <3>1, <4>1, Types
    <3>5. watch'.sent + poll'.batch <= log
      BY <1>1, <1>2, <3>1
    <3>6. QED
      BY <1>1, <1>2, <2>1, <3>1, <3>3, <3>4, <3>5, QuietStep, Types DEF Inv, Within, TypeOK
  <2>4. QED
    BY <2>2, <2>3
<1>4. CASE ~kept
  <2>1. wire' = Append(wire, NoSuchRun) /\ watch' = watch
    BY <1>4 DEF Follow
  <2>2. FlagFirst'
    BY <1>1, <2>1 DEF Inv, FlagFirst, run
  <2>3. QED
    BY <1>1, <1>2, <1>4, <2>1, <2>2, EndStep, MessageFacts, Types DEF Inv, Within
<1>5. QED
  BY <1>3, <1>4

\* One event more received or on the wire, one less after it.
LEMMA Shift ==
    /\ \A a \in Nat, i \in Nat : a + (i + 1) = a + 1 + i
    /\ \A a \in Nat, b \in Nat, i \in Nat : a + b + (i + 1) = a + (b + 1) + i
    /\ \A a \in Nat, b \in Nat, c \in Nat : a + (b + 1) + (c - 1) = a + b + c
    /\ \A a \in Nat, b \in Nat, i \in Nat : i = b + 1 => a + b + 1 = a + i
OBVIOUS

LEMMA PollSendKeeps == ASSUME Inv, PollSend PROVE Inv'
<1>0. Len(device.got) \in Nat /\ Len(wire) \in Nat
  BY Types
<1>1. /\ poll.at = "send" /\ poll.left # <<>> /\ watch.on /\ poll.left \in Seq(Events)
      /\ wire' = Append(wire, Event(Head(poll.left))) /\ poll' = [poll EXCEPT !.left = Tail(@)]
      /\ UNCHANGED <<run, browserVars, link, watch, request, device>>
  BY Types DEF PollSend, Inv, FlagFirst, Quiet, Polls
<1> DEFINE n == Head(poll.left)
<1>2. /\ n \in Events /\ n = poll.left[1] /\ Tail(poll.left) \in Seq(Events)
      /\ Len(poll.left) \in Nat \ {0} /\ Len(Tail(poll.left)) = Len(poll.left) - 1
      /\ \A i \in 1..Len(Tail(poll.left)) : Tail(poll.left)[i] = poll.left[i + 1]
  BY <1>1
<1>3. /\ poll' \in Polls /\ poll'.left = Tail(poll.left) /\ poll'.batch = poll.batch
      /\ poll'.at = poll.at /\ poll'.finished = poll.finished
  BY <1>1, <1>2, Types DEF Polls
<1> HIDE DEF n
<1>4. wire' = Append(wire, Event(n)) /\ Event(n) \in Messages
      /\ Event(n).message = "event" /\ Event(n).index = n
  BY <1>1, <1>2, MessageFacts DEF n
<1>5. /\ wire' \in Seq(Messages) /\ Len(wire') = Len(wire) + 1
      /\ \A i \in 1..Len(wire) : wire'[i] = wire[i]
      /\ wire'[Len(wire) + 1] = Event(n)
      /\ \A i \in 0..Len(wire) : OnlyEvents(i)' <=> OnlyEvents(i)
      /\ \A i \in Nat : i = Len(wire) + 1 => (OnlyEvents(i)' <=> Clean)
      /\ Clean' <=> Clean
  BY <1>4, Types, Sending
<1>6. Len(wire) \in Nat /\ 1..Len(wire') = (1..Len(wire)) \cup {Len(wire) + 1}
  BY <1>5, Types
<1>7. TypeOK'
  BY <1>1, <1>3, <1>5 DEF Inv, TypeOK, Polls, run, browserVars, Messages, Events
<1>8. RunOrder' /\ FlagFirst'
  BY <1>1, <1>3 DEF Inv, RunOrder, FlagFirst, run
<1>9. n <= log /\ \A i \in 1..Len(poll'.left) : poll'.left[i] <= log
  <2>1. 1 \in 1..Len(poll.left) /\ \A i \in 1..Len(poll'.left) : i + 1 \in 1..Len(poll.left)
    BY <1>2, <1>3
  <2>2. QED
    BY <1>2, <1>3, <2>1 DEF Inv, Within
<1>10. \A i \in 1..Len(wire') : wire'[i].message = "event" => wire'[i].index <= log
  BY <1>4, <1>5, <1>6, <1>9 DEF Inv, Within
<1>11. Within'
  BY <1>1, <1>3, <1>9, <1>10 DEF Inv, Within, run, browserVars
<1>12. ~device.over /\ Clean => n = Len(device.got) + Len(wire) + 1
  <2>1. 1 \in 1..Len(poll.left)
    BY <1>2
  <2>2. ~device.over /\ Clean =>
          \A i \in 1..Len(poll.left) : poll.left[i] = Len(device.got) + Len(wire) + i
    BY <1>1 DEF Inv, Covered
  <2>3. QED
    BY <1>2, <2>1, <2>2
<1>13. OnItsWay'
  <2> SUFFICES ASSUME NEW i \in 1..Len(wire'), ~device.over, OnlyEvents(i)'
               PROVE  wire'[i].index = Len(device.got) + i
    BY <1>1 DEF OnItsWay
  <2>1. CASE i \in 1..Len(wire)
    <3>1. OnlyEvents(i) /\ wire'[i] = wire[i]
      BY <1>5, <1>6, <2>1
    <3>2. QED
      BY <2>1, <3>1 DEF Inv, OnItsWay
  <2>2. CASE i = Len(wire) + 1
    <3>1. i \in Nat /\ Clean
      BY <1>5, <1>6, <2>2
    <3>2. wire'[i].index = n /\ n = Len(device.got) + Len(wire) + 1
      BY <1>4, <1>5, <1>12, <2>2, <3>1
    <3>3. Len(device.got) + Len(wire) + 1 = Len(device.got) + i
      BY <1>0, <2>2, <3>1, Shift, ZenonT(30)
    <3>4. QED
      BY <3>2, <3>3
  <2>3. QED
    BY <1>6, <2>1, <2>2
<1>14. Covered'
  <2> SUFFICES ASSUME ~device.over, Clean
               PROVE  /\ Len(device.got) + Len(wire') + Len(poll'.left) = watch.sent + poll.batch
                      /\ \A i \in 1..Len(poll'.left) :
                             poll'.left[i] = Len(device.got) + Len(wire') + i
    BY <1>1, <1>3, <1>5 DEF Covered
  <2>1. /\ Len(device.got) + Len(wire) + Len(poll.left) = watch.sent + poll.batch
        /\ \A i \in 1..Len(poll.left) : poll.left[i] = Len(device.got) + Len(wire) + i
    BY <1>1 DEF Inv, Covered
  <2>2. \A i \in 1..Len(poll'.left) : i + 1 \in 1..Len(poll.left)
    BY <1>2, <1>3
  <2>3. Len(device.got) + Len(wire') + Len(poll'.left) = watch.sent + poll.batch
    <3>1. Len(poll.left) \in Nat /\ Len(poll'.left) = Len(poll.left) - 1
      BY <1>2, <1>3
    <3>2. Len(device.got) + (Len(wire) + 1) + (Len(poll.left) - 1)
             = Len(device.got) + Len(wire) + Len(poll.left)
      BY <1>0, <3>1, Shift, ZenonT(30)
    <3>3. QED
      BY <1>5, <2>1, <3>1, <3>2
  <2>4. ASSUME NEW i \in 1..Len(poll'.left)
        PROVE  poll'.left[i] = Len(device.got) + Len(wire') + i
    <3>1. poll'.left[i] = poll.left[i + 1] /\ i \in Nat
      BY <1>2, <1>3
    <3>2. poll.left[i + 1] = Len(device.got) + Len(wire) + (i + 1)
      BY <2>1, <2>2
    <3>3. Len(device.got) + Len(wire) + (i + 1) = Len(device.got) + (Len(wire) + 1) + i
      BY <1>0, <3>1, Shift, ZenonT(30)
    <3>4. QED
      BY <1>5, <3>1, <3>2, <3>3
  <2>5. QED
    BY <2>3, <2>4
<1>15. EndAtEnd'
  <2> SUFFICES ASSUME NEW i \in 1..Len(wire'), ~device.over, kept, OnlyEvents(i - 1)',
                      wire'[i].message # "event"
               PROVE  reported /\ Len(device.got) + i - 1 = log
    BY <1>1 DEF EndAtEnd, run
  <2>1. i \in 1..Len(wire) /\ i - 1 \in 0..Len(wire)
    BY <1>4, <1>5, <1>6
  <2>2. OnlyEvents(i - 1) /\ wire'[i] = wire[i]
    BY <1>5, <2>1
  <2>3. QED
    BY <2>1, <2>2 DEF Inv, EndAtEnd
<1>16. FollowsExactly' /\ EndMeansAll'
  BY <1>1 DEF Inv, FollowsExactly, EndMeansAll, run, Range
<1>17. QED
  BY <1>7, <1>8, <1>11, <1>13, <1>14, <1>15, <1>16 DEF Inv

\* Everything on its way is lost, and nobody is asked to go on with it.
LEMMA DropKeeps == ASSUME Inv, Drop PROVE Inv'
<1>1. /\ link' = FALSE /\ watch' = [on |-> FALSE, sent |-> 0] /\ poll' = Quiet /\ wire' = <<>>
      /\ request' = NoRequest /\ UNCHANGED <<run, browserVars, device>>
  BY DEF Drop
<1>2. watch' \in Watches /\ poll' \in Polls /\ request' \in Requests /\ wire' \in Seq(Messages)
  BY <1>1, Types DEF Watches
<1>3. TypeOK'
  BY <1>1, <1>2 DEF Inv, TypeOK, Watches, Polls, Requests, run, browserVars, Events, Messages
<1>4. /\ watch'.on = FALSE /\ watch'.sent = 0 /\ poll'.batch = 0 /\ poll'.left = <<>>
      /\ poll'.finished = FALSE /\ poll'.at = "finished" /\ request'.from = 0
      /\ request'.pending = FALSE /\ Len(wire') = 0
  BY <1>1 DEF Quiet, NoRequest
<1>5. RunOrder' /\ Within' /\ FlagFirst'
  BY <1>1, <1>4, Types DEF Inv, RunOrder, Within, FlagFirst, run, browserVars
<1>6. OnItsWay' /\ Covered' /\ EndAtEnd'
  BY <1>1, <1>4 DEF OnItsWay, Covered, EndAtEnd
<1>7. FollowsExactly' /\ EndMeansAll'
  BY <1>1 DEF Inv, FollowsExactly, EndMeansAll, run, Range
<1>8. QED
  BY <1>3, <1>5, <1>6, <1>7 DEF Inv

LEMMA ReceiveKeeps == ASSUME Inv, Receive PROVE Inv'
<1>1. wire # <<>> /\ wire' = Tail(wire) /\ UNCHANGED <<run, browserVars, link, watch, poll, request>>
  BY DEF Receive
<1>2. /\ wire' \in Seq(Messages) /\ Len(wire') = Len(wire) - 1
      /\ Head(wire) = wire[1] /\ Head(wire) \in Messages /\ Len(wire) \in Nat \ {0}
      /\ \A i \in 1..Len(wire') : wire'[i] = wire[i + 1]
      /\ Head(wire).message = "event" =>
           /\ \A i \in 0..Len(wire') : OnlyEvents(i)' <=> OnlyEvents(i + 1)
           /\ Clean' <=> Clean
  BY <1>1, Types, Receiving
<1>3. RunOrder' /\ FlagFirst'
  BY <1>1 DEF Inv, RunOrder, FlagFirst, run
<1>4. \A i \in 1..Len(wire') : wire'[i].message = "event" => wire'[i].index <= log
  <2>1. \A i \in 1..Len(wire') : i + 1 \in 1..Len(wire)
    BY <1>2
  <2>2. QED
    BY <1>2, <2>1 DEF Inv, Within
<1>5. CASE Head(wire).message = "event"
  <2> DEFINE n == Head(wire).index
             g == device.got
  <2>1. device' = [device EXCEPT !.got = Append(@, n)]
    BY <1>5 DEF Receive
  <2>2. n \in Events /\ g \in Seq(Events) /\ Len(g) \in Nat
    BY <1>2, <1>5, MessageFacts, Types DEF Devices
  <2>3. /\ Append(g, n) \in Seq(Events) /\ Len(Append(g, n)) = Len(g) + 1
        /\ \A i \in 1..Len(g) : Append(g, n)[i] = g[i]
        /\ Append(g, n)[Len(g) + 1] = n
    <3> HIDE DEF n, g
    <3>1. QED
      BY <2>2
  <2>4. device' \in Devices /\ device'.got = Append(g, n) /\ device'.over = device.over
    BY <2>1, <2>3, Types DEF Devices
  <2>5. ~device.over => n = Len(g) + 1 /\ n <= log
    <3>1. 1 \in 1..Len(wire) /\ OnlyEvents(1)
      BY <1>2, <1>5 DEF OnlyEvents
    <3>2. QED
      BY <1>2, <1>5, <3>1 DEF Inv, OnItsWay, Within
  <2>6. TypeOK'
    BY <1>1, <1>2, <2>4 DEF Inv, TypeOK, Devices, run, browserVars, Events, Messages
  <2>7. Within'
    BY <1>1, <1>4, <2>3, <2>4, <2>5 DEF Inv, Within, run, browserVars
  <2>8. OnItsWay'
    <3> SUFFICES ASSUME NEW i \in 1..Len(wire'), ~device.over, OnlyEvents(i)'
                 PROVE  wire'[i].index = Len(g) + 1 + i
      BY <2>3, <2>4 DEF OnItsWay
    <3>1. i + 1 \in 1..Len(wire) /\ OnlyEvents(i + 1) /\ wire'[i] = wire[i + 1]
      BY <1>2, <1>5
    <3>2. wire[i + 1].index = Len(g) + (i + 1)
      BY <3>1 DEF Inv, OnItsWay
    <3>3. i \in Nat
      BY <1>2
    <3>4. Len(g) + (i + 1) = Len(g) + 1 + i
      BY <2>2, <3>3, Shift, Zenon
    <3>5. QED
      BY <3>1, <3>2, <3>4
  <2>9. Covered'
    <3> SUFFICES ASSUME ~device.over, Clean
                 PROVE  /\ watch.on
                        /\ Len(g) + 1 + Len(wire') + Len(poll.left) = watch.sent + poll.batch
                        /\ \A i \in 1..Len(poll.left) :
                               poll.left[i] = Len(g) + 1 + Len(wire') + i
      <4>1. /\ Clean' <=> Clean
            /\ device'.over = device.over /\ Len(device'.got) = Len(g) + 1
            /\ watch' = watch /\ poll' = poll
        BY <1>1, <1>2, <1>5, <2>3, <2>4
      <4> HIDE DEF g
      <4>2. QED
        BY <4>1 DEF Covered
    <3>1. /\ watch.on
          /\ Len(g) + Len(wire) + Len(poll.left) = watch.sent + poll.batch
          /\ \A i \in 1..Len(poll.left) : poll.left[i] = Len(g) + Len(wire) + i
      BY <1>1 DEF Inv, Covered
    <3>2. Len(g) + 1 + Len(wire') = Len(g) + Len(wire)
      BY <1>2, <2>2
    <3>3. QED
      BY <3>1, <3>2
  <2>10. EndAtEnd'
    <3> SUFFICES ASSUME NEW i \in 1..Len(wire'), ~device.over, kept, OnlyEvents(i - 1)',
                        wire'[i].message # "event"
                 PROVE  reported /\ Len(g) + 1 + i - 1 = log
      BY <1>1, <2>3, <2>4 DEF EndAtEnd, run
    <3>1. /\ i - 1 \in 0..Len(wire') /\ (i - 1) + 1 = i /\ i + 1 \in 1..Len(wire)
          /\ (i + 1) - 1 = i
      BY <1>2
    <3>2. OnlyEvents(i) /\ wire'[i] = wire[i + 1]
      BY <1>2, <1>5, <3>1
    <3>3. reported /\ Len(g) + (i + 1) - 1 = log
      BY <3>1, <3>2 DEF Inv, EndAtEnd
    <3>4. QED
      BY <2>2, <3>3
  <2>11. FollowsExactly'
    <3> SUFFICES ASSUME ~device.over, NEW i \in 1..(Len(g) + 1)
                 PROVE  Append(g, n)[i] = i
      BY <2>3, <2>4 DEF FollowsExactly
    <3>1. CASE i \in 1..Len(g)
      BY <2>3, <3>1, <2>2 DEF Inv, FollowsExactly
    <3>2. CASE i = Len(g) + 1
      BY <2>3, <2>5, <3>2
    <3>3. QED
      BY <2>2, <3>1, <3>2
  <2>12. EndMeansAll'
    <3>1. Range(g) \subseteq Range(Append(g, n))
      <4>1. DOMAIN g = 1..Len(g) /\ DOMAIN Append(g, n) = 1..(Len(g) + 1)
        BY <2>2, <2>3
      <4>2. \A i \in DOMAIN g : i \in DOMAIN Append(g, n) /\ Append(g, n)[i] = g[i]
        BY <2>2, <2>3, <4>1
      <4> HIDE DEF g, n
      <4>3. QED
        BY <4>2 DEF Range
    <3>2. QED
      BY <1>1, <2>4, <3>1 DEF Inv, EndMeansAll, run
  <2>13. QED
    BY <1>3, <2>6, <2>7, <2>8, <2>9, <2>10, <2>11, <2>12 DEF Inv
<1>6. CASE Head(wire).message # "event"
  <2>1. device' \in Devices /\ device'.over /\ device'.got = device.got
    BY <1>6, Types DEF Receive, Devices
  <2>2. TypeOK'
    BY <1>1, <1>2, <2>1 DEF Inv, TypeOK, Devices, run, browserVars, Events, Messages
  <2>3. Within' /\ OnItsWay' /\ Covered' /\ EndAtEnd' /\ FollowsExactly'
    BY <1>1, <1>4, <2>1
       DEF Inv, Within, OnItsWay, Covered, EndAtEnd, FollowsExactly, run, browserVars
  <2>4. EndMeansAll'
    <3> SUFFICES ASSUME kept PROVE reported /\ 1..log \subseteq Range(device.got)
      BY <1>1, <2>1 DEF EndMeansAll, run
    <3>1. CASE device.over
      BY <3>1 DEF Inv, EndMeansAll
    <3>2. CASE ~device.over
      <4>1. 1 \in 1..Len(wire) /\ 1 - 1 = 0 /\ OnlyEvents(1 - 1)
        BY <1>2 DEF OnlyEvents
      <4>2. reported /\ Len(device.got) + 1 - 1 = log
        BY <1>2, <1>6, <3>2, <4>1 DEF Inv, EndAtEnd
      <4>3. DOMAIN device.got = 1..log
        BY <4>2, Types DEF Devices
      <4>4. QED
        BY <3>2, <4>2, <4>3 DEF Inv, FollowsExactly, Range
    <3>3. QED
      BY <3>1, <3>2
  <2>5. QED
    BY <1>3, <2>2, <2>3, <2>4 DEF Inv
<1>7. QED
  BY <1>5, <1>6

-----------------------------------------------------------------------------
(* The theorems. *)

LEMMA InvNext == Inv /\ [Next]_vars => Inv'
<1> SUFFICES ASSUME Inv, [Next]_vars PROVE Inv'
  OBVIOUS
<1>1. CASE Emit \/ Report \/ Finish \/ Evict
  BY <1>1, RunSteps
<1>2. CASE StreamOpen \/ StreamRead \/ StreamSend \/ StreamCheck \/ TabCloses
  BY <1>2, BrowserSteps
<1>3. CASE PollFinished \/ PollEvents \/ PollSend \/ PollDone \/ Follow
  BY <1>3, PollFinishedKeeps, PollEventsKeeps, PollSendKeeps, PollDoneKeeps, FollowKeeps
<1>4. CASE Drop \/ Reconnect \/ AskFollow \/ Receive
  BY <1>4, DropKeeps, ReconnectKeeps, AskFollowKeeps, ReceiveKeeps
<1>5. CASE UNCHANGED vars
  <2>1. UNCHANGED <<run, deviceVars>> /\ stream' = stream /\ tab' = tab
    BY <1>5 DEF vars, browserVars
  <2>2. QED
    BY <2>1, BrowserStep DEF Inv, TypeOK, Within
<1>6. QED
  BY <1>1, <1>2, <1>3, <1>4, <1>5 DEF Next

\* The inductive invariant holds of every run of the specification.
THEOREM InvHolds == Spec => []Inv
BY InvInit, InvNext, PTL DEF Spec

\* However long the run and however often the connection drops, a device that
\* takes the run as going has seen the first events of the log, each once and in
\* order (Session::follow, Session::forward_runs, resumeRun).
THEOREM FollowsExactlyHolds == Spec => []FollowsExactly
<1>1. Inv => FollowsExactly
  BY DEF Inv
<1>2. QED
  BY <1>1, InvHolds, PTL

\* A device told the end of a run that is still kept has everything the run said,
\* its report too (Session::forward_runs, run_events).
THEOREM EndMeansAllHolds == Spec => []EndMeansAll
<1>1. Inv => EndMeansAll
  BY DEF Inv
<1>2. QED
  BY <1>1, InvHolds, PTL
=============================================================================
