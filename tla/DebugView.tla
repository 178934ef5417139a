----------------------------- MODULE DebugView -----------------------------
(***************************************************************************)
(* The live view of the remote's input: reports of the bridge              *)
(* (hid_input.c), the decoder on the worker thread (protocol.py,           *)
(* debugging.py, worker.py) and the panel of the window (debug_panel.py).  *)
(*                                                                         *)
(* Reports are states, not changes, and may get lost on their way; the     *)
(* decoder turns them into presses and releases.  Events are collected and *)
(* handed to the window in batches, through a queue, while the user stops, *)
(* starts, clears and relabels the recording through another queue, and    *)
(* the device comes and goes.                                              *)
(***************************************************************************)
EXTENDS Integers, Sequences, FiniteSets, SequencesExt

CONSTANTS
  Keys,          \* buttons of the remote
  Native,        \* keys of the keyboard, mouse and volume reports
  Modes,         \* labels of the recording
  Seqs,          \* 2^16 sequence numbers
  PendingCap,    \* 128 events wait for the next batch
  MaxRows,       \* 300 rows of history
  Absent,        \* None
  MaxReports, MaxLost, MaxPlugs, MaxClicks, MaxQueue   \* bounds

\* Losses are fewer than the sequence can tell apart.
ASSUME DebugViewAssumption ==
  /\ Seqs \in Nat \ {0} /\ MaxLost \in Nat /\ MaxLost + 1 < Seqs
  /\ IsFiniteSet(Keys) /\ IsFiniteSet(Native) /\ Keys \cap Native = {}
  /\ PendingCap \in Nat /\ MaxRows \in Nat \ {0} /\ Modes # {}
  /\ Absent \notin Modes /\ Absent \notin 0..Seqs - 1
  /\ \A keys \in SUBSET Native : keys # Absent

VARIABLES
  remote,        \* the bridge: keys, native keys, ready, reports published
  wire,          \* reports on their way to read_input
  session,       \* the worker has the device open
  decoder,       \* DebugDecoder and its ButtonState
  debugMode,     \* debug_mode, None when nothing is recorded
  pending, dropped, \* events for the next batch, events left out
  commands,      \* of the window to the worker
  signals,       \* of the worker to the window
  panel,         \* the check box, the label, connected, the tables
  run,           \* ghost: the number of times the decoder was reset
  lost, plugs, clicks

worker   == <<session, decoder, debugMode, pending, dropped, run>>
counts   == <<lost, plugs, clicks>>
viewVars == <<remote, wire, worker, commands, signals, panel, counts>>

-----------------------------------------------------------------------------
(* The decoder.                                                            *)

\* DebugDecoder(); first, last and received are ghosts: which reports of the
\* bridge were decoded, how many, and how often the native keys were forgotten.
NewDecoder ==
  [seq |-> Absent, keys |-> {}, gaps |-> 0, native |-> Absent,
   first |-> 0, last |-> 0, received |-> 0, spell |-> 0]

\* Events for the keys of a set, in some fixed order; ghosts tell under which
\* label and since which reset they were decoded.
Events(spell, keys, action) ==
  [i \in 1..Cardinality(keys) |->
     [key |-> SetToSeq(keys)[i], action |-> action,
      under |-> debugMode, of |-> <<run, spell>>]]

\* Mutant: a report that is repeated is decoded again.
Delta_NoRepeats(d, report) ==
  IF d.seq = Absent THEN 1 ELSE ((report.seq - d.seq - 1) % Seqs) + 1

\* Reports since the last one; one, if there is none to compare with.
Delta(d, report) ==
  IF d.seq = Absent THEN 1 ELSE (report.seq - d.seq) % Seqs

\* ButtonState.update of a report that is new.
NewKeys(report) == IF report.ready THEN report.keys ELSE {}

\* A remote that has gone: what the host holds is not known any more.
Forgotten(d, report) ==
  IF report.ready THEN d ELSE [d EXCEPT !.native = Absent, !.spell = @ + 1]

Updated(d, report) ==
  [seq |-> report.seq, keys |-> NewKeys(report),
   gaps |-> d.gaps + Delta(d, report) - 1,
   native |-> Forgotten(d, report).native, spell |-> Forgotten(d, report).spell,
   first |-> IF d.seq = Absent THEN report.number ELSE d.first,
   last |-> report.number, received |-> d.received + 1]

ButtonEvents(d, report) ==
  LET new == NewKeys(report)
      how == IF report.input /\ d.seq # Absent THEN "press" ELSE "restored"
  IN Events(0, d.keys \ new, "release") \o Events(0, new \ d.keys, how)
       \o Events(0, IF report.input /\ new = d.keys THEN new ELSE {}, "repeat")

\* transitions: the keyboard, the mouse and the volume have no sequence.
NativeEvents(d, report) ==
  LET old == IF d.native = Absent THEN {} ELSE d.native
      how == IF d.native = Absent THEN "restored" ELSE "press"
  IN Events(d.spell, old \ report.keys, "release")
       \o Events(d.spell, report.keys \ old, how)

\* consume: the decoder and the events of one report.
Consume(d, report) ==
  IF report.source = "native"
  THEN [decoder |-> [d EXCEPT !.native = report.keys], events |-> NativeEvents(d, report)]
  ELSE IF Delta(d, report) = 0
  THEN [decoder |-> Forgotten(d, report), events |-> <<>>]
  ELSE [decoder |-> Updated(d, report), events |-> ButtonEvents(d, report)]

-----------------------------------------------------------------------------
NewPanel ==
  [enabled |-> FALSE, mode |-> CHOOSE m \in Modes : TRUE, connected |-> FALSE,
   counts |-> [k \in Keys \cup Native |-> [m \in Modes |-> 0]],
   rows |-> <<>>, gaps |-> 0, lost |-> 0, dropped |-> 0, change |-> 0]

ViewInit ==
  /\ remote = [keys |-> {}, native |-> {}, ready |-> TRUE, number |-> 0,
               total |-> 0]
  /\ wire = <<>>
  /\ session = FALSE /\ decoder = NewDecoder /\ debugMode = Absent
  /\ pending = <<>> /\ dropped = 0
  /\ commands = <<>> /\ signals = <<>>
  /\ panel = NewPanel
  /\ run = 0
  /\ lost = 0 /\ plugs = 0 /\ clicks = 0

-----------------------------------------------------------------------------
(* The bridge.                                                             *)

\* A report reaches the queue of the HID library or is lost; sent in the
\* number of one publish.
Transmit(report) ==
  \/ wire' = Append(wire, report) /\ UNCHANGED lost
  \/ lost < MaxLost /\ lost' = lost + 1 /\ UNCHANGED wire

\* publish: a new state of the remote, or the heartbeat, whose state may be one
\* that the host was not ready to take when it was new.
Publish ==
  /\ session /\ remote.total < MaxReports
  /\ \E ready, input \in BOOLEAN, keys \in SUBSET Keys :
       LET new == [remote EXCEPT !.ready = ready, !.keys = keys,
                                 !.number = @ + 1, !.total = @ + 1]
       IN /\ ~ready => keys = {}
          /\ input => ready
          /\ remote' = new
          /\ Transmit([source |-> "remote", seq |-> new.number % Seqs,
                       ready |-> ready, input |-> input, keys |-> keys,
                       number |-> new.number])
  /\ UNCHANGED <<worker, commands, signals, panel, plugs, clicks>>

\* flush_native: the native reports follow the keys that are held.
PublishNative ==
  /\ session /\ remote.total < MaxReports
  /\ \E keys \in SUBSET Native :
       /\ keys # remote.native
       /\ ~remote.ready => keys \subseteq remote.native
       /\ remote' = [remote EXCEPT !.native = keys, !.total = @ + 1]
       /\ Transmit([source |-> "native", keys |-> keys])
  /\ UNCHANGED <<worker, commands, signals, panel, plugs, clicks>>

\* A report arrives twice.
Repeat ==
  /\ wire # <<>> /\ remote.total < MaxReports
  /\ remote' = [remote EXCEPT !.total = @ + 1]
  /\ wire' = Append(wire, Last(wire))
  /\ UNCHANGED <<worker, commands, signals, panel, counts>>

-----------------------------------------------------------------------------
(* The worker.                                                             *)

\* Mutant: events that wait are kept when the decoder is reset.
Reset_KeepsPending ==
  /\ decoder' = NewDecoder /\ run' = run + 1
  /\ UNCHANGED <<pending, dropped>>

\* _reset_debug
Reset ==
  /\ decoder' = NewDecoder /\ run' = run + 1
  /\ pending' = <<>> /\ dropped' = 0

\* command("debug"): recording starts, stops or gets another label.
Configure ==
  /\ commands # <<>> /\ commands' = Tail(commands)
  /\ debugMode' = Head(commands)
  /\ Reset
  /\ UNCHANGED <<remote, wire, session, signals, panel, counts>>

\* The batch of emit; a ghost counts the reports that were lost.
Batch(waiting, left, d) ==
  [kind |-> "batch", mode |-> debugMode, events |-> waiting,
   gaps |-> d.gaps, dropped |-> left,
   lost |-> IF d.seq = Absent THEN 0 ELSE d.last - d.first + 1 - d.received]

\* Mutant: events that do not fit are left out without a count.
LeftOut_Uncounted(events, room) == 0

LeftOut(events, room) == Len(events) - room

\* poll: a report was read, or nothing within the time.  Every 0.1 s, at any
\* poll here, the events are handed over.
Poll ==
  /\ session
  /\ \/ wire # <<>> /\ wire' = Tail(wire)
     \/ wire = <<>> /\ UNCHANGED wire
  /\ IF debugMode = Absent THEN UNCHANGED <<decoder, pending, dropped, signals>>
     ELSE LET read == IF wire = <<>> THEN [decoder |-> decoder, events |-> <<>>]
                      ELSE Consume(decoder, Head(wire))
              free == PendingCap - Len(pending)
              room == IF free < Len(read.events) THEN free ELSE Len(read.events)
              all  == pending \o SubSeq(read.events, 1, room)
              left == dropped + LeftOut(read.events, room)
          IN /\ decoder' = read.decoder /\ dropped' = left
             /\ \/ pending' = all /\ UNCHANGED signals
                \/ /\ Len(signals) < MaxQueue
                   /\ pending' = <<>>
                   /\ signals' = Append(signals, Batch(all, left, read.decoder))
  /\ UNCHANGED <<remote, session, debugMode, run, commands, panel, counts>>

\* _attempt succeeds: the bridge numbers its reports from the beginning.
Open ==
  /\ ~session /\ session' = TRUE
  /\ Len(signals) < MaxQueue
  /\ signals' = Append(signals, [kind |-> "ready"])
  /\ wire' = <<>>
  /\ remote' = [remote EXCEPT !.number = 0]
  /\ Reset
  /\ UNCHANGED <<debugMode, commands, panel, counts>>

\* read_input fails, _transport_failed.
Lose ==
  /\ session /\ session' = FALSE
  /\ plugs < MaxPlugs /\ plugs' = plugs + 1
  /\ Len(signals) < MaxQueue
  /\ signals' = Append(signals, [kind |-> "gone"])
  /\ wire' = <<>>
  /\ Reset
  /\ UNCHANGED <<remote, debugMode, commands, panel, lost, clicks>>

-----------------------------------------------------------------------------
(* The window.                                                             *)

Click == clicks < MaxClicks /\ clicks' = clicks + 1

\* configure after a change of the panel.
Changed(new) ==
  /\ panel' = [new EXCEPT !.change = @ + 1]
  /\ commands' = Append(commands, IF new.enabled THEN new.mode ELSE Absent)
  /\ UNCHANGED <<remote, wire, worker, signals, lost, plugs>>

Enable == Click /\ Changed([panel EXCEPT !.enabled = ~@])

Choose ==
  /\ Click
  /\ \E m \in Modes \ {panel.mode} : Changed([panel EXCEPT !.mode = m])

Clear ==
  /\ Click
  /\ Changed([panel EXCEPT !.rows = <<>>, !.counts = NewPanel.counts])

OnConnection ==
  /\ signals # <<>> /\ Head(signals).kind # "batch"
  /\ panel' = [panel EXCEPT !.connected = Head(signals).kind = "ready"]
  /\ signals' = Tail(signals)
  /\ UNCHANGED <<remote, wire, worker, commands, counts>>

\* on_batch: the batch is one of the recording on the screen.
Showing(batch) ==
  panel.enabled /\ panel.connected /\ batch.mode = panel.mode

\* The rows of a batch; ghosts name the recording they belong to and tell
\* whether events were left out before.
Rows(batch) ==
  [i \in DOMAIN batch.events |->
     [event |-> batch.events[i], mode |-> batch.mode,
      change |-> panel.change, whole |-> batch.dropped = 0]]

\* Mutant: one row too many.
Newest_OneMore(rows) ==
  IF Len(rows) <= MaxRows + 1 THEN rows
  ELSE SubSeq(rows, Len(rows) - MaxRows, Len(rows))

Newest(rows) ==
  IF Len(rows) <= MaxRows THEN rows
  ELSE SubSeq(rows, Len(rows) - MaxRows + 1, Len(rows))

\* Mutant: key repeats count as presses.
Counted_Repeats(event) == event.action # "release"

Counted(event) == event.action \in {"press", "restored"}

OnBatch ==
  /\ signals # <<>> /\ Head(signals).kind = "batch"
  /\ signals' = Tail(signals)
  /\ LET batch == Head(signals)
         new(k, m) == {i \in DOMAIN batch.events :
                         /\ Counted(batch.events[i])
                         /\ batch.events[i].key = k /\ batch.mode = m}
     IN panel' = IF ~Showing(batch) THEN panel
                 ELSE [panel EXCEPT
                         !.rows = Newest(@ \o Rows(batch)),
                         !.counts = [k \in Keys \cup Native |->
                           [m \in Modes |-> @[k][m] + Cardinality(new(k, m))]],
                         !.gaps = batch.gaps, !.lost = batch.lost,
                         !.dropped = batch.dropped]
  /\ UNCHANGED <<remote, wire, worker, commands, counts>>

ViewNext ==
  \/ Publish \/ PublishNative \/ Repeat
  \/ Configure \/ Poll \/ Open \/ Lose
  \/ Enable \/ Choose \/ Clear \/ OnConnection \/ OnBatch

ViewSpec == ViewInit /\ [][ViewNext]_viewVars

-----------------------------------------------------------------------------
(* Properties.                                                             *)

ViewTypeOK ==
  /\ session \in BOOLEAN /\ debugMode \in Modes \cup {Absent}
  /\ decoder.seq \in 0..Seqs - 1 \cup {Absent}
  /\ decoder.keys \in SUBSET Keys
  /\ Len(pending) <= PendingCap /\ dropped \in Nat
  /\ \A i \in DOMAIN commands : commands[i] \in Modes \cup {Absent}
  /\ Len(panel.rows) <= MaxRows
  /\ panel.enabled \in BOOLEAN /\ panel.connected \in BOOLEAN

\* The gaps shown to the user are the reports that were lost since the decoder
\* first heard of the remote: reports that arrive twice, sequence numbers that
\* wrap and a bridge that starts to count anew are not losses.
GapsAreLosses == panel.gaps = panel.lost

\* The table of counts agrees with the history until the history is full.
CountsMatchRows ==
  Len(panel.rows) < MaxRows =>
    \A k \in Keys \cup Native, m \in Modes :
      panel.counts[k][m] =
        Cardinality({i \in DOMAIN panel.rows :
                       /\ panel.rows[i].mode = m /\ panel.rows[i].event.key = k
                       /\ panel.rows[i].event.action \in {"press", "restored"}})

\* What is recorded under one label was decoded under it: events that waited
\* when the user changed the label are not counted under the new one.
LabelIsRight == \A i \in DOMAIN panel.rows :
                  panel.rows[i].mode = panel.rows[i].event.under

\* Rows i and j follow each other in the history of a key, in one recording.
Follows(i, j) ==
  LET event(k) == panel.rows[k].event
      of(k)    == <<event(k).key, event(k).of, panel.rows[k].change>>
  IN /\ i < j /\ of(i) = of(j)
     /\ "repeat" \notin {event(i).action, event(j).action}
     /\ \A k \in i + 1..j - 1 :
          of(k) = of(i) => event(k).action = "repeat"

\* As long as no event was left out, a key is pressed and released in turn,
\* whatever reports were lost or came twice.  What the host holds while the
\* remote goes away is another story.
PressesAlternate ==
  \A i, j \in DOMAIN panel.rows :
    Follows(i, j) /\ panel.rows[j].whole =>
      (Counted(panel.rows[i].event) <=> panel.rows[j].event.action = "release")

\* The view tells what happened: losses, labels, counts and presses.
ViewSafety ==
  /\ ViewTypeOK
  /\ GapsAreLosses
  /\ LabelIsRight
  /\ CountsMatchRows
  /\ PressesAlternate
=============================================================================
