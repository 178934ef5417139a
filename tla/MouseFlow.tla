----------------------------- MODULE MouseFlow -----------------------------
(***************************************************************************)
(* The mouse slot of the input engine, hid_input.c, and the one mouse      *)
(* report it has under way in the output path of UsbHid.                   *)
(*                                                                         *)
(* Movement waits in a short queue, an entry per change of the buttons;    *)
(* the head goes out in reports of at most Packet steps, one at a time.    *)
(* One axis stands for the two that speed scales; what a fraction of a     *)
(* step leaves is carried over.  The handlers of the owner task are        *)
(* atomic here; their sections under the mutex are in UsbHid, a suspended  *)
(* host too.  While a macro types (MacroUpload, UsbHid) the slot rests.    *)
(* What is assumed of the constants is in MouseSlot.                       *)
(***************************************************************************)
EXTENDS Integers, Sequences

CONSTANTS
  Buttons,       \* what may be pressed, 0 is nothing
  Packet,        \* 127, the most a report moves
  Deltas,        \* -127..127, movement the remote reports
  Unit,          \* KEYMAP_SPEED_DEFAULT: 4
  Speeds,        \* 1..12
  QueueSize,     \* MOUSE_QUEUE_SIZE: 8
  None

\* A report in the output path: in the queue of tx_once or at the endpoint.
Reports == [at : {"queued", "flying"}, buttons : Buttons, move : -Packet..Packet]

VARIABLES
  mouse,         \* native[1], mouse_queue and motion_remainder
  speed,         \* keymap_mouse_speed
  mode,          \* mode_known and cursor_mode
  home,          \* home_held
  out,           \* the mouse report in the output path, or None
  up,            \* mounted
  relink,        \* why on_link is to run, "no" when it is not
  completed,     \* output_event is queued
  host,          \* the buttons the computer believes are pressed
  held,          \* ghost: the user holds HOME
  owed,          \* ghost: movement given and not dropped or delivered, in
                 \* fractions of a step
  edges,         \* ghost: changes of the buttons the same way
  quiet          \* ghost: from here on nobody does anything

linkVars == <<up, relink>>
modeVars == <<mode, home, held, speed>>
ghosts   == <<owed, edges>>
vars     == <<mouse, out, completed, host, linkVars, modeVars, ghosts, quiet>>

Abs(n) == IF n < 0 THEN -n ELSE n

\* C divides towards zero.
Quotient(n, d) == IF n < 0 THEN -(Abs(n) \div d) ELSE n \div d

Remainder(n, d) == n - d * Quotient(n, d)

Clamped(n, limit) == IF n > limit THEN limit ELSE IF n < -limit THEN -limit ELSE n

-----------------------------------------------------------------------------
(* What is on its way: the movement in fractions of a step, and the        *)
(* changes of the buttons that a computer that has seen b will see.        *)

\* The movement that waits in a queue.
Sum(queue) ==
  LET total[i \in 0..Len(queue)] ==
        IF i = 0 THEN 0 ELSE total[i - 1] + queue[i].move
  IN total[Len(queue)]

Owing(m, o) ==
  m.rest + Unit * (Sum(m.queue) + IF o = None THEN 0 ELSE o.move)

\* What the computer has seen when the report o has arrived.
Seen(o, b) == IF o = None THEN b ELSE o.buttons

\* What it sees of the slot from then on: an entry of the queue is a change,
\* but for a head whose first part has been sent.
Told(m, b) ==
  LET states == [i \in DOMAIN m.queue |-> m.queue[i].buttons]
  IN IF m.queue = <<>> THEN IF m.dirty /\ m.buttons # b THEN <<m.buttons>> ELSE <<>>
     ELSE IF Head(states) = b THEN Tail(states) ELSE states

Coming(m, o, b) ==
  (IF Seen(o, b) = b THEN <<>> ELSE <<o.buttons>>) \o Told(m, Seen(o, b))

\* Something is dropped: the ghosts count what is left.
Drop == owed' = Owing(mouse', out') /\ edges' = Coming(mouse', out', host)

-----------------------------------------------------------------------------
(* flush_mouse                                                             *)

Ready == up /\ relink = "no"

Report(m) ==
  IF m.queue = <<>> THEN [buttons |-> m.buttons, move |-> 0]
  ELSE [buttons |-> Head(m.queue).buttons, move |-> Clamped(Head(m.queue).move, Packet)]

\* host_output_send
Queued(m) == [at |-> "queued", buttons |-> Report(m).buttons, move |-> Report(m).move]

\* The queue with another movement in its entry i.
Moving(queue, i, move) == [queue EXCEPT ![i] = [buttons |-> @.buttons, move |-> move]]

\* The queue once its report is accepted.
Left(m) ==
  IF Head(m.queue).move = Report(m).move THEN Tail(m.queue)
  ELSE Moving(m.queue, 1, Head(m.queue).move - Report(m).move)

Sent(m) ==
  IF m.queue = <<>> THEN [m EXCEPT !.dirty = FALSE]
  ELSE [m EXCEPT !.queue = Left(m), !.dirty = Left(m) # <<>>]

\* Mutant: reports are sent before the one under way has arrived.
Idle_Always(o) == TRUE

\* host_output_pending
Idle(o) == o = None

\* The slot is m, the output path o; host_output_send may refuse when the
\* packets of the other reports fill its queue.
Flush(m, o, ready) ==
  \/ /\ ready /\ Idle(o) /\ (m.queue # <<>> \/ m.dirty)
     /\ mouse' = Sent(m) /\ out' = Queued(m)
  \/ /\ ~quiet \/ ~ready \/ ~Idle(o) \/ (m.queue = <<>> /\ ~m.dirty)
     /\ mouse' = m /\ out' = o

Cleared == [buttons |-> 0, dirty |-> TRUE, queue |-> <<>>, rest |-> 0]

\* host_output_clear; the endpoint keeps what it has.
Unqueued == IF out # None /\ out.at = "queued" THEN None ELSE out

\* clear_native and flush_native
Release == Flush(Cleared, Unqueued, Ready) /\ Drop

-----------------------------------------------------------------------------
(* hid_input_mouse                                                         *)

\* Mutant: the queue has no bound.
Overloaded_Never(m, b) == FALSE

\* The newest entry of a queue.
Newest(queue) == queue[Len(queue)]

Overloaded(m, b) == Len(m.queue) = QueueSize /\ Newest(m.queue).buttons # b

\* Mutant: an overload forgets the change that finds no room.
Entry_Full(m, b) ==
  IF m.queue # <<>> /\ (Newest(m.queue).buttons = b \/ Len(m.queue) = QueueSize)
  THEN m.queue ELSE Append(m.queue, [buttons |-> b, move |-> 0])

\* The queue with an entry for b at its end.
Entry(m, b) ==
  IF m.queue # <<>> /\ Newest(m.queue).buttons = b THEN m.queue
  ELSE Append(IF Overloaded(m, b) THEN <<>> ELSE m.queue,
              [buttons |-> b, move |-> 0])

\* Mutant: fractions of a step are dropped.
Fraction_Dropped(scaled) == 0

Fraction(scaled) == Remainder(scaled, Unit)

Limit == LET scaled == (2 * Packet * speed) \div Unit
         IN IF scaled > 2 * Packet THEN scaled ELSE 2 * Packet

\* The last entry moves by delta at the speed set.  What the slot was still
\* to say about the buttons is dropped when they change.
Moved(m, b, delta) ==
  LET scaled == delta * speed + m.rest
      queue  == Entry(m, b)
      value  == queue[Len(queue)].move + Quotient(scaled, Unit)
  IN [slot |-> [buttons |-> b, dirty |-> TRUE, rest |-> Fraction(scaled),
                queue |-> Moving(queue, Len(queue), Clamped(value, Limit))],
      lossy |-> \/ Overloaded(m, b) \/ Abs(value) > Limit
                \/ b # m.buttons /\ m.queue = <<>> /\ m.dirty]

\* hid_input_mouse for a slot m and an output path o.
Input(m, o, b, delta) ==
  LET changed == b # m.buttons
      moved   == Moved(m, b, delta)
  IN IF ~Ready
     THEN /\ mouse' = [buttons |-> b, dirty |-> m.dirty \/ changed,
                       queue |-> <<>>, rest |-> 0]
          /\ out' = o /\ Drop
     ELSE IF ~changed /\ delta = 0
     THEN Flush(m, o, TRUE) /\ Drop
     ELSE /\ Flush(moved.slot, o, TRUE)
          /\ IF moved.lossy \/ m # mouse \/ o # out THEN Drop
             ELSE /\ owed' = owed + delta * speed
                  /\ edges' = IF changed THEN Append(edges, b) ELSE edges

-----------------------------------------------------------------------------
(* The remote, through hid_client.c.                                       *)

\* Mutant: a report that waits in the output path keeps its movement.
Paused_QueueOnly(o) == o

\* host_output_discard_motion
Paused(o) == IF o # None /\ o.at = "queued" THEN [o EXCEPT !.move = 0] ELSE o

Still(m) ==
  [buttons |-> m.buttons, dirty |-> m.dirty, rest |-> 0,
   queue |-> [i \in DOMAIN m.queue |-> [buttons |-> m.queue[i].buttons, move |-> 0]]]

\* hid_input_keyboard: the keys come to b, with HOME or without.
Keyboard(b, pressed) ==
  /\ home' = pressed /\ held' = pressed
  /\ IF mode = "cursor" /\ pressed
     THEN Input(Still(mouse), Paused(out), b, 0)
     ELSE Input(mouse, out, b, 0)
  /\ UNCHANGED <<completed, host, linkVars, mode, speed, quiet>>

\* map_remote
Free(delta) == IF home THEN 0 ELSE delta

\* hid_input_remote_mouse in cursor mode; in normal mode it does nothing.
RemoteMouse(b, delta) ==
  /\ mode = "cursor"
  /\ Input(mouse, out, b, Free(delta))
  /\ UNCHANGED <<completed, host, linkVars, modeVars, quiet>>

\* hid_input_remote_mouse when the mode is unknown: set_mapping_mode first.
FirstMouse(b, delta) ==
  /\ mode = "unknown" /\ mode' = "cursor"
  /\ LET m == IF Ready /\ Idle(Unqueued) THEN Sent(Cleared) ELSE Cleared
         o == IF Ready /\ Idle(Unqueued) THEN Queued(Cleared) ELSE Unqueued
     IN Input(m, o, b, Free(delta))
  /\ UNCHANGED <<completed, host, linkVars, home, held, speed, quiet>>

\* hid_input_sensor_mode where it changes the mode.
SensorMode(new) ==
  /\ new # mode /\ mode' = new
  /\ Release
  /\ UNCHANGED <<completed, host, linkVars, home, held, speed, quiet>>

\* hid_input_remote_ready(false); who holds what is unknown from then on.
RemoteLost ==
  /\ mode' = "unknown" /\ home' = FALSE /\ held' = FALSE
  /\ Release
  /\ UNCHANGED <<completed, host, linkVars, speed, quiet>>

Remote ==
  /\ ~quiet
  /\ \/ \E b \in Buttons, pressed \in BOOLEAN : Keyboard(b, pressed)
     \/ \E b \in Buttons, d \in Deltas : RemoteMouse(b, d) \/ FirstMouse(b, d)
     \/ \E new \in {"normal", "cursor"} : SensorMode(new)
     \/ RemoteLost

-----------------------------------------------------------------------------
(* The application and the clock.                                          *)

\* A save: keymap_apply and hid_input_mapping_changed.
Save ==
  /\ ~quiet /\ Ready
  /\ speed' \in Speeds /\ home' = FALSE
  /\ Release
  /\ UNCHANGED <<completed, host, linkVars, mode, held, quiet>>

\* hid_input_macro_stop after a COMMIT or STOP of the application
MacroStop ==
  /\ ~quiet /\ Ready
  /\ Release
  /\ UNCHANGED <<completed, host, linkVars, modeVars, quiet>>

\* Mutant: only the report for the application is repeated.
Heartbeat_VendorOnly == UNCHANGED vars

\* on_heartbeat
Heartbeat ==
  /\ Flush(mouse, out, Ready)
  /\ UNCHANGED <<completed, host, linkVars, modeVars, ghosts, quiet>>

-----------------------------------------------------------------------------
(* The output path.                                                        *)

\* tx_once
Transmit ==
  /\ out # None /\ out.at = "queued"
  /\ out' = [out EXCEPT !.at = "flying"]
  /\ UNCHANGED <<mouse, completed, host, linkVars, modeVars, ghosts, quiet>>

\* The computer takes the report; tud_hid_report_complete_cb.
Deliver ==
  /\ out # None /\ out.at = "flying" /\ out' = None
  /\ host' = out.buttons
  /\ owed' = owed - Unit * out.move
  /\ edges' = IF out.buttons = host \/ edges = <<>> THEN edges ELSE Tail(edges)
  /\ completed' = TRUE
  /\ UNCHANGED <<mouse, linkVars, modeVars, quiet>>

\* on_output_ready
OnOutput ==
  /\ completed /\ completed' = FALSE
  /\ Flush(mouse, out, Ready)
  /\ UNCHANGED <<host, linkVars, modeVars, ghosts, quiet>>

\* tud_hid_report refuses, or tud_hid_report_failed_cb.
Fail ==
  /\ ~quiet /\ out # None /\ out' = None
  /\ relink' = IF relink = "changed" THEN relink ELSE "retry"
  /\ UNCHANGED <<mouse, completed, host, up, modeVars, quiet>>
  /\ Drop

\* The cable; a computer that is new knows of no button.
Replug ==
  /\ ~quiet /\ up' = ~up /\ relink' = "changed"
  /\ out' = None
  /\ host' = IF up THEN host ELSE 0
  /\ owed' = Owing(mouse, None) /\ edges' = Coming(mouse, None, host')
  /\ UNCHANGED <<mouse, completed, modeVars, quiet>>

\* on_link; after a retry the release goes out once more.
OnLink ==
  /\ relink # "no" /\ relink' = "no"
  /\ home' = (home /\ relink # "changed")
  /\ \E again \in {relink = "retry"} :
       \/ /\ up /\ Idle(Unqueued)
          /\ mouse' = [Sent(Cleared) EXCEPT !.dirty = again]
          /\ out' = Queued(Cleared)
       \/ /\ ~up \/ ~Idle(Unqueued) \/ ~quiet
          /\ mouse' = Cleared /\ out' = Unqueued
  /\ Drop
  /\ UNCHANGED <<completed, host, up, mode, held, speed, quiet>>

\* From here on the user, the cable and the application rest.
Calm ==
  /\ ~quiet /\ quiet' = TRUE
  /\ UNCHANGED <<mouse, out, completed, host, linkVars, modeVars, ghosts>>

Init ==
  /\ mouse = [buttons |-> 0, dirty |-> FALSE, queue |-> <<>>, rest |-> 0]
  /\ speed = Unit /\ mode = "unknown" /\ home = FALSE /\ held = FALSE
  /\ out = None /\ up = FALSE /\ relink = "no" /\ completed = FALSE
  /\ host = 0 /\ owed = 0 /\ edges = <<>> /\ quiet = FALSE

Path == Transmit \/ Deliver \/ OnOutput \/ OnLink \/ Heartbeat

Next == Remote \/ Save \/ MacroStop \/ Path \/ Fail \/ Replug \/ Calm

Spec == Init /\ [][Next]_vars

\* The endpoint is polled, the owner task handles its events and the
\* heartbeat comes every second.
LiveSpec ==
  /\ Spec
  /\ WF_vars(Transmit) /\ WF_vars(Deliver)
  /\ WF_vars(OnOutput) /\ WF_vars(OnLink) /\ WF_vars(Heartbeat)

-----------------------------------------------------------------------------
(* Properties.                                                             *)

Entries == [buttons : Buttons, move : Int]

\* The type invariant; the queue keeps its bound, and an entry what its
\* 16 bits hold.
TypeOK ==
  /\ mouse \in [buttons : Buttons, dirty : BOOLEAN, queue : Seq(Entries), rest : Int]
  /\ Len(mouse.queue) <= QueueSize
  /\ \A i \in DOMAIN mouse.queue :
       \E s \in Speeds : Abs(mouse.queue[i].move) * Unit <= 2 * Packet * s
  /\ Abs(mouse.rest) < Unit
  /\ out \in Reports \cup {None}
  /\ up \in BOOLEAN /\ relink \in {"no", "changed", "retry"}
  /\ mode \in {"unknown", "normal", "cursor"} /\ home \in BOOLEAN /\ held \in BOOLEAN
  /\ completed \in BOOLEAN /\ quiet \in BOOLEAN
  /\ host \in Buttons /\ speed \in Speeds

\* No movement is lost or invented: whatever was not dropped on purpose (an
\* overload, HOME, a release of everything) has reached the computer or is on
\* its way, to the fraction of a step, whatever the split into reports.
MotionExact == owed = Owing(mouse, out)

\* The queue has an entry per change of the buttons.
Changes ==
  \A i \in 2..Len(mouse.queue) : mouse.queue[i].buttons # mouse.queue[i - 1].buttons

\* The computer sees the buttons change as they did, in order; none is
\* skipped but in an overload or a release of everything.
ClicksExact == Changes /\ edges = Coming(mouse, out, host)

\* The changes of the buttons still to come end with the buttons as they are.
EndsRight ==
  relink = "no" /\ up =>
    LET shown == <<host>> \o Coming(mouse, out, host)
    IN shown[Len(shown)] = mouse.buttons

\* Nothing waits that could move the pointer.
Frozen ==
  /\ mouse.rest = 0 /\ \A i \in DOMAIN mouse.queue : mouse.queue[i].move = 0
  /\ out # None /\ out.at = "queued" => out.move = 0

\* While the engine takes HOME to be held, the pointer is still: only a report
\* the endpoint already had can move it.  So nothing from before or while
\* HOME was held is replayed when it is released.
PausedIsStill == mode = "cursor" /\ home => Frozen

\* The same while the user holds HOME, as the README promises.
HeldIsStill == mode = "cursor" /\ held => Frozen

\* Once everyone rests and the cable is in, the computer believes the buttons
\* are pressed that are, and all movement has arrived.
Settles ==
  quiet ~> [](up => host = mouse.buttons /\ mouse.queue = <<>> /\ out = None)

\* Movement and clicks are exact at every step, and the mode, HOME and a replug
\* leave nothing behind.
MouseSafety ==
  /\ TypeOK
  /\ MotionExact
  /\ ClicksExact
  /\ EndsRight
  /\ PausedIsStill
=============================================================================
