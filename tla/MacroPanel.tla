----------------------------- MODULE MacroPanel -----------------------------
(***************************************************************************)
(* The macro editor of the settings application: macro_panel.py with what  *)
(* app.py (busy, connected) and worker.py (the macro commands, the flag    *)
(* macro_stop_requested) do for it.                                        *)
(*                                                                         *)
(* The panel edits one slot, a mode and a button.  The drafts of the other *)
(* slots wait in drafts.  It reads a slot by itself when it connects or    *)
(* the slot changes, and saves only on request.  Macros are values; the    *)
(* chunks in which one travels are MacroUpload's.  The session of the      *)
(* worker is open or not: how it comes and goes is KeyMapper's.            *)
(***************************************************************************)
EXTENDS Integers, Sequences

CONSTANTS
  Slots,
  Macros,        \* what the user may write
  First,         \* the macros on the device at the start
  Blank,         \* Macro(), shown for a slot nothing is known of
  Revisions,     \* 2^16, the revisions of a slot count modulo this
  None,
  MaxStops,      \* bound: clicks on the stop button
  MaxMishaps     \* bound: answers that are wrong or do not come, lost devices,
                 \* saves by another application

ASSUME PanelAssumption ==
  /\ Blank \in Macros /\ None \notin Macros \cup Slots
  /\ None \notin [val : Macros, base : Macros]
  /\ First \in [Slots -> Macros] /\ Revisions \in Nat \ {0}

VARIABLES
  stored,        \* the macros on the device
  session,       \* the worker has an open handle
  commands,      \* macro commands in HidWorker.commands
  at,            \* the command the worker executes, or None
  stopFlag,      \* macro_stop_requested
  events,        \* signals on their way to the window
  connected, busy,
  panel,         \* the attributes of MacroPanel
  deferred,      \* a single-shot ensure_read is due
  discard,       \* ghost: the slot whose draft the user agreed to replace
  stops, mishaps

budgets == <<stops, mishaps>>
worker  == <<stored, session, commands, at, stopFlag, events, budgets>>
window  == <<connected, busy, panel, deferred, discard>>
vars    == <<worker, window>>

Stored == [rev : 0..Revisions - 1, val : Macros]

Drafts == [val : Macros, base : Macros]

Commands ==
  [cmd : {"read", "stop"}, slot : Slots]
    \cup [cmd : {"save"}, slot : Slots, rev : 0..Revisions - 1,
          val : Macros, base : Macros, sent : BOOLEAN]

Events ==
  [kind : {"connecting", "ready", "lost", "problem", "stop"}]
    \cup [kind : {"read", "save"}, slot : Slots, is : Stored]

Panel ==
  [slot : Slots, revision : 0..Revisions - 1 \cup {None}, pending : BOOLEAN,
   needs_read : BOOLEAN, preserve_read : BOOLEAN, read_error : BOOLEAN,
   value : Macros, baseline : Macros, drafts : [Slots -> Drafts \cup {None}]]

TypeOK ==
  /\ stored \in [Slots -> Stored] /\ session \in BOOLEAN
  /\ commands \in Seq(Commands) /\ at \in Commands \cup {None}
  /\ stopFlag \in BOOLEAN /\ events \in Seq(Events)
  /\ connected \in BOOLEAN /\ busy \in BOOLEAN
  /\ panel \in Panel /\ deferred \in BOOLEAN
  /\ discard \in Slots \cup {None}

Init ==
  /\ stored = [s \in Slots |-> [rev |-> Revisions - 1, val |-> First[s]]]
  /\ session = FALSE /\ commands = <<>> /\ at = None /\ stopFlag = FALSE
  /\ events = <<>> /\ connected = FALSE /\ busy = FALSE
  /\ \E s \in Slots :
       panel = [slot |-> s, revision |-> None, pending |-> FALSE,
                needs_read |-> TRUE, preserve_read |-> FALSE,
                read_error |-> FALSE, value |-> Blank, baseline |-> Blank,
                drafts |-> [x \in Slots |-> None]]
  /\ deferred = FALSE /\ discard = None
  /\ stops = 0 /\ mishaps = 0

-----------------------------------------------------------------------------
(* The panel.                                                              *)

dirty == panel.value # panel.baseline

idle == ~busy /\ ~panel.pending

\* Mutant: nothing is read by itself.
Shows_NoTimer(p, con, bus) ==
  /\ panel' = IF connected /\ ~con
              THEN [p EXCEPT !.revision = None, !.pending = FALSE,
                             !.preserve_read = FALSE, !.needs_read = TRUE,
                             !.read_error = FALSE]
              ELSE p
  /\ connected' = con /\ busy' = bus
  /\ UNCHANGED deferred

\* set_connection, which every handler of the window calls at its end: a read
\* that is needed is deferred until the handler has returned.
Shows(p, con, bus) ==
  /\ panel' = IF connected /\ ~con
              THEN [p EXCEPT !.revision = None, !.pending = FALSE,
                             !.preserve_read = FALSE, !.needs_read = TRUE,
                             !.read_error = FALSE]
              ELSE p
  /\ connected' = con /\ busy' = bus
  /\ deferred' = (deferred \/ (con /\ panel'.needs_read /\ ~bus))

\* request_macro: the window is busy until the answer.
Ask(command) ==
  /\ commands' = Append(commands, command)
  /\ busy' = TRUE
  /\ UNCHANGED <<stored, session, at, stopFlag, events, budgets, connected>>

\* start_read, for the panel p.
StartRead(p, preserve) ==
  /\ panel' = [p EXCEPT !.preserve_read = preserve /\ p.value # p.baseline,
                        !.pending = TRUE, !.needs_read = FALSE,
                        !.read_error = FALSE, !.revision = None]
  /\ Ask([cmd |-> "read", slot |-> p.slot])

\* The deferred ensure_read.
EnsureRead ==
  /\ deferred
  /\ IF panel.needs_read /\ connected /\ idle
     THEN StartRead(panel, TRUE) /\ discard' = None
     ELSE UNCHANGED <<worker, connected, busy, panel, discard>>
  /\ deferred' = FALSE

\* The panel after change_target has gone to slot s, its draft put aside.
Switched(s) ==
  LET d == panel.drafts[s] IN
    [panel EXCEPT
       !.drafts[panel.slot] =
         IF dirty THEN [val |-> panel.value, base |-> panel.baseline] ELSE None,
       !.slot = s, !.revision = None, !.read_error = FALSE,
       !.needs_read = TRUE,
       !.value = IF d = None THEN Blank ELSE d.val,
       !.baseline = IF d = None THEN Blank ELSE d.base]

\* change_target: by the panel's list while it is idle, or by the button of
\* the key editor (open_button_macro) while the window is not busy.
ChangeTarget ==
  /\ ~busy
  /\ \E s \in Slots \ {panel.slot} :
       IF connected /\ ~panel.pending
       THEN StartRead(Switched(s), TRUE)
       ELSE panel' = Switched(s) /\ UNCHANGED <<worker, connected, busy>>
  /\ discard' = None
  /\ UNCHANGED deferred

\* edit_step, add_step, move_step, remove_step and the numbers
Edit ==
  /\ idle /\ (~connected \/ panel.revision # None)
  /\ \E v \in Macros \ {panel.value} : panel' = [panel EXCEPT !.value = v]
  /\ UNCHANGED <<worker, connected, busy, deferred, discard>>

\* The retry button: read.
Retry ==
  /\ panel.read_error /\ connected /\ idle
  /\ StartRead(panel, TRUE)
  /\ discard' = None
  /\ UNCHANGED deferred

\* restore, and the user agrees to lose the draft.
Restore ==
  /\ dirty /\ connected /\ idle
  /\ StartRead(panel, FALSE)
  /\ discard' = panel.slot
  /\ UNCHANGED deferred

\* save
Save ==
  /\ connected /\ idle /\ panel.revision # None /\ dirty
  /\ panel' = [panel EXCEPT !.pending = TRUE]
  /\ Ask([cmd |-> "save", slot |-> panel.slot, rev |-> panel.revision,
          val |-> panel.value, base |-> panel.baseline, sent |-> FALSE])
  /\ UNCHANGED <<deferred, discard>>

\* The stop button, enabled while connected: request_macro_stop.
Stop ==
  /\ connected /\ stops < MaxStops /\ stops' = stops + 1
  /\ stopFlag' = TRUE
  /\ commands' = Append(commands, [cmd |-> "stop", slot |-> panel.slot])
  /\ UNCHANGED <<stored, session, at, events, mishaps, window>>

User == ChangeTarget \/ Edit \/ Retry \/ Restore \/ Save \/ Stop

-----------------------------------------------------------------------------
(* The signals of the worker.                                              *)

Handle(kind) ==
  /\ events # <<>> /\ Head(events).kind = kind
  /\ events' = Tail(events)
  /\ UNCHANGED <<stored, session, commands, at, stopFlag, budgets>>

\* on_connection
OnConnection ==
  \/ Handle("connecting") /\ Shows(panel, FALSE, TRUE) /\ UNCHANGED discard
  \/ Handle("lost") /\ Shows(panel, FALSE, FALSE) /\ UNCHANGED discard
  \/ Handle("ready") /\ Shows(panel, TRUE, FALSE) /\ UNCHANGED discard

Answered ==
  [panel EXCEPT !.pending = FALSE, !.needs_read = FALSE, !.read_error = FALSE,
                !.revision = Head(events).is.rev]

\* Mutant: an automatic read replaces the draft.
Received_Replaces ==
  LET is == Head(events).is IN
    [Answered EXCEPT !.value = is.val, !.baseline = is.val,
                     !.drafts[panel.slot] = None]

\* A read that preserves the draft only moves its baseline.
Received ==
  LET is == Head(events).is IN
    IF Head(events).kind = "read" /\ panel.preserve_read
    THEN [Answered EXCEPT !.baseline = is.val, !.preserve_read = FALSE]
    ELSE [Answered EXCEPT !.value = is.val, !.baseline = is.val,
                          !.drafts[panel.slot] = None]

\* Mutant: an answer is taken for the slot on the screen.
ForPanel_Any == connected

ForPanel == Head(events).slot = panel.slot /\ connected

\* on_macro_result with result: an answer for another slot is ignored.
OnResult ==
  /\ Handle("read") \/ Handle("save")
  /\ IF ForPanel
     THEN Shows(Received, connected, FALSE) /\ discard' = None
     ELSE Shows(panel, connected, FALSE) /\ UNCHANGED discard

OnStopped ==
  /\ Handle("stop")
  /\ Shows(panel, connected, FALSE)
  /\ UNCHANGED discard

\* Mutant: after a problem the panel still waits.
Failed_StaysPending ==
  [panel EXCEPT !.needs_read = FALSE, !.preserve_read = FALSE,
                !.revision = None, !.read_error = TRUE]

Failed ==
  [panel EXCEPT !.pending = FALSE, !.needs_read = FALSE,
                !.preserve_read = FALSE, !.revision = None, !.read_error = TRUE]

\* on_macro_problem with problem
OnProblem ==
  /\ Handle("problem")
  /\ Shows(Failed, connected, FALSE)
  /\ UNCHANGED discard

Window == OnConnection \/ OnResult \/ OnStopped \/ OnProblem \/ EnsureRead

-----------------------------------------------------------------------------
(* The worker.                                                             *)

Emit(signals) == events' = events \o signals

Signal(kind) == <<[kind |-> kind]>>

Mishap == mishaps < MaxMishaps /\ mishaps' = mishaps + 1 /\ UNCHANGED stops

\* command: without a device every macro command is refused, stop included.
Refuse ==
  /\ at = None /\ commands # <<>> /\ ~session
  /\ commands' = Tail(commands)
  /\ Emit(Signal("problem"))
  /\ UNCHANGED <<stored, session, at, stopFlag, budgets, window>>

FlagAtStart == stopFlag /\ Head(commands).cmd # "stop"

Begin ==
  /\ at = None /\ commands # <<>> /\ session
  /\ at' = Head(commands) /\ commands' = Tail(commands)
  /\ stopFlag' = FlagAtStart
  /\ UNCHANGED <<stored, session, events, budgets, window>>

Done ==
  /\ at' = None
  /\ UNCHANGED <<commands, stopFlag, window>>

\* What a save expects to read in the end.
ReadsBack ==
  stored[at.slot] = [rev |-> (at.rev + 1) % Revisions, val |-> at.val]

\* The worker's exchanges look at the flag before they send.
Succeed ==
  /\ at # None /\ ~stopFlag
  /\ \/ at.cmd = "stop" /\ Emit(Signal("stop"))
     \/ /\ at.cmd = "read"
        /\ Emit(<<[kind |-> "read", slot |-> at.slot, is |-> stored[at.slot]]>>)
     \/ /\ at.cmd = "save" /\ at.sent
        /\ ReadsBack
        /\ Emit(<<[kind |-> "save", slot |-> at.slot, is |-> stored[at.slot]]>>)
  /\ Done
  /\ UNCHANGED <<stored, session, budgets>>

\* Mutant: the next revision does not wrap.
Next16_Unwrapped(rev) == rev + 1

Next16(rev) == (rev + 1) % Revisions

DeviceAccepts == stored[at.slot].rev = at.rev

\* The COMMIT of a save takes effect.
Commit ==
  /\ at # None /\ ~stopFlag /\ at.cmd = "save" /\ ~at.sent
  /\ DeviceAccepts
  /\ stored' = [stored EXCEPT ![at.slot] = [rev |-> Next16(@.rev),
                                            val |-> at.val]]
  /\ at' = [at EXCEPT !.sent = TRUE]
  /\ UNCHANGED <<session, commands, stopFlag, events, budgets, window>>

\* A stop request cancels the command; the session stays.
Cancel ==
  /\ at # None /\ stopFlag
  /\ Emit(Signal("problem"))
  /\ Done
  /\ UNCHANGED <<stored, session, budgets>>

\* The answer is not the one expected (a ValueError); the session stays.
Reject ==
  /\ at # None /\ ~stopFlag
  /\ \/ Mishap
     \/ /\ at.cmd = "save" /\ ~at.sent /\ ~DeviceAccepts
        /\ UNCHANGED budgets
  /\ Emit(Signal("problem"))
  /\ Done
  /\ UNCHANGED <<stored, session>>

\* An OSError, or a save that reads back as something else, ends the session
\* after the problem, unless a stop was requested in between.
Break ==
  /\ at # None
  /\ \/ Mishap
     \/ /\ at.cmd = "save" /\ at.sent
        /\ ~ReadsBack
        /\ UNCHANGED budgets
  /\ session' = stopFlag
  /\ Emit(Signal("problem") \o IF stopFlag THEN <<>> ELSE Signal("lost"))
  /\ Done
  /\ UNCHANGED stored

\* poll finds the device gone.
Lose ==
  /\ at = None /\ session
  /\ session' = FALSE
  /\ Mishap
  /\ Emit(Signal("lost"))
  /\ UNCHANGED <<stored, commands, at, stopFlag, window>>

\* The first attempt, or a later one: with the settings read, READY.
Connect ==
  /\ at = None /\ ~session /\ commands = <<>> /\ events = <<>>
  /\ session' = TRUE
  /\ Emit(Signal("connecting") \o Signal("ready"))
  /\ UNCHANGED <<stored, commands, at, stopFlag, budgets, window>>

Worker ==
  \/ Refuse \/ Begin \/ Succeed \/ Commit \/ Cancel \/ Reject \/ Break
  \/ Lose \/ Connect

\* Another application saves a macro.
Rival ==
  /\ Mishap
  /\ \E s \in Slots, v \in Macros :
       stored' = [stored EXCEPT ![s] = [rev |-> Next16(@.rev), val |-> v]]
  /\ UNCHANGED <<session, commands, at, stopFlag, events, window>>

-----------------------------------------------------------------------------
Next == User \/ Window \/ Worker \/ Rival

Spec == Init /\ [][Next]_vars

\* Both threads run, and the user tries again when the panel offers it.
LiveSpec ==
  Spec /\ WF_vars(Window) /\ WF_vars(Worker) /\ WF_vars(Retry)

-----------------------------------------------------------------------------
(* Properties.                                                             *)

Unsaved(s) == IF s = panel.slot THEN dirty ELSE panel.drafts[s] # None

Draft(s) == IF s = panel.slot THEN panel.value ELSE panel.drafts[s].val

\* What the user has written for a button and not saved is never replaced,
\* by no read, answer, reconnect or change of the button, unless the user
\* agreed to discard the draft of this very slot; and then only by an answer.
\* The stop button breaks this: a failed stop resets what the read before it
\* has announced.
DraftsKept ==
  [][stops = 0 =>
       \A s \in Slots :
         Unsaved(s) /\ ~(Unsaved(s)' /\ Draft(s)' = Draft(s)) =>
           \/ s = panel.slot /\ UNCHANGED <<worker, panel.slot>>
           \/ /\ events' = Tail(events) /\ Head(events).slot = s
              /\ discard = s \/ Head(events).is.val = Draft(s)]_vars

\* A save replaces only the macro that the panel showed as the slot's content
\* on the device when the user clicked.
NoLostMacro ==
  [][Commit => stored[at.slot].val = at.base]_vars

\* The panel does not wait for ever, unless the answer to a stop has let the
\* user leave the slot it waits for.
PendingEnds == panel.pending ~> (~panel.pending \/ stops > 0)

\* While the device answers, a user who retries gets the macro of the slot,
\* unless a stop has left its flag behind.
RetryReads == <>[](session /\ stops = 0) => []<>(panel.revision # None)

\* The panel is neither stuck waiting nor for ever empty.
PanelLiveness ==
  /\ PendingEnds
  /\ RetryReads
=============================================================================
