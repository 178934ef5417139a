----------------------------- MODULE KeyMapper -----------------------------
(***************************************************************************)
(* The window of the settings application, app.py, on the Qt thread,       *)
(* composed with the worker thread of HidWorker.                           *)
(*                                                                         *)
(* The window sends commands through request_connect, request_disconnect   *)
(* and the command queue, and handles the worker's signals in the order    *)
(* they were emitted.  A click is possible when refresh_enabled leaves its *)
(* control enabled.  The edited settings (drafts of both modes and the     *)
(* mouse speed) are one value, and so is the baseline they are compared    *)
(* with.  What the macro panel asks is any command it may send; the panel  *)
(* itself is MacroPanel.                                                   *)
(***************************************************************************)
EXTENDS HidWorker

CONSTANTS
  Default,       \* the settings an unconnected window shows
  MaxClicks,     \* bound: commands the user sends
  MaxStops       \* bound: clicks on the stop button

ASSUME WindowAssumption == Default \in Values /\ {MaxClicks, MaxStops} \subseteq Nat

VARIABLES
  state,         \* connection_state; connected is state = "ready"
  shown,         \* connection_generation
  leaving,       \* disconnect_requested
  busy,
  revision,      \* revision, or None
  baseline, draft,
  paths,         \* the devices the list offers
  clicks,        \* commands sent
  stops,         \* clicks on the stop button
  hasty,         \* ghost: the user has not always waited for a disconnect to
                 \* end, or has clicked on the stop button
  edited         \* ghost: edited since the last request for the settings

windowVars == <<state, shown, leaving, busy, revision, baseline, draft, paths>>

userVars == <<clicks, stops, hasty, edited>>

vars == <<workerVars, windowVars, userVars>>

TypeOK ==
  /\ WorkerTypeOK
  /\ state \in States /\ shown \in Nat
  /\ leaving \in BOOLEAN /\ busy \in BOOLEAN
  /\ revision \in 0..Revisions - 1 \cup {None}
  /\ baseline \in Values /\ draft \in Values
  /\ paths \subseteq Paths /\ clicks \in 0..MaxClicks
  /\ stops \in 0..MaxStops /\ hasty \in BOOLEAN /\ edited \in BOOLEAN

Init ==
  /\ WorkerInit
  /\ state = "disconnected" /\ shown = 0 /\ leaving = FALSE /\ busy = FALSE
  /\ revision = None /\ baseline = Default /\ draft = Default
  /\ paths = {} /\ clicks = 0 /\ stops = 0
  /\ hasty = FALSE /\ edited = FALSE

connected == state = "ready"

dirty == draft # baseline

-----------------------------------------------------------------------------
(* The user's actions.                                                     *)

Send(cmd, arg) ==
  /\ clicks < MaxClicks /\ clicks' = clicks + 1
  /\ commands' = Append(commands, [cmd |-> cmd, arg |-> arg])
  /\ UNCHANGED <<deviceVars, events, stopping, at, linkVars, handleVars,
                 saveVars, mishaps>>

\* A click on a control that refresh_enabled disables while the window is
\* busy; until the answer the window is.
Request(cmd, arg) ==
  /\ ~busy /\ busy' = TRUE /\ ~stopping
  /\ hasty' = (hasty \/ leaving)
  /\ Send(cmd, arg)
  /\ UNCHANGED <<state, shown, revision, baseline, draft, paths, stops>>

\* scan_devices.  The first settings and READY are emitted at once: no click
\* falls between the two, so that before READY the window is only free when it
\* drops what the worker says.
Scan ==
  /\ \/ state \in {"disconnected", "error"}
     \/ state \in {"connecting", "reading"} /\ leaving
  /\ Request("scan", None)
  /\ UNCHANGED <<cancel, leaving, edited>>

\* Mutant: request_connect leaves the cancellation set.
AllowConnect_Forgotten == cancel' = cancel

AllowConnect == cancel' = FALSE

\* connect_device; the button is shown in two states only.
Connect ==
  /\ state \in {"disconnected", "error"}
  /\ leaving' = FALSE
  /\ AllowConnect
  /\ \E p \in paths : Request("connect", p)
  /\ UNCHANGED edited

\* disconnect_device, possible while the window is busy.
Disconnect ==
  /\ state \in {"connecting", "reading", "ready", "retry_wait"} /\ ~stopping
  /\ busy' = TRUE /\ leaving' = TRUE
  /\ hasty' = (hasty \/ leaving)
  /\ cancel' = TRUE
  /\ Send("disconnect", None)
  /\ UNCHANGED <<state, shown, revision, baseline, draft, paths, stops, edited>>

\* read_device
ReadDevice ==
  /\ connected
  /\ Request("read", None)
  /\ edited' = FALSE
  /\ UNCHANGED <<cancel, leaving>>

\* apply_settings
Apply ==
  /\ connected /\ revision # None /\ dirty
  /\ Request("apply", [rev |-> revision, val |-> draft, base |-> baseline,
                       gen |-> shown])
  /\ edited' = FALSE
  /\ UNCHANGED <<cancel, leaving>>

\* edited, load_defaults, speed_changed
Edit ==
  /\ ~busy /\ ~stopping
  /\ draft' \in Values \ {draft} /\ edited' = TRUE
  /\ UNCHANGED <<workerVars, state, shown, leaving, busy, revision, baseline,
                 paths, clicks, stops, hasty>>

\* request_macro
RequestMacro ==
  /\ connected
  /\ Request("macro", None)
  /\ UNCHANGED <<cancel, leaving, edited>>

\* request_macro_stop, possible while the window is busy and not marked so.
StopMacro ==
  /\ connected /\ ~stopping
  /\ stops < MaxStops /\ stops' = stops + 1 /\ hasty' = TRUE
  /\ Send("macro", None)
  /\ UNCHANGED <<cancel, windowVars, edited>>

\* closeEvent: HidWorker.stop
Close ==
  /\ ~stopping /\ stopping' = TRUE /\ cancel' = TRUE
  /\ UNCHANGED <<deviceVars, commands, events, at, linkVars, handleVars,
                 saveVars, mishaps, windowVars, userVars>>

User ==
  \/ Scan \/ Connect \/ Disconnect \/ ReadDevice \/ Apply \/ Edit
  \/ RequestMacro \/ StopMacro \/ Close

-----------------------------------------------------------------------------
(* The worker's signals.                                                   *)

Handle(kind) ==
  /\ events # <<>> /\ Head(events).kind = kind /\ ~stopping
  /\ events' = Tail(events)
  /\ UNCHANGED <<deviceVars, commands, cancel, stopping, at, linkVars,
                 handleVars, saveVars, mishaps, userVars>>

OnDevices ==
  /\ Handle("devices")
  /\ paths' = Head(events).paths /\ busy' = FALSE
  /\ UNCHANGED <<state, shown, leaving, revision, baseline, draft>>

\* What on_connection drops: an older generation, and everything but
\* DISCONNECTED once the user is leaving.
Outdated(event) ==
  event.gen < shown \/ (leaving /\ event.state # "disconnected")

RevisionAfter(event) == IF event.state = "ready" THEN revision ELSE None

\* The list of devices stays; that a READY puts the path it was reached at into
\* the selected entry is left out.
OnConnection ==
  /\ Handle("connection")
  /\ LET event == Head(events) IN
       IF Outdated(event) THEN UNCHANGED windowVars
       ELSE /\ shown' = event.gen /\ state' = event.state
            /\ revision' = RevisionAfter(event)
            /\ leaving' = (leaving /\ event.state # "disconnected")
            /\ busy' = (event.state \in {"connecting", "reading"})
            /\ UNCHANGED <<baseline, draft, paths>>

\* Mutant: only the first connection keeps an edited draft.
Preserved_FirstOnly(op) == op = "connect" /\ dirty

\* A draft edited offline survives the connections.
Preserved(op) == op \in {"connect", "reconnect", "recover_save"} /\ dirty

OnSettings ==
  /\ Handle("settings")
  /\ LET event == Head(events) IN
       IF leaving THEN UNCHANGED windowVars
       ELSE /\ revision' = event.snap.rev /\ baseline' = event.snap.val
            /\ draft' = IF Preserved(event.op) THEN draft ELSE event.snap.val
            /\ busy' = FALSE
            /\ UNCHANGED <<state, shown, leaving, paths>>

\* Mutant: the window stays busy after a problem.
OnProblem_StaysBusy ==
  /\ Handle("problem")
  /\ revision' = None
  /\ UNCHANGED <<busy, state, shown, leaving, baseline, draft, paths>>

OnProblem ==
  /\ Handle("problem")
  /\ busy' = FALSE /\ revision' = None
  /\ UNCHANGED <<state, shown, leaving, baseline, draft, paths>>

\* on_macro_result and on_macro_problem
OnMacro ==
  /\ Handle("macro")
  /\ busy' = FALSE
  /\ UNCHANGED <<state, shown, leaving, revision, baseline, draft, paths>>

Signal == OnDevices \/ OnConnection \/ OnSettings \/ OnProblem \/ OnMacro

-----------------------------------------------------------------------------
Next ==
  \/ User \/ Signal
  \/ (Worker \/ World) /\ UNCHANGED <<windowVars, userVars>>

Spec == Init /\ [][Next]_vars

\* Both threads run: signals are handled, the worker takes its commands, ends
\* its operations and polls.  Nothing is assumed of the user or the devices.
LiveSpec ==
  Spec /\ WF_vars(Signal)
       /\ WF_vars(Worker /\ UNCHANGED <<windowVars, userVars>>)
-----------------------------------------------------------------------------
(* Properties.                                                             *)

\* When nothing is under way between the two threads, the window shows exactly
\* what the worker has: READY if and only if a handle is open, and no control
\* is held back by a request that will never be answered.
SettledAgree ==
  commands = <<>> /\ events = <<>> /\ at = "idle" /\ ~stopping =>
    /\ connected <=> session # None
    /\ ~busy /\ ~leaving

\* However devices are unplugged, swapped and plugged in again, an open session
\* is with the device the user selected: the one with the serial number learnt
\* when the generation first connected.
SessionIsTarget == session # None => Serial[session] = target.serial

\* The worker never waits for commands on an open session with the outcome of
\* a save still in doubt.
JudgedBeforeReady == session # None /\ at = "idle" => pendingSave = None

\* A save of this application replaces only the settings the window showed
\* when the user clicked: never what another application saved in between, at
\* any point of the read, compare and write, and however often the session was
\* lost and found again.  A new connection the user had already asked for when
\* clicking breaks this: SavesWhereShown.
NoLostUpdate ==
  [][\A d \in Devices :
       stored'[d] # stored[d] /\ outcome' = "held" /\ outcome # "held" =>
         /\ d = session
         /\ pendingSave.gen = generation => stored[d].val = pendingSave.base]_vars

\* A save goes to the connection the window showed when the user clicked.
SavesWhereShown ==
  [][outcome' = "held" /\ outcome # "held" => pendingSave.gen = generation]_vars

\* After a reconnect the user is told that the device does not hold the save
\* in doubt only when it does not: its write never took effect, or another
\* save has replaced it.
NoFalseAlarm ==
  [][\A s \in {events'[i] : i \in DOMAIN events' \ DOMAIN events} :
       s.kind = "connection" /\ s.verdict = "differs" => outcome # "held"]_vars

\* No answer overwrites what the user has edited since asking for it, and no
\* reconnect overwrites an unsaved draft, of a user who waits for a disconnect
\* to end.  The stop button breaks this: its answer frees the controls while the
\* worker still reads.
NoEditLost ==
  [][~hasty /\ edited /\ dirty /\ draft' # draft => edited' /\ events' = events]_vars

\* While the worker reads or saves for the user, the controls stay disabled.
BusyUntilResult ==
  at \in {"reread", "check", "write", "verify"} /\ ~stopping => busy

\* Every request is answered: the window does not stay busy.
BusyEnds == busy ~> (~busy \/ stopping)

\* A device that was selected and stays plugged in is connected again, unless
\* the user leaves or an error ends the connection for good.
Recovers ==
  <>[](active /\ ~Cancelled /\ \E d \in Listed : Found(d)) => <>[]connected

\* Window and worker agree whenever neither is under way to the other, on the
\* session, its device and the save in doubt.
WindowSafety ==
  /\ TypeOK
  /\ SettledAgree
  /\ SessionIsTarget
  /\ JudgedBeforeReady

\* Every request gets its answer, and a lost session is found again.
WindowLiveness ==
  /\ BusyEnds
  /\ Recovers
=============================================================================
