----------------------------- MODULE HidWorker -----------------------------
(***************************************************************************)
(* The worker thread of the settings application: worker.py with           *)
(* hid_session.py, connection.py and the settings protocol of mapping.py.  *)
(*                                                                         *)
(* The worker takes one command at a time from a queue; between commands   *)
(* it polls.  An operation on the device is several steps (program counter *)
(* at), because the window's thread may set the flag cancel, the device    *)
(* may be unplugged and another application may save between any two.      *)
(* Answers go to the window as a queue of signals.                         *)
(*                                                                         *)
(* A device is where it is plugged in, the serial number it reports and    *)
(* its settings, a revision and a value.  The window's actions are those   *)
(* of KeyMapper.                                                           *)
(***************************************************************************)
EXTENDS Integers, Sequences

CONSTANTS
  Devices,       \* bridges
  Paths,         \* HID paths of the operating system
  Serial,        \* serial_of each device
  NoSerial,      \* a device without a usable serial number
  HasMacros,     \* devices with the firmware that answers MacroProtocol
  Values,        \* contents of the settings
  First,         \* those each device has at the start
  Revisions,     \* 2^16, the revisions count modulo this
  None,
  MaxEvents,     \* bound: signals waiting when the worker begins something
  MaxMishaps     \* bound: I/O errors without an unplugged device, plugging and
                 \* unplugging, saves by another application

ASSUME WorkerAssumption ==
  /\ Serial \in [Devices -> STRING] /\ NoSerial \in STRING
  /\ HasMacros \subseteq Devices
  /\ First \in [Devices -> Values]
  /\ Revisions \in Nat \ {0}
  /\ None \notin Devices \cup Paths \cup Values
  /\ {MaxEvents, MaxMishaps} \subseteq Nat

VARIABLES
  place,         \* where each device is plugged in, or None
  stored,        \* the settings each device keeps
  commands,      \* HidWorker.commands
  events,        \* signals on their way to the window
  cancel,        \* cancel_requested
  stopping,
  at,            \* what the worker is doing
  active, generation, target, everReady,
  retry,         \* ReconnectPolicy.retry_at is set
  session,       \* the device whose handle is open, or None
  alive,         \* the open handle works: its device stayed plugged in
  candidate,     \* the device _attempt has selected
  snapshot,      \* the settings _attempt has read
  pendingSave,   \* pending_save, or None
  outcome,       \* ghost: what became of pendingSave on the device
  mishaps        \* how many of them there were

deviceVars == <<place, stored>>
queueVars  == <<commands, events, cancel, stopping>>
linkVars   == <<active, generation, target, everReady, retry>>
handleVars == <<session, alive, candidate, snapshot>>
saveVars   == <<pendingSave, outcome>>

workerVars == <<deviceVars, queueVars, at, linkVars, handleVars, saveVars,
                mishaps>>

Settings == [rev : 0..Revisions - 1, val : Values]

\* An apply command's settings, with two ghosts: what the window showed as the
\* device's settings when it was sent, and the connection it showed.
Saves == [rev : 0..Revisions - 1, val : Values, base : Values, gen : Nat]

States ==
  {"disconnected", "connecting", "reading", "ready", "retry_wait", "error"}

Steps == {"idle", "select", "open", "read", "status", "reread", "check",
          "write", "verify", "macro", "stopped"}

CommandTypes ==
  [cmd : {"disconnect", "scan", "read", "macro"}, arg : {None}]
    \cup [cmd : {"connect"}, arg : Paths]
    \cup [cmd : {"apply"}, arg : Saves]

EventTypes ==
  [kind : {"problem", "macro"}]
    \cup [kind : {"devices"}, paths : SUBSET Paths]
    \cup [kind : {"connection"}, state : States, gen : Nat,
          verdict : {"none", "confirmed", "differs"}]
    \cup [kind : {"settings"}, snap : Settings, gen : Nat,
          op : {"connect", "reconnect", "recover_save", "read", "apply"}]

WorkerTypeOK ==
  /\ place \in [Devices -> Paths \cup {None}]
  /\ stored \in [Devices -> Settings]
  /\ commands \in Seq(CommandTypes) /\ events \in Seq(EventTypes)
  /\ cancel \in BOOLEAN /\ stopping \in BOOLEAN
  /\ at \in Steps
  /\ active \in BOOLEAN /\ generation \in Nat
  /\ target \in [path : Paths \cup {None}, serial : STRING]
  /\ everReady \in BOOLEAN /\ retry \in BOOLEAN
  /\ session \in Devices \cup {None} /\ alive \in BOOLEAN
  /\ candidate \in Devices \cup {None} /\ snapshot \in Settings \cup {None}
  /\ pendingSave \in Saves \cup {None}
  /\ outcome \in {"none", "held", "replaced"}
  /\ mishaps \in Nat

WorkerInit ==
  /\ place \in {f \in [Devices -> Paths \cup {None}] :
                 \A d, e \in Devices : f[d] = f[e] => d = e \/ f[d] = None}
  /\ stored = [d \in Devices |-> [rev |-> Revisions - 1, val |-> First[d]]]
  /\ commands = <<>> /\ events = <<>>
  /\ cancel = FALSE /\ stopping = FALSE
  /\ at = "idle"
  /\ active = FALSE /\ generation = 0 /\ everReady = FALSE /\ retry = FALSE
  /\ target = [path |-> None, serial |-> NoSerial]
  /\ session = None /\ alive = FALSE /\ candidate = None /\ snapshot = None
  /\ pendingSave = None /\ outcome = "none"
  /\ mishaps = 0

-----------------------------------------------------------------------------
(* What the steps have in common.                                          *)

Cancelled == cancel \/ stopping

Emit(signals) == events' = events \o signals

Judged(state, gen, verdict) ==
  <<[kind |-> "connection", state |-> state, gen |-> gen,
     verdict |-> verdict]>>

Connection(state, gen) == Judged(state, gen, "none")

Problem == <<[kind |-> "problem"]>>

MacroAnswer == <<[kind |-> "macro"]>>

\* gen is a ghost: the signal does not say which connection it is of.
Answer(snap, op) ==
  <<[kind |-> "settings", snap |-> snap, gen |-> generation, op |-> op]>>

\* HidSession.close: the handle is given up whatever the device says.
CloseSession == session' = None /\ alive' = FALSE

\* The operation ends and the worker returns to its loop.
Return == at' = "idle" /\ candidate' = None /\ snapshot' = None

\* What no operation of the worker changes itself.
Outside == <<place, commands, cancel, stopping>>

\* Mutant: no time for the next attempt is set.
TransportFailed_NoRetry(first) ==
  /\ CloseSession
  /\ Emit(first \o IF active /\ ~Cancelled
                   THEN Connection("retry_wait", generation) ELSE <<>>)
  /\ UNCHANGED linkVars

\* _transport_failed, after the signals in first.
TransportFailed(first) ==
  /\ CloseSession
  /\ retry' = ((active /\ ~Cancelled) \/ retry)
  /\ Emit(first \o IF active /\ ~Cancelled
                   THEN Connection("retry_wait", generation) ELSE <<>>)
  /\ UNCHANGED <<active, generation, target, everReady>>

\* _fatal
Fatal ==
  /\ CloseSession
  /\ active' = FALSE /\ retry' = FALSE
  /\ Emit(Connection("error", generation))
  /\ UNCHANGED <<generation, target, everReady>>

Mishap == mishaps < MaxMishaps /\ mishaps' = mishaps + 1

\* An operation on the open handle does not come back: the device is gone, or
\* the transfer failed.
HandleFails == (~alive /\ UNCHANGED mishaps) \/ Mishap

\* The device answers something the application does not accept.
BadAnswer == alive /\ Mishap

\* Mutant: the next revision does not wrap.
Next16_Unwrapped(rev) == rev + 1

Next16(rev) == (rev + 1) % Revisions

\* Mutant: the application's next revision does not wrap.
Expected_Unwrapped(save) == [rev |-> save.rev + 1, val |-> save.val]

\* What the application expects to read after a save that took effect.
Expected(save) == [rev |-> (save.rev + 1) % Revisions, val |-> save.val]

Forget == pendingSave' = None /\ outcome' = "none"

-----------------------------------------------------------------------------
(* DeviceIdentity.select on the devices the enumeration lists.             *)

Listed == {d \in Devices : place[d] # None}

SamePath == {d \in Listed : place[d] = target.path}

SameSerial == {d \in Listed : Serial[d] = target.serial}

\* Mutant: whatever is plugged in at the path is taken.
Found_IgnoresSerial(d) ==
  (IF SamePath # {} THEN SamePath
   ELSE IF target.serial # NoSerial THEN SameSerial ELSE {}) = {d}

\* select returns d: alone at the path, or else alone with the serial number;
\* a known serial number is never contradicted.
Found(d) ==
  /\ (IF SamePath # {} THEN SamePath
      ELSE IF target.serial # NoSerial THEN SameSerial ELSE {}) = {d}
  /\ target.serial \in {NoSerial, Serial[d]}

Ambiguous == Listed # {} /\ \A d \in Listed : ~Found(d)

-----------------------------------------------------------------------------
(* _attempt                                                                *)

\* Its first lines, called by connect and by poll, in generation gen.
BeginAttempt(gen) ==
  /\ at' = "select" /\ retry' = FALSE
  /\ Emit(Connection("connecting", gen))

SelectFails ==
  /\ at = "select" /\ Return
  /\ (Listed = {} /\ UNCHANGED mishaps) \/ Mishap
  /\ TransportFailed(<<>>)
  /\ UNCHANGED <<Outside, stored, saveVars>>

SelectAmbiguous ==
  /\ at = "select" /\ Ambiguous /\ Return
  /\ Fatal
  /\ UNCHANGED <<Outside, stored, saveVars, mishaps>>

\* target.path and, once, target.serial are taken from the device.
Adopt(d) ==
  target' = [path |-> place[d],
             serial |-> IF target.serial = NoSerial THEN Serial[d]
                        ELSE target.serial]

Select ==
  \E d \in Listed :
    /\ at = "select" /\ Found(d)
    /\ IF Cancelled
       THEN Return /\ UNCHANGED target
       ELSE /\ at' = "open" /\ candidate' = d /\ Adopt(d)
            /\ UNCHANGED snapshot
    /\ UNCHANGED <<Outside, stored, events, active, generation, everReady,
                   retry, session, alive, saveVars, mishaps>>

OpenFails ==
  /\ at = "open" /\ Return
  /\ (SamePath = {} /\ UNCHANGED mishaps) \/ Mishap
  /\ TransportFailed(<<>>)
  /\ UNCHANGED <<Outside, stored, saveVars>>

\* open_path opens what is at the path now.
Open ==
  /\ at = "open" /\ SamePath # {}
  /\ IF Cancelled
     THEN CloseSession /\ Return /\ UNCHANGED events
     ELSE /\ session' \in SamePath /\ alive' = TRUE
          /\ at' = "read" /\ UNCHANGED <<candidate, snapshot>>
          /\ Emit(Connection("reading", generation))
  /\ UNCHANGED <<Outside, stored, linkVars, saveVars, mishaps>>

\* Mutant: the session is announced with the save still in doubt.
Publish_ForgetsSave(snap) ==
  /\ Return
  /\ Emit(Answer(snap, IF everReady THEN "reconnect" ELSE "connect")
            \o Connection("ready", generation))
  /\ everReady' = TRUE /\ retry' = FALSE
  /\ UNCHANGED <<active, generation, target, saveVars>>

Verdict(snap) ==
  IF pendingSave = None THEN "none"
  ELSE IF snap = Expected(pendingSave) THEN "confirmed" ELSE "differs"

\* The settings are published before READY.  A save in doubt is judged by what
\* has been read, and never repeated.
Publish(snap) ==
  /\ Return
  /\ Emit(Answer(snap, IF pendingSave # None THEN "recover_save"
                       ELSE IF everReady THEN "reconnect" ELSE "connect")
            \o Judged("ready", generation, Verdict(snap)))
  /\ everReady' = TRUE /\ retry' = FALSE
  /\ Forget
  /\ UNCHANGED <<active, generation, target>>

ReadCancelled ==
  /\ at = "read" /\ alive /\ Cancelled
  /\ CloseSession /\ Return
  /\ UNCHANGED <<Outside, stored, events, linkVars, saveVars, mishaps>>

\* The initial read.
Read ==
  /\ at = "read" /\ alive /\ ~Cancelled
  /\ IF candidate \in HasMacros
     THEN /\ at' = "status" /\ snapshot' = stored[session]
          /\ UNCHANGED <<events, linkVars, candidate, saveVars>>
     ELSE Publish(stored[session])
  /\ UNCHANGED <<Outside, stored, session, alive, mishaps>>

\* MacroProtocol.status looks at the cancellation before it sends.
Status ==
  /\ at = "status" /\ alive /\ ~Cancelled
  /\ Publish(snapshot)
  /\ UNCHANGED <<Outside, stored, session, alive, mishaps>>

AttemptFails ==
  /\ at \in {"read", "status"} /\ Return
  /\ HandleFails \/ (at = "status" /\ Cancelled /\ UNCHANGED mishaps)
  /\ TransportFailed(<<>>)
  /\ UNCHANGED <<Outside, stored, saveVars>>

AttemptMismatch ==
  /\ \/ at = "read"
     \/ at = "status" /\ ~Cancelled
  /\ BadAnswer /\ Return
  /\ Fatal
  /\ UNCHANGED <<Outside, stored, saveVars>>

Attempt ==
  \/ SelectFails \/ SelectAmbiguous \/ Select \/ OpenFails \/ Open
  \/ ReadCancelled \/ Read \/ Status \/ AttemptFails \/ AttemptMismatch

-----------------------------------------------------------------------------
(* command: one command of the window.                                     *)

\* The worker takes the next command when the loop comes round.
Take(cmd) ==
  /\ at = "idle" /\ ~stopping /\ commands # <<>>
  /\ Len(events) < MaxEvents
  /\ Head(commands).cmd = cmd
  /\ commands' = Tail(commands)
  /\ UNCHANGED <<deviceVars, cancel, stopping, mishaps>>

DoDisconnect ==
  /\ Take("disconnect") /\ Return
  /\ CloseSession
  /\ active' = FALSE /\ retry' = FALSE /\ generation' = generation + 1
  /\ Emit(Connection("disconnected", generation + 1))
  /\ UNCHANGED <<target, everReady, saveVars>>

DoConnect ==
  /\ Take("connect")
  /\ CloseSession
  /\ generation' = generation + 1 /\ active' = TRUE /\ everReady' = FALSE
  /\ target' = [path |-> Head(commands).arg, serial |-> NoSerial]
  /\ Forget
  /\ IF Cancelled
     THEN retry' = FALSE /\ UNCHANGED <<at, events>>
     ELSE BeginAttempt(generation + 1)
  /\ UNCHANGED <<candidate, snapshot>>

\* The devices listed; none if the enumeration fails.
DoScan ==
  /\ Take("scan")
  /\ \E found \in {Listed, {}} : Emit(<<[kind |-> "devices", paths |-> {place[d] : d \in found}]>>)
  /\ UNCHANGED <<at, linkVars, handleVars, saveVars>>

\* No device, or the user is leaving.
Unusable == session = None \/ Cancelled

Refuse ==
  /\ \/ Take("read") /\ Emit(Problem)
     \/ Take("apply") /\ Emit(Problem)
     \/ Take("macro") /\ Emit(MacroAnswer)
  /\ Unusable
  /\ UNCHANGED <<at, linkVars, handleVars, saveVars>>

BeginRead ==
  /\ Take("read") /\ ~Unusable
  /\ at' = "reread"
  /\ UNCHANGED <<events, linkVars, handleVars, saveVars>>

BeginMacro ==
  /\ Take("macro") /\ ~Unusable
  /\ at' = "macro"
  /\ UNCHANGED <<events, linkVars, handleVars, saveVars>>

BeginApply ==
  /\ Take("apply") /\ ~Unusable
  /\ at' = "check"
  /\ pendingSave' = Head(commands).arg /\ outcome' = "none"
  /\ UNCHANGED <<events, linkVars, handleVars>>

Command ==
  \/ DoDisconnect \/ DoConnect \/ DoScan \/ Refuse
  \/ BeginRead \/ BeginMacro \/ BeginApply

-----------------------------------------------------------------------------
(* The operations on an open session.                                      *)

PublishUnlessCancelled(snap, op) ==
  IF Cancelled THEN UNCHANGED events ELSE Emit(Answer(snap, op))

Reread ==
  /\ at = "reread" /\ alive /\ Return
  /\ PublishUnlessCancelled(stored[session], "read")
  /\ UNCHANGED <<Outside, stored, linkVars, session, alive, saveVars, mishaps>>

SameRevision == stored[session].rev = pendingSave.rev

\* save_settings reads the revision first.
SaveChecks ==
  /\ at = "check" /\ alive /\ SameRevision
  /\ at' = "write"
  /\ UNCHANGED <<Outside, stored, events, linkVars, handleVars, saveVars,
                 mishaps>>

SaveConflicts ==
  /\ at = "check" /\ alive /\ ~SameRevision
  /\ Return /\ Emit(Problem) /\ Forget
  /\ UNCHANGED <<Outside, stored, linkVars, session, alive, mishaps>>

\* Mutant: the device relies on the application's comparison.
DeviceApplies_Unchecked ==
  /\ stored' = [stored EXCEPT ![session] = [rev |-> Next16(@.rev),
                                            val |-> pendingSave.val]]
  /\ outcome' = "held"
  /\ UNCHANGED pendingSave

\* keymap_apply on the device, which compares the revision once more.
DeviceApplies ==
  /\ stored[session].rev = pendingSave.rev
  /\ stored' = [stored EXCEPT ![session] = [rev |-> Next16(@.rev),
                                            val |-> pendingSave.val]]
  /\ outcome' = "held"
  /\ UNCHANGED pendingSave

\* The device refuses or drops the report; SET_REPORT has no answer.
DeviceIgnores == UNCHANGED <<stored, saveVars>>

SaveSends ==
  /\ at = "write" /\ alive
  /\ at' = "verify"
  /\ \/ DeviceApplies /\ UNCHANGED mishaps
     \/ /\ stored[session].rev # pendingSave.rev
        /\ DeviceIgnores /\ UNCHANGED mishaps
     \/ DeviceIgnores /\ Mishap
  /\ UNCHANGED <<Outside, events, linkVars, handleVars>>

\* The transfer fails, before or after it took effect.
SendFails ==
  /\ at = "write" /\ Return
  /\ \/ DeviceIgnores /\ HandleFails
     \/ alive /\ DeviceApplies /\ Mishap
  /\ TransportFailed(<<>>)
  /\ UNCHANGED Outside

SaveVerified ==
  /\ at = "verify" /\ alive /\ stored[session] = Expected(pendingSave)
  /\ Return /\ Forget
  /\ PublishUnlessCancelled(stored[session], "apply")
  /\ UNCHANGED <<Outside, stored, linkVars, session, alive, mishaps>>

\* Whatever goes wrong after the write makes the save uncertain: the session
\* ends and pending_save waits for the next one.
SaveUnverified ==
  /\ at = "verify" /\ Return
  /\ \/ HandleFails
     \/ alive /\ stored[session] # Expected(pendingSave) /\ UNCHANGED mishaps
  /\ TransportFailed(<<>>)
  /\ UNCHANGED <<Outside, stored, saveVars>>

\* The first read of a command fails.
CommandFails ==
  /\ at \in {"reread", "check"} /\ HandleFails /\ Return
  /\ TransportFailed(<<>>)
  /\ UNCHANGED <<Outside, stored, saveVars>>

\* A ValueError of the session.  Any other exception than that and an OSError
\* would be a fault of the program itself, and is left out.
CommandMismatch ==
  /\ at \in {"reread", "check"} /\ BadAnswer /\ Return /\ Forget
  /\ IF at = "reread" THEN Fatal
     ELSE Emit(Problem) /\ UNCHANGED <<linkVars, session, alive>>
  /\ UNCHANGED <<Outside, stored>>

\* A macro command ends with a result, or with a problem that keeps the
\* session: a ValueError, or an OSError after a stop request.
MacroEnds ==
  /\ at = "macro" /\ Return
  /\ Emit(MacroAnswer)
  /\ UNCHANGED <<Outside, stored, linkVars, session, alive, saveVars, mishaps>>

\* An OSError of a macro command: first the problem, then the session ends.
MacroFails ==
  /\ at = "macro" /\ Return
  /\ HandleFails \/ (Cancelled /\ UNCHANGED mishaps)
  /\ TransportFailed(MacroAnswer)
  /\ UNCHANGED <<Outside, stored, saveVars>>

Operation ==
  \/ Reread \/ SaveChecks \/ SaveConflicts \/ SaveSends \/ SendFails
  \/ SaveVerified \/ SaveUnverified \/ CommandFails \/ CommandMismatch
  \/ MacroEnds \/ MacroFails

-----------------------------------------------------------------------------
(* poll and the end of run.                                                *)

\* The time of the next attempt has come.  The loop takes a waiting command
\* first, and the delay, a second or more, lets the window handle the signals.
PollRetries ==
  /\ at = "idle" /\ commands = <<>> /\ events = <<>>
  /\ active /\ retry /\ ~Cancelled
  /\ BeginAttempt(generation)
  /\ UNCHANGED <<Outside, stored, active, generation, target, everReady,
                 handleVars, saveVars, mishaps>>

\* read_input reports that the device is gone.
PollFails ==
  /\ at = "idle" /\ Len(events) < MaxEvents
  /\ session # None /\ ~Cancelled /\ HandleFails
  /\ Return
  /\ TransportFailed(<<>>)
  /\ UNCHANGED <<Outside, stored, saveVars>>

Poll == PollRetries \/ PollFails

RunEnds ==
  /\ at = "idle" /\ stopping
  /\ at' = "stopped" /\ CloseSession
  /\ UNCHANGED <<Outside, stored, events, linkVars, candidate, snapshot,
                 saveVars, mishaps>>

Worker == Attempt \/ Command \/ Operation \/ Poll \/ RunEnds

-----------------------------------------------------------------------------
(* The world outside the application.                                      *)

\* A device is unplugged, or plugged in at a free path; the handle it had is
\* dead.  A path is not reused between an enumeration and the open after it.
Move ==
  /\ Mishap
  /\ \E d \in Devices, p \in Paths \cup {None} :
       /\ p # place[d] /\ p \notin {place[e] : e \in Listed}
       /\ at = "open" => p = None
       /\ place' = [place EXCEPT ![d] = p]
       /\ alive' = (alive /\ session # d)
  /\ UNCHANGED <<stored, queueVars, at, linkVars, session, candidate, snapshot,
                 saveVars>>

\* Another application saves its settings onto the revision it has read.
Rival ==
  /\ Mishap
  /\ \E d \in Listed, v \in Values :
       /\ stored' = [stored EXCEPT ![d] = [rev |-> Next16(@.rev), val |-> v]]
       /\ outcome' = IF outcome = "held" /\ Serial[d] = target.serial
                     THEN "replaced" ELSE outcome
  /\ UNCHANGED <<place, queueVars, at, linkVars, handleVars, pendingSave>>

World == Move \/ Rival
=============================================================================
