-------------------------- MODULE KeyMapperProofs --------------------------
(***************************************************************************)
(* Theorems about the window and the worker of the settings application    *)
(* (KeyMapper): they agree whenever nothing is under way between them, a   *)
(* save in doubt raises no false alarm, a save of the user replaces only   *)
(* what the window showed, whatever another application saves, and no      *)
(* answer overwrites what the user has edited since asking for it, however *)
(* often the session is lost.                                              *)
(*                                                                         *)
(* The worker's thirty-odd actions are first classified by what the window *)
(* notices of them (WorkerKinds); the arguments about the two queues then  *)
(* go by those kinds.                                                      *)
(***************************************************************************)
EXTENDS KeyMapper, SequenceTheorems, TLAPS

\* What is open and known at each step of the worker.  Between commands a
\* session has no save in doubt; a session ends before the next attempt begins.
WorkerOK ==
  /\ at \in {"read", "status", "reread", "check", "write", "verify", "macro"} =>
       session # None
  /\ at \in {"select", "open", "stopped"} => session = None
  /\ at = "status" => snapshot \in Settings
  /\ at \in {"check", "write", "verify"} => pendingSave \in Saves
  /\ session # None \/ at \notin {"idle", "stopped"} => active
  /\ retry => session = None /\ at \notin {"select", "open"}
  /\ session # None /\ at \notin {"read", "status", "check", "write", "verify"} =>
       pendingSave = None

Inv == TypeOK /\ WorkerOK

-----------------------------------------------------------------------------
(* Lemmas about commands and signals.                                      *)

\* The argument of a command.
LEMMA CommandArgs ==
  ASSUME NEW c \in CommandTypes
  PROVE  /\ c.cmd \in {"disconnect", "scan", "read", "macro", "connect", "apply"}
         /\ c.cmd = "connect" => c.arg \in Paths
         /\ c.cmd = "apply" => c.arg \in Saves
  BY DEF CommandTypes

\* The window sends commands of these types.
LEMMA CommandMade ==
  /\ \A cmd \in {"disconnect", "scan", "read", "macro"} :
       [cmd |-> cmd, arg |-> None] \in CommandTypes
  /\ \A p \in Paths : [cmd |-> "connect", arg |-> p] \in CommandTypes
  /\ \A s \in Saves : [cmd |-> "apply", arg |-> s] \in CommandTypes
  BY DEF CommandTypes

\* What the window reads of a signal.
LEMMA EventFields ==
  ASSUME NEW e \in EventTypes
  PROVE  /\ e.kind = "devices" => e.paths \subseteq Paths
         /\ e.kind = "connection" => e.state \in States /\ e.gen \in Nat
         /\ e.kind = "settings" => e.snap \in Settings /\ e.gen \in Nat
  BY DEF EventTypes

\* The worker's signals are of these types.
LEMMA SignalTypes ==
  /\ <<>> \in Seq(EventTypes)
  /\ Problem \in Seq(EventTypes) /\ MacroAnswer \in Seq(EventTypes)
  /\ \A p \in SUBSET Paths :
       <<[kind |-> "devices", paths |-> p]>> \in Seq(EventTypes)
  /\ \A st \in States, gen \in Nat : Connection(st, gen) \in Seq(EventTypes)
  /\ \A st \in States, gen \in Nat, v \in {"none", "confirmed", "differs"} :
       Judged(st, gen, v) \in Seq(EventTypes)
  /\ generation \in Nat =>
       \A snap \in Settings,
          op \in {"connect", "reconnect", "recover_save", "read", "apply"} :
         Answer(snap, op) \in Seq(EventTypes)
  BY DEF EventTypes, Problem, MacroAnswer, Connection, Judged, Answer

\* Signals join the ones that wait.
LEMMA EmitType ==
  ASSUME events \in Seq(EventTypes),
         NEW signals \in Seq(EventTypes), Emit(signals)
  PROVE  events' \in Seq(EventTypes)
  BY ConcatProperties DEF Emit

\* A lost link leaves the connection's variables and the signals well typed.
LEMMA TransportFailedType ==
  ASSUME WorkerTypeOK, NEW first \in Seq(EventTypes), TransportFailed(first)
  PROVE  /\ session' = None /\ alive' = FALSE
         /\ events' \in Seq(EventTypes) /\ retry' \in BOOLEAN
         /\ UNCHANGED <<active, generation, target, everReady>>
<1>1. Connection("retry_wait", generation) \in Seq(EventTypes) /\ <<>> \in Seq(EventTypes)
  BY SignalTypes DEF WorkerTypeOK, States
<1>2. (IF active /\ ~Cancelled THEN Connection("retry_wait", generation) ELSE <<>>)
        \in Seq(EventTypes)
  BY <1>1
<1>3. first \o (IF active /\ ~Cancelled THEN Connection("retry_wait", generation) ELSE <<>>)
        \in Seq(EventTypes)
  BY <1>2, ConcatProperties
<1>4. events' \in Seq(EventTypes)
  BY <1>3, EmitType DEF TransportFailed, WorkerTypeOK
<1> QED
  BY <1>4 DEF TransportFailed, CloseSession, WorkerTypeOK

\* What the application expects after a save are settings.
LEMMA ExpectedType ==
  ASSUME NEW save \in Saves
  PROVE  Expected(save) \in Settings
<1>1. Revisions \in Nat \ {0}
  BY WorkerAssumption
<1>2. PICK r \in 0..Revisions - 1, v \in Values : save.rev = r /\ save.val = v
  BY DEF Saves
<1>3. (r + 1) % Revisions \in 0..Revisions - 1
  BY <1>1
<1> QED
  BY <1>2, <1>3 DEF Expected, Settings

\* A save that takes effect leaves settings on every device.
LEMMA NextSettings ==
  ASSUME NEW s \in [Devices -> Settings], NEW d \in Devices, NEW v \in Values
  PROVE  [s EXCEPT ![d] = [rev |-> Next16(@.rev), val |-> v]] \in [Devices -> Settings]
<1>1. Revisions \in Nat \ {0}
  BY WorkerAssumption
<1>2. PICK r \in 0..Revisions - 1 : s[d].rev = r
  BY DEF Settings
<1>3. Next16(r) \in 0..Revisions - 1
  BY <1>1 DEF Next16
<1>4. [rev |-> Next16(s[d].rev), val |-> v] \in Settings
  BY <1>2, <1>3 DEF Settings
<1> QED
  BY <1>4

-----------------------------------------------------------------------------
(* Types, and what is open and known at each step.                         *)

WorkerInv == WorkerTypeOK /\ WorkerOK

\* The worker's record of a lost link, at the end of an operation.
LEMMA FailedInv ==
  ASSUME WorkerInv, NEW first \in Seq(EventTypes), TransportFailed(first), Return,
         UNCHANGED <<Outside, saveVars>>, stored' \in [Devices -> Settings], mishaps' \in Nat
  PROVE  WorkerInv'
<1>1. /\ session' = None /\ alive' = FALSE
      /\ events' \in Seq(EventTypes) /\ retry' \in BOOLEAN
      /\ UNCHANGED <<active, generation, target, everReady>>
  BY TransportFailedType DEF WorkerInv
<1>2. WorkerTypeOK'
  BY <1>1 DEF WorkerInv, WorkerTypeOK, Return, Outside, saveVars, Steps
<1>3. WorkerOK'
  BY <1>1 DEF WorkerInv, WorkerOK, Return
<1> QED
  BY <1>2, <1>3 DEF WorkerInv

\* The end of the connection by an error.
LEMMA FatalInv ==
  ASSUME WorkerInv, Fatal, Return, UNCHANGED <<Outside, stored>>, mishaps' \in Nat,
         pendingSave' \in Saves \cup {None}, outcome' \in {"none", "held", "replaced"}
  PROVE  WorkerInv'
<1>1. Connection("error", generation) \in Seq(EventTypes)
  BY SignalTypes DEF WorkerInv, WorkerTypeOK, States
<1>2. events' \in Seq(EventTypes)
  BY <1>1, EmitType DEF Fatal, WorkerInv, WorkerTypeOK
<1>3. WorkerTypeOK'
  BY <1>2 DEF Fatal, CloseSession, WorkerInv, WorkerTypeOK, Return, Outside, Steps
<1>4. WorkerOK'
  BY DEF Fatal, CloseSession, WorkerInv, WorkerOK, Return
<1> QED
  BY <1>3, <1>4 DEF WorkerInv

\* Settings are published and the session is ready.
LEMMA PublishInv ==
  ASSUME WorkerInv, session # None, NEW snap \in Settings, Publish(snap),
         UNCHANGED <<Outside, stored, session, alive, mishaps>>
  PROVE  WorkerInv'
<1>1. generation \in Nat
  BY DEF WorkerInv, WorkerTypeOK
<1>2. /\ Answer(snap, "recover_save") \in Seq(EventTypes)
      /\ Answer(snap, "reconnect") \in Seq(EventTypes)
      /\ Answer(snap, "connect") \in Seq(EventTypes)
  BY <1>1, SignalTypes
<1>3. Verdict(snap) \in {"none", "confirmed", "differs"}
  BY DEF Verdict
<1>4. Judged("ready", generation, Verdict(snap)) \in Seq(EventTypes)
  BY <1>1, <1>3, SignalTypes DEF States
<1>5. PICK op \in {"recover_save", "reconnect", "connect"} :
        Emit(Answer(snap, op) \o Judged("ready", generation, Verdict(snap)))
  <2>1. CASE pendingSave # None
    BY <2>1 DEF Publish
  <2>2. CASE pendingSave = None /\ everReady
    BY <2>2 DEF Publish
  <2>3. CASE pendingSave = None /\ ~everReady
    BY <2>3 DEF Publish
  <2> QED
    BY <2>1, <2>2, <2>3
<1>6. Answer(snap, op) \o Judged("ready", generation, Verdict(snap)) \in Seq(EventTypes)
  BY <1>2, <1>4, ConcatProperties
<1>7. events' \in Seq(EventTypes)
  BY <1>5, <1>6, EmitType DEF WorkerInv, WorkerTypeOK
<1>8. WorkerTypeOK'
  BY <1>7 DEF Publish, Forget, WorkerInv, WorkerTypeOK, Return, Outside, Steps
<1>9. WorkerOK'
  BY DEF Publish, Forget, WorkerInv, WorkerOK, Return
<1> QED
  BY <1>8, <1>9 DEF WorkerInv

\* An attempt to connect: each step leaves what the next one needs.
LEMMA AttemptInv ==
  ASSUME WorkerInv, Attempt
  PROVE  WorkerInv'
<1>0. generation \in Nat /\ events \in Seq(EventTypes) /\ mishaps \in Nat
  BY DEF WorkerInv, WorkerTypeOK
<1>1. CASE SelectFails
  <2>1. mishaps' \in Nat /\ stored' \in [Devices -> Settings]
    BY <1>0, <1>1 DEF SelectFails, Mishap, WorkerInv, WorkerTypeOK
  <2> QED
    BY <1>1, <2>1, FailedInv, SignalTypes DEF SelectFails
<1>2. CASE SelectAmbiguous
  BY <1>0, <1>2, FatalInv DEF SelectAmbiguous, saveVars, WorkerInv, WorkerTypeOK
<1>3. CASE Select
  <2>1. PICK d \in Listed :
          /\ at = "select"
          /\ IF Cancelled THEN Return /\ UNCHANGED target
             ELSE /\ at' = "open" /\ candidate' = d /\ Adopt(d) /\ UNCHANGED snapshot
          /\ UNCHANGED <<Outside, stored, events, active, generation, everReady, retry,
                         session, alive, saveVars, mishaps>>
    BY <1>3 DEF Select
  <2>2. d \in Devices /\ place[d] \in Paths /\ Serial[d] \in STRING
    BY WorkerAssumption DEF Listed, WorkerInv, WorkerTypeOK
  <2>3. target' \in [path : Paths \cup {None}, serial : STRING]
    BY <2>1, <2>2 DEF Adopt, WorkerInv, WorkerTypeOK
  <2>4. WorkerTypeOK'
    BY <2>1, <2>2, <2>3 DEF WorkerInv, WorkerTypeOK, Return, Outside, saveVars, Steps
  <2>5. WorkerOK'
    BY <2>1 DEF WorkerInv, WorkerOK, Return, Outside, saveVars
  <2> QED
    BY <2>4, <2>5 DEF WorkerInv
<1>4. CASE OpenFails
  <2>1. mishaps' \in Nat /\ stored' \in [Devices -> Settings]
    BY <1>0, <1>4 DEF OpenFails, Mishap, WorkerInv, WorkerTypeOK
  <2> QED
    BY <1>4, <2>1, FailedInv, SignalTypes DEF OpenFails
<1>5. CASE Open
  <2>1. Connection("reading", generation) \in Seq(EventTypes)
    BY <1>0, SignalTypes DEF States
  <2>2. CASE Cancelled
    <3>1. WorkerTypeOK'
      BY <1>5, <2>2 DEF Open, WorkerInv, WorkerTypeOK, CloseSession, Return, Outside,
                        linkVars, saveVars, Steps
    <3>2. WorkerOK'
      BY <1>5, <2>2 DEF Open, WorkerInv, WorkerOK, CloseSession, Return, Outside,
                        linkVars, saveVars
    <3> QED
      BY <3>1, <3>2 DEF WorkerInv
  <2>3. CASE ~Cancelled
    <3>1. events' \in Seq(EventTypes)
      BY <1>0, <1>5, <2>1, <2>3, EmitType DEF Open
    <3>2. session' \in Devices /\ session' # None
      BY <1>5, <2>3, WorkerAssumption DEF Open, SamePath, Listed
    <3>3. WorkerTypeOK'
      BY <1>5, <2>3, <3>1, <3>2 DEF Open, WorkerInv, WorkerTypeOK, Outside, linkVars,
                                    saveVars, Steps
    <3>4. WorkerOK'
      BY <1>5, <2>3, <3>2 DEF Open, WorkerInv, WorkerOK, linkVars, saveVars
    <3> QED
      BY <3>3, <3>4 DEF WorkerInv
  <2> QED
    BY <2>2, <2>3
<1>6. CASE ReadCancelled
  <2>1. WorkerTypeOK'
    BY <1>6 DEF ReadCancelled, WorkerInv, WorkerTypeOK, CloseSession, Return, Outside,
                linkVars, saveVars, Steps
  <2>2. WorkerOK'
    BY <1>6 DEF ReadCancelled, WorkerInv, WorkerOK, CloseSession, Return, linkVars, saveVars
  <2> QED
    BY <2>1, <2>2 DEF WorkerInv
<1>7. CASE Read
  <2>1. session # None /\ stored[session] \in Settings
    BY <1>7 DEF Read, WorkerInv, WorkerTypeOK, WorkerOK
  <2>2. CASE candidate \in HasMacros
    <3>1. WorkerTypeOK'
      BY <1>7, <2>1, <2>2 DEF Read, WorkerInv, WorkerTypeOK, Outside, linkVars, saveVars, Steps
    <3>2. WorkerOK'
      BY <1>7, <2>1, <2>2 DEF Read, WorkerInv, WorkerOK, Outside, linkVars, saveVars
    <3> QED
      BY <3>1, <3>2 DEF WorkerInv
  <2>3. CASE candidate \notin HasMacros
    BY <1>7, <2>1, <2>3, PublishInv DEF Read
  <2> QED
    BY <2>2, <2>3
<1>8. CASE Status
  <2>1. session # None /\ snapshot \in Settings
    BY <1>8 DEF Status, WorkerInv, WorkerOK
  <2> QED
    BY <1>8, <2>1, PublishInv DEF Status
<1>9. CASE AttemptFails
  <2>1. mishaps' \in Nat /\ stored' \in [Devices -> Settings]
    BY <1>0, <1>9 DEF AttemptFails, HandleFails, Mishap, WorkerInv, WorkerTypeOK
  <2> QED
    BY <1>9, <2>1, FailedInv, SignalTypes DEF AttemptFails
<1>10. CASE AttemptMismatch
  BY <1>0, <1>10, FatalInv DEF AttemptMismatch, BadAnswer, Mishap, saveVars, WorkerInv, WorkerTypeOK
<1> QED
  BY <1>1, <1>2, <1>3, <1>4, <1>5, <1>6, <1>7, <1>8, <1>9, <1>10 DEF Attempt

\* Taking a command.
LEMMA TakeType ==
  ASSUME WorkerInv, NEW cmd, Take(cmd)
  PROVE  /\ at = "idle" /\ ~stopping /\ Head(commands) \in CommandTypes
         /\ Head(commands).cmd = cmd
         /\ commands' \in Seq(CommandTypes)
         /\ UNCHANGED <<place, stored, cancel, stopping, mishaps>>
  BY HeadTailProperties DEF Take, deviceVars, WorkerInv, WorkerTypeOK

\* The beginning and the short ones of the commands.
LEMMA CommandInv ==
  ASSUME WorkerInv, Command
  PROVE  WorkerInv'
<1>0. generation \in Nat /\ events \in Seq(EventTypes)
  BY DEF WorkerInv, WorkerTypeOK
<1>1. CASE DoDisconnect
  <2>1. at = "idle" /\ commands' \in Seq(CommandTypes) /\ UNCHANGED <<place, stored, cancel, stopping, mishaps>>
    BY <1>1, TakeType DEF DoDisconnect
  <2>2. Connection("disconnected", generation + 1) \in Seq(EventTypes)
    BY <1>0, SignalTypes DEF States
  <2>3. events' \in Seq(EventTypes)
    BY <1>0, <1>1, <2>2, EmitType DEF DoDisconnect
  <2>4. /\ generation' \in Nat /\ active' = FALSE /\ retry' = FALSE
        /\ session' = None /\ alive' = FALSE /\ Return
        /\ UNCHANGED <<target, everReady, saveVars>>
    BY <1>0, <1>1 DEF DoDisconnect, CloseSession
  <2>6. WorkerTypeOK'
    BY <2>1, <2>3, <2>4 DEF Return, saveVars, WorkerInv, WorkerTypeOK, Steps
  <2>5. WorkerOK'
    BY <2>4 DEF Return, saveVars, WorkerInv, WorkerOK
  <2> QED
    BY <2>6, <2>5 DEF WorkerInv
<1>2. CASE DoConnect
  <2>1. /\ at = "idle" /\ commands' \in Seq(CommandTypes)
        /\ UNCHANGED <<place, stored, cancel, stopping, mishaps>>
        /\ Head(commands) \in CommandTypes /\ Head(commands).cmd = "connect"
    BY <1>2, TakeType DEF DoConnect
  <2>2. Head(commands).arg \in Paths /\ NoSerial \in STRING
    BY <2>1, CommandArgs, WorkerAssumption
  <2>3. Connection("connecting", generation + 1) \in Seq(EventTypes)
    BY <1>0, SignalTypes DEF States
  <2>4. events' \in Seq(EventTypes) /\ retry' = FALSE /\ at' \in {"idle", "select"}
    <3>1. CASE Cancelled
      BY <1>0, <1>2, <2>1, <3>1 DEF DoConnect
    <3>2. CASE ~Cancelled
      BY <1>0, <1>2, <2>3, <3>2, EmitType DEF DoConnect, BeginAttempt
    <3> QED
      BY <3>1, <3>2
  <2>5. target' \in [path : Paths \cup {None}, serial : STRING]
    BY <1>2, <2>2 DEF DoConnect
  <2>8. /\ generation' \in Nat /\ active' = TRUE /\ everReady' = FALSE
        /\ session' = None /\ alive' = FALSE
        /\ pendingSave' = None /\ outcome' = "none"
        /\ UNCHANGED <<candidate, snapshot>>
    BY <1>0, <1>2 DEF DoConnect, CloseSession, Forget
  <2>6. WorkerTypeOK'
    BY <2>1, <2>4, <2>5, <2>8 DEF WorkerInv, WorkerTypeOK, Steps
  <2>7. WorkerOK'
    BY <2>4, <2>8 DEF WorkerInv, WorkerOK
  <2> QED
    BY <2>6, <2>7 DEF WorkerInv
<1>3. CASE DoScan
  <2>1. at = "idle" /\ commands' \in Seq(CommandTypes) /\ UNCHANGED <<place, stored, cancel, stopping, mishaps>>
    BY <1>3, TakeType DEF DoScan
  <2>2. {place[d] : d \in Listed} \in SUBSET Paths
    BY DEF Listed, WorkerInv, WorkerTypeOK
  <2>3. events' \in Seq(EventTypes)
    BY <1>0, <1>3, <2>2, SignalTypes, EmitType DEF DoScan
  <2>4. WorkerTypeOK'
    BY <1>3, <2>1, <2>3 DEF DoScan, linkVars, handleVars, saveVars, WorkerInv, WorkerTypeOK
  <2>5. WorkerOK'
    BY <1>3 DEF DoScan, linkVars, handleVars, saveVars, WorkerInv, WorkerOK
  <2> QED
    BY <2>4, <2>5 DEF WorkerInv
<1>4. CASE Refuse
  <2>1. at = "idle" /\ commands' \in Seq(CommandTypes) /\ UNCHANGED <<place, stored, cancel, stopping, mishaps>>
    BY <1>4, TakeType DEF Refuse
  <2>2. events' \in Seq(EventTypes)
    BY <1>0, <1>4, SignalTypes, EmitType DEF Refuse
  <2>3. WorkerTypeOK'
    BY <1>4, <2>1, <2>2 DEF Refuse, linkVars, handleVars, saveVars, WorkerInv, WorkerTypeOK
  <2>4. WorkerOK'
    BY <1>4 DEF Refuse, linkVars, handleVars, saveVars, WorkerInv, WorkerOK
  <2> QED
    BY <2>3, <2>4 DEF WorkerInv
<1>5. CASE BeginRead
  <2>1. at = "idle" /\ commands' \in Seq(CommandTypes) /\ UNCHANGED <<place, stored, cancel, stopping, mishaps>>
    BY <1>5, TakeType DEF BeginRead
  <2>2. WorkerTypeOK'
    BY <1>5, <2>1 DEF BeginRead, linkVars, handleVars, saveVars, WorkerInv, WorkerTypeOK, Steps
  <2>3. WorkerOK'
    BY <1>5, <2>1 DEF BeginRead, Unusable, linkVars, handleVars, saveVars, WorkerInv, WorkerOK
  <2> QED
    BY <2>2, <2>3 DEF WorkerInv
<1>6. CASE BeginMacro
  <2>1. at = "idle" /\ commands' \in Seq(CommandTypes) /\ UNCHANGED <<place, stored, cancel, stopping, mishaps>>
    BY <1>6, TakeType DEF BeginMacro
  <2>2. WorkerTypeOK'
    BY <1>6, <2>1 DEF BeginMacro, linkVars, handleVars, saveVars, WorkerInv, WorkerTypeOK, Steps
  <2>3. WorkerOK'
    BY <1>6, <2>1 DEF BeginMacro, Unusable, linkVars, handleVars, saveVars, WorkerInv, WorkerOK
  <2> QED
    BY <2>2, <2>3 DEF WorkerInv
<1>7. CASE BeginApply
  <2>1. /\ at = "idle" /\ commands' \in Seq(CommandTypes)
        /\ UNCHANGED <<place, stored, cancel, stopping, mishaps>>
        /\ Head(commands) \in CommandTypes /\ Head(commands).cmd = "apply"
    BY <1>7, TakeType DEF BeginApply
  <2>2. pendingSave' \in Saves
    BY <1>7, <2>1, CommandArgs DEF BeginApply
  <2>3. WorkerTypeOK'
    BY <1>7, <2>1, <2>2 DEF BeginApply, linkVars, handleVars, WorkerInv, WorkerTypeOK, Steps
  <2>4. WorkerOK'
    BY <1>7, <2>1, <2>2 DEF BeginApply, Unusable, linkVars, handleVars, WorkerInv, WorkerOK
  <2> QED
    BY <2>3, <2>4 DEF WorkerInv
<1> QED
  BY <1>1, <1>2, <1>3, <1>4, <1>5, <1>6, <1>7 DEF Command

\* The settings after a save that takes effect.
LEMMA AppliesType ==
  ASSUME WorkerInv, at = "write", DeviceApplies
  PROVE  /\ stored' \in [Devices -> Settings]
         /\ outcome' = "held" /\ UNCHANGED pendingSave
<1>1. session \in Devices /\ pendingSave.val \in Values
  BY DEF WorkerInv, WorkerTypeOK, WorkerOK, Saves
<1> QED
  BY <1>1, NextSettings DEF DeviceApplies, WorkerInv, WorkerTypeOK

\* Settings are shown unless the user is leaving.
LEMMA ShownType ==
  ASSUME WorkerInv, NEW snap \in Settings, NEW op \in {"read", "apply"},
         PublishUnlessCancelled(snap, op)
  PROVE  events' \in Seq(EventTypes)
<1>1. events \in Seq(EventTypes) /\ Answer(snap, op) \in Seq(EventTypes)
  BY SignalTypes DEF WorkerInv, WorkerTypeOK
<1> QED
  BY <1>1, EmitType DEF PublishUnlessCancelled

\* The operations on an open session.
LEMMA OperationInv ==
  ASSUME WorkerInv, Operation
  PROVE  WorkerInv'
<1>0. /\ events \in Seq(EventTypes) /\ mishaps \in Nat
      /\ stored \in [Devices -> Settings]
      /\ Problem \in Seq(EventTypes) /\ MacroAnswer \in Seq(EventTypes) /\ <<>> \in Seq(EventTypes)
  BY SignalTypes DEF WorkerInv, WorkerTypeOK
<1>1. CASE Reread
  <2>1. events' \in Seq(EventTypes)
    BY <1>0, <1>1, ShownType DEF Reread, WorkerInv, WorkerTypeOK, WorkerOK
  <2>2. WorkerTypeOK'
    BY <1>1, <2>1 DEF Reread, Return, Outside, linkVars, saveVars, WorkerInv, WorkerTypeOK, Steps
  <2>3. WorkerOK'
    BY <1>1 DEF Reread, Return, linkVars, saveVars, WorkerInv, WorkerOK
  <2> QED
    BY <2>2, <2>3 DEF WorkerInv
<1>2. CASE SaveChecks
  <2>1. WorkerTypeOK'
    BY <1>2 DEF SaveChecks, Outside, linkVars, handleVars, saveVars, WorkerInv, WorkerTypeOK, Steps
  <2>2. WorkerOK'
    BY <1>2 DEF SaveChecks, linkVars, handleVars, saveVars, WorkerInv, WorkerOK
  <2> QED
    BY <2>1, <2>2 DEF WorkerInv
<1>3. CASE SaveConflicts
  <2>1. events' \in Seq(EventTypes)
    BY <1>0, <1>3, EmitType DEF SaveConflicts
  <2>2. WorkerTypeOK'
    BY <1>3, <2>1 DEF SaveConflicts, Return, Forget, Outside, linkVars, WorkerInv, WorkerTypeOK, Steps
  <2>3. WorkerOK'
    BY <1>3 DEF SaveConflicts, Return, Forget, linkVars, WorkerInv, WorkerOK
  <2> QED
    BY <2>2, <2>3 DEF WorkerInv
<1>4. CASE SaveSends
  <2>1. /\ stored' \in [Devices -> Settings] /\ mishaps' \in Nat
        /\ UNCHANGED pendingSave /\ outcome' \in {"none", "held", "replaced"}
    BY <1>0, <1>4, AppliesType DEF SaveSends, DeviceIgnores, saveVars, Mishap, WorkerInv, WorkerTypeOK
  <2>2. WorkerTypeOK'
    BY <1>4, <2>1 DEF SaveSends, Outside, linkVars, handleVars, WorkerInv, WorkerTypeOK, Steps
  <2>3. WorkerOK'
    BY <1>4, <2>1 DEF SaveSends, linkVars, handleVars, WorkerInv, WorkerOK
  <2> QED
    BY <2>2, <2>3 DEF WorkerInv
<1>5. CASE SendFails
  <2>1. /\ stored' \in [Devices -> Settings] /\ mishaps' \in Nat
        /\ UNCHANGED pendingSave /\ outcome' \in {"none", "held", "replaced"}
    BY <1>0, <1>5, AppliesType DEF SendFails, DeviceIgnores, HandleFails, saveVars, Mishap,
                                   WorkerInv, WorkerTypeOK
  <2>2. /\ session' = None /\ alive' = FALSE
        /\ events' \in Seq(EventTypes) /\ retry' \in BOOLEAN
        /\ UNCHANGED <<active, generation, target, everReady>>
    BY <1>0, <1>5, TransportFailedType DEF SendFails, WorkerInv
  <2>3. WorkerTypeOK'
    BY <1>5, <2>1, <2>2 DEF SendFails, Return, Outside, WorkerInv, WorkerTypeOK, Steps
  <2>4. WorkerOK'
    BY <1>5, <2>1, <2>2 DEF SendFails, Return, WorkerInv, WorkerOK
  <2> QED
    BY <2>3, <2>4 DEF WorkerInv
<1>6. CASE SaveVerified
  <2>1. events' \in Seq(EventTypes)
    BY <1>0, <1>6, ShownType DEF SaveVerified, WorkerInv, WorkerTypeOK, WorkerOK
  <2>2. WorkerTypeOK'
    BY <1>6, <2>1 DEF SaveVerified, Return, Forget, Outside, linkVars, WorkerInv, WorkerTypeOK, Steps
  <2>3. WorkerOK'
    BY <1>6 DEF SaveVerified, Return, Forget, linkVars, WorkerInv, WorkerOK
  <2> QED
    BY <2>2, <2>3 DEF WorkerInv
<1>7. CASE SaveUnverified
  <2>1. mishaps' \in Nat /\ stored' \in [Devices -> Settings]
    BY <1>0, <1>7 DEF SaveUnverified, HandleFails, Mishap
  <2> QED
    BY <1>0, <1>7, <2>1, FailedInv DEF SaveUnverified
<1>8. CASE CommandFails
  <2>1. mishaps' \in Nat /\ stored' \in [Devices -> Settings]
    BY <1>0, <1>8 DEF CommandFails, HandleFails, Mishap
  <2> QED
    BY <1>0, <1>8, <2>1, FailedInv DEF CommandFails
<1>9. CASE CommandMismatch
  <2>1. mishaps' \in Nat
    BY <1>0, <1>9 DEF CommandMismatch, BadAnswer, Mishap
  <2>2. CASE at = "reread"
    BY <1>9, <2>1, <2>2, FatalInv DEF CommandMismatch, Forget
  <2>3. CASE at # "reread"
    <3>1. events' \in Seq(EventTypes)
      BY <1>0, <1>9, <2>3, EmitType DEF CommandMismatch
    <3>2. WorkerTypeOK'
      BY <1>9, <2>1, <2>3, <3>1 DEF CommandMismatch, Return, Forget, Outside, linkVars,
                                    WorkerInv, WorkerTypeOK, Steps
    <3>3. WorkerOK'
      BY <1>9, <2>3 DEF CommandMismatch, Return, Forget, linkVars, WorkerInv, WorkerOK
    <3> QED
      BY <3>2, <3>3 DEF WorkerInv
  <2> QED
    BY <2>2, <2>3
<1>10. CASE MacroEnds
  <2>1. events' \in Seq(EventTypes)
    BY <1>0, <1>10, EmitType DEF MacroEnds
  <2>2. WorkerTypeOK'
    BY <1>10, <2>1 DEF MacroEnds, Return, Outside, linkVars, saveVars, WorkerInv, WorkerTypeOK, Steps
  <2>3. WorkerOK'
    BY <1>10 DEF MacroEnds, Return, linkVars, saveVars, WorkerInv, WorkerOK
  <2> QED
    BY <2>2, <2>3 DEF WorkerInv
<1>11. CASE MacroFails
  <2>1. mishaps' \in Nat /\ stored' \in [Devices -> Settings]
    BY <1>0, <1>11 DEF MacroFails, HandleFails, Mishap
  <2> QED
    BY <1>0, <1>11, <2>1, FailedInv DEF MacroFails
<1> QED
  BY <1>1, <1>2, <1>3, <1>4, <1>5, <1>6, <1>7, <1>8, <1>9, <1>10, <1>11 DEF Operation

\* The polls, the end of the worker and what happens outside.
LEMMA RestInv ==
  ASSUME WorkerInv, Poll \/ RunEnds \/ World
  PROVE  WorkerInv'
<1>0. /\ generation \in Nat /\ events \in Seq(EventTypes) /\ mishaps \in Nat
      /\ stored \in [Devices -> Settings] /\ <<>> \in Seq(EventTypes)
  BY SignalTypes DEF WorkerInv, WorkerTypeOK
<1>1. CASE PollRetries
  <2>1. Connection("connecting", generation) \in Seq(EventTypes)
    BY <1>0, SignalTypes DEF States
  <2>2. events' \in Seq(EventTypes)
    BY <1>0, <1>1, <2>1, EmitType DEF PollRetries, BeginAttempt
  <2>3. WorkerTypeOK'
    BY <1>1, <2>2 DEF PollRetries, BeginAttempt, Outside, handleVars, saveVars,
                      WorkerInv, WorkerTypeOK, Steps
  <2>4. WorkerOK'
    BY <1>1 DEF PollRetries, BeginAttempt, handleVars, saveVars, WorkerInv, WorkerOK
  <2> QED
    BY <2>3, <2>4 DEF WorkerInv
<1>2. CASE PollFails
  <2>1. mishaps' \in Nat /\ stored' \in [Devices -> Settings]
    BY <1>0, <1>2 DEF PollFails, HandleFails, Mishap
  <2> QED
    BY <1>0, <1>2, <2>1, FailedInv DEF PollFails
<1>3. CASE RunEnds
  <2>1. WorkerTypeOK'
    BY <1>3 DEF RunEnds, CloseSession, Outside, linkVars, saveVars, WorkerInv, WorkerTypeOK, Steps
  <2>2. WorkerOK'
    BY <1>3 DEF RunEnds, CloseSession, linkVars, saveVars, WorkerInv, WorkerOK
  <2> QED
    BY <2>1, <2>2 DEF WorkerInv
<1>4. CASE Move
  <2>1. mishaps' \in Nat /\ place' \in [Devices -> Paths \cup {None}] /\ alive' \in BOOLEAN
    BY <1>0, <1>4 DEF Move, Mishap, WorkerInv, WorkerTypeOK
  <2>2. WorkerTypeOK'
    BY <1>4, <2>1 DEF Move, queueVars, linkVars, saveVars, WorkerInv, WorkerTypeOK
  <2>3. WorkerOK'
    BY <1>4 DEF Move, linkVars, saveVars, WorkerInv, WorkerOK
  <2> QED
    BY <2>2, <2>3 DEF WorkerInv
<1>5. CASE Rival
  <2>1. mishaps' \in Nat /\ outcome' \in {"none", "held", "replaced"}
    BY <1>0, <1>5 DEF Rival, Mishap, WorkerInv, WorkerTypeOK
  <2>2. stored' \in [Devices -> Settings]
    BY <1>0, <1>5, NextSettings DEF Rival, Listed
  <2>3. WorkerTypeOK'
    BY <1>5, <2>1, <2>2 DEF Rival, queueVars, linkVars, handleVars, WorkerInv, WorkerTypeOK
  <2>4. WorkerOK'
    BY <1>5 DEF Rival, linkVars, handleVars, WorkerInv, WorkerOK
  <2> QED
    BY <2>3, <2>4 DEF WorkerInv
<1> QED
  BY <1>1, <1>2, <1>3, <1>4, <1>5 DEF Poll, World

\* A step of the worker or of the world keeps the types and what the worker has.
LEMMA BehindInv ==
  ASSUME Inv, Worker \/ World, UNCHANGED <<windowVars, userVars>>
  PROVE  Inv'
<1>1. WorkerInv
  BY DEF Inv, TypeOK, WorkerInv
<1>2. WorkerInv'
  BY <1>1, AttemptInv, CommandInv, OperationInv, RestInv DEF Worker
<1> QED
  BY <1>2 DEF Inv, TypeOK, WorkerInv, windowVars, userVars

\* A click sends a command.
LEMMA SendType ==
  ASSUME Inv, NEW cmd, NEW arg, [cmd |-> cmd, arg |-> arg] \in CommandTypes, Send(cmd, arg)
  PROVE  /\ commands' \in Seq(CommandTypes) /\ clicks' \in 0..MaxClicks
         /\ UNCHANGED <<deviceVars, events, stopping, at, linkVars, handleVars, saveVars, mishaps>>
<1>1. MaxClicks \in Nat /\ clicks \in 0..MaxClicks /\ commands \in Seq(CommandTypes)
  BY WindowAssumption DEF Inv, TypeOK, WorkerTypeOK
<1>2. clicks < MaxClicks /\ clicks' = clicks + 1
  BY DEF Send
<1>3. clicks' \in 0..MaxClicks
  BY <1>1, <1>2
<1>4. commands' \in Seq(CommandTypes)
  BY <1>1, AppendProperties DEF Send
<1> QED
  BY <1>3, <1>4 DEF Send

\* The worker keeps what it has when only commands and cancel change.
LEMMA SentInv ==
  ASSUME Inv, commands' \in Seq(CommandTypes), cancel' \in BOOLEAN, stopping' \in BOOLEAN,
         UNCHANGED <<deviceVars, events, at, linkVars, handleVars, saveVars, mishaps>>
  PROVE  WorkerInv'
<1>1. WorkerTypeOK'
  BY DEF Inv, TypeOK, WorkerTypeOK, deviceVars, linkVars, handleVars, saveVars
<1>2. WorkerOK'
  BY DEF Inv, WorkerOK, linkVars, handleVars, saveVars
<1> QED
  BY <1>1, <1>2 DEF WorkerInv

\* A step of the user.
LEMMA UserInv ==
  ASSUME Inv, User
  PROVE  Inv'
<1>0. /\ commands \in Seq(CommandTypes) /\ cancel \in BOOLEAN /\ stopping \in BOOLEAN
      /\ clicks \in 0..MaxClicks /\ stops \in 0..MaxStops /\ MaxStops \in Nat
  BY WindowAssumption DEF Inv, TypeOK, WorkerTypeOK
<1>1. ASSUME Scan \/ ReadDevice \/ RequestMacro
      PROVE  Inv'
  <2>1. PICK cmd \in {"scan", "read", "macro"} : Request(cmd, None) /\ UNCHANGED cancel
    BY <1>1 DEF Scan, ReadDevice, RequestMacro
  <2>2. [cmd |-> cmd, arg |-> None] \in CommandTypes
    BY CommandMade
  <2>3. /\ commands' \in Seq(CommandTypes) /\ clicks' \in 0..MaxClicks
        /\ UNCHANGED <<deviceVars, events, stopping, at, linkVars, handleVars, saveVars, mishaps>>
    BY <2>1, <2>2, SendType DEF Request
  <2>4. WorkerInv'
    BY <1>0, <2>1, <2>3, SentInv
  <2> QED
    BY <1>1, <2>1, <2>3, <2>4 DEF Inv, TypeOK, WorkerInv, Request, Scan, ReadDevice, RequestMacro
<1>2. CASE Connect
  <2>1. PICK p \in paths : Request("connect", p)
    BY <1>2 DEF Connect
  <2>2. [cmd |-> "connect", arg |-> p] \in CommandTypes
    BY CommandMade DEF Inv, TypeOK
  <2>3. /\ commands' \in Seq(CommandTypes) /\ clicks' \in 0..MaxClicks
        /\ UNCHANGED <<deviceVars, events, stopping, at, linkVars, handleVars, saveVars, mishaps>>
    BY <2>1, <2>2, SendType DEF Request
  <2>4. WorkerInv'
    BY <1>0, <1>2, <2>3, SentInv DEF Connect, AllowConnect
  <2> QED
    BY <1>2, <2>1, <2>3, <2>4 DEF Inv, TypeOK, WorkerInv, Request, Connect
<1>3. CASE Disconnect
  <2>1. [cmd |-> "disconnect", arg |-> None] \in CommandTypes
    BY CommandMade
  <2>2. /\ commands' \in Seq(CommandTypes) /\ clicks' \in 0..MaxClicks
        /\ UNCHANGED <<deviceVars, events, stopping, at, linkVars, handleVars, saveVars, mishaps>>
    BY <1>3, <2>1, SendType DEF Disconnect
  <2>3. WorkerInv'
    BY <1>0, <1>3, <2>2, SentInv DEF Disconnect
  <2> QED
    BY <1>3, <2>2, <2>3 DEF Inv, TypeOK, WorkerInv, Disconnect
<1>4. CASE Apply
  <2>1. /\ Request("apply", [rev |-> revision, val |-> draft, base |-> baseline, gen |-> shown])
        /\ revision # None /\ UNCHANGED cancel
    BY <1>4 DEF Apply
  <2>2. [rev |-> revision, val |-> draft, base |-> baseline, gen |-> shown] \in Saves
    BY <2>1 DEF Inv, TypeOK, Saves
  <2>3. /\ commands' \in Seq(CommandTypes) /\ clicks' \in 0..MaxClicks
        /\ UNCHANGED <<deviceVars, events, stopping, at, linkVars, handleVars, saveVars, mishaps>>
    BY <2>1, <2>2, CommandMade, SendType DEF Request
  <2>4. WorkerInv'
    BY <1>0, <2>1, <2>3, SentInv
  <2> QED
    BY <1>4, <2>3, <2>4 DEF Inv, TypeOK, WorkerInv, Request, Apply
<1>5. CASE Edit
  BY <1>5 DEF Edit, workerVars, deviceVars, queueVars, linkVars, handleVars, saveVars,
              Inv, TypeOK, WorkerTypeOK, WorkerOK
<1>6. CASE StopMacro
  <2>1. [cmd |-> "macro", arg |-> None] \in CommandTypes
    BY CommandMade
  <2>2. /\ commands' \in Seq(CommandTypes) /\ clicks' \in 0..MaxClicks
        /\ UNCHANGED <<deviceVars, events, stopping, at, linkVars, handleVars, saveVars, mishaps>>
    BY <1>6, <2>1, SendType DEF StopMacro
  <2>3. WorkerInv'
    BY <1>0, <1>6, <2>2, SentInv DEF StopMacro
  <2>4. stops' \in 0..MaxStops
    BY <1>0, <1>6 DEF StopMacro
  <2> QED
    BY <1>6, <2>2, <2>3, <2>4 DEF Inv, TypeOK, WorkerInv, StopMacro, windowVars
<1>7. CASE Close
  <2>1. WorkerInv'
    BY <1>0, <1>7, SentInv DEF Close
  <2> QED
    BY <1>7, <2>1 DEF Inv, TypeOK, WorkerInv, Close, windowVars, userVars
<1> QED
  BY <1>1, <1>2, <1>3, <1>4, <1>5, <1>6, <1>7 DEF User

\* A signal taken by the window.
LEMMA HandleType ==
  ASSUME Inv, NEW kind, Handle(kind)
  PROVE  /\ events # <<>> /\ Head(events) \in EventTypes /\ Head(events).kind = kind
         /\ ~stopping
         /\ WorkerInv' /\ UNCHANGED userVars
<1>1. Head(events) \in EventTypes /\ events' \in Seq(EventTypes) /\ events # <<>>
  BY HeadTailProperties DEF Handle, Inv, TypeOK, WorkerTypeOK
<1>2. WorkerTypeOK'
  BY <1>1 DEF Handle, Inv, TypeOK, WorkerTypeOK, deviceVars, linkVars, handleVars, saveVars
<1>3. WorkerOK'
  BY DEF Handle, Inv, WorkerOK, linkVars, handleVars, saveVars
<1> QED
  BY <1>1, <1>2, <1>3 DEF Handle, WorkerInv

\* A signal handled by the window.
LEMMA SignalInv ==
  ASSUME Inv, Signal
  PROVE  Inv'
<1>1. CASE OnDevices
  <2>1. WorkerInv' /\ UNCHANGED userVars /\ Head(events).paths \subseteq Paths
    BY <1>1, HandleType, EventFields DEF OnDevices
  <2> QED
    BY <1>1, <2>1 DEF OnDevices, Inv, TypeOK, WorkerInv, userVars
<1>2. CASE OnConnection
  <2>1. /\ WorkerInv' /\ UNCHANGED userVars
        /\ Head(events).state \in States /\ Head(events).gen \in Nat
    BY <1>2, HandleType, EventFields DEF OnConnection
  <2>2. CASE Outdated(Head(events))
    BY <1>2, <2>1, <2>2 DEF OnConnection, windowVars, Inv, TypeOK, WorkerInv, userVars
  <2>3. CASE ~Outdated(Head(events))
    BY <1>2, <2>1, <2>3 DEF OnConnection, RevisionAfter, Inv, TypeOK, WorkerInv, userVars
  <2> QED
    BY <2>2, <2>3
<1>3. CASE OnSettings
  <2>1. WorkerInv' /\ UNCHANGED userVars /\ Head(events).snap \in Settings
    BY <1>3, HandleType, EventFields DEF OnSettings
  <2>2. Head(events).snap.rev \in 0..Revisions - 1 /\ Head(events).snap.val \in Values
    BY <2>1 DEF Settings
  <2>3. CASE leaving
    BY <1>3, <2>1, <2>3 DEF OnSettings, windowVars, Inv, TypeOK, WorkerInv, userVars
  <2>4. CASE ~leaving
    BY <1>3, <2>1, <2>2, <2>4 DEF OnSettings, Inv, TypeOK, WorkerInv, userVars
  <2> QED
    BY <2>3, <2>4
<1>4. CASE OnProblem
  <2>1. WorkerInv' /\ UNCHANGED userVars
    BY <1>4, HandleType DEF OnProblem
  <2> QED
    BY <1>4, <2>1 DEF OnProblem, Inv, TypeOK, WorkerInv, userVars
<1>5. CASE OnMacro
  <2>1. WorkerInv' /\ UNCHANGED userVars
    BY <1>5, HandleType DEF OnMacro
  <2> QED
    BY <1>5, <2>1 DEF OnMacro, Inv, TypeOK, WorkerInv, userVars
<1> QED
  BY <1>1, <1>2, <1>3, <1>4, <1>5 DEF Signal

\* The initial state.
LEMMA InitInv ==
  ASSUME Init
  PROVE  Inv
<1>1. /\ Revisions \in Nat \ {0} /\ Default \in Values /\ NoSerial \in STRING
      /\ MaxClicks \in Nat /\ MaxStops \in Nat /\ First \in [Devices -> Values]
  BY WorkerAssumption, WindowAssumption
<1>2. Revisions - 1 \in 0..Revisions - 1
  BY <1>1
<1>3. stored \in [Devices -> Settings]
  BY <1>1, <1>2 DEF Init, WorkerInit, Settings
<1>4. commands \in Seq(CommandTypes) /\ events \in Seq(EventTypes)
  BY DEF Init, WorkerInit
<1>5. WorkerTypeOK
  BY <1>1, <1>3, <1>4 DEF Init, WorkerInit, WorkerTypeOK, Steps
<1>6. WorkerOK
  BY DEF Init, WorkerInit, WorkerOK
<1>7. clicks \in 0..MaxClicks /\ stops \in 0..MaxStops
  BY <1>1 DEF Init
<1>8. state \in States /\ leaving \in BOOLEAN /\ busy \in BOOLEAN /\ hasty \in BOOLEAN /\ edited \in BOOLEAN
  BY DEF Init, States
<1>9. /\ shown \in Nat /\ revision \in 0..Revisions - 1 \cup {None}
      /\ baseline \in Values /\ draft \in Values /\ paths \subseteq Paths
  BY <1>1 DEF Init
<1> QED
  BY <1>5, <1>6, <1>7, <1>8, <1>9 DEF Inv, TypeOK

LEMMA StepInv == Inv /\ [Next]_vars => Inv'
<1> SUFFICES ASSUME Inv, [Next]_vars PROVE Inv'
  OBVIOUS
<1>1. CASE UNCHANGED vars
  BY <1>1 DEF vars, workerVars, deviceVars, queueVars, linkVars, handleVars, saveVars,
              windowVars, userVars, Inv, TypeOK, WorkerTypeOK, WorkerOK
<1> QED
  BY <1>1, UserInv, SignalInv, BehindInv DEF Next

\* Types, and what is open and known at each step of the worker.
LEMMA InvAlways == Spec => []Inv
<1>1. Init => Inv
  BY InitInv
<1> QED
  BY <1>1, StepInv, PTL DEF Spec

-----------------------------------------------------------------------------
(* The session is with the selected device.                                *)

\* No two devices are at one path; whoever is at the path that is to be opened
\* has the serial number selected.
TargetOK ==
  /\ \A d, e \in Devices : place[d] = place[e] => d = e \/ place[d] = None
  /\ at = "open" => /\ target.path # None
                    /\ \A d \in Devices : place[d] = target.path => Serial[d] = target.serial
  /\ SessionIsTarget

\* A step that selects and opens nothing and moves no device.
Settled ==
  /\ UNCHANGED <<place, target>>
  /\ session' \in {session, None}
  /\ at' # "open" \/ UNCHANGED at

LEMMA SettledKeeps ==
  ASSUME TargetOK, Settled
  PROVE  TargetOK'
  BY DEF TargetOK, Settled, SessionIsTarget

\* Most steps of the worker are of this kind.
LEMMA SettledSteps ==
  ASSUME Worker
  PROVE  Settled \/ Select \/ Open \/ DoConnect
<1>1. ASSUME SelectFails \/ SelectAmbiguous \/ OpenFails \/ ReadCancelled \/ AttemptFails \/ AttemptMismatch
      PROVE  Settled
  BY <1>1 DEF SelectFails, SelectAmbiguous, OpenFails, ReadCancelled, AttemptFails, AttemptMismatch,
              TransportFailed, Fatal, CloseSession, Return, Outside, linkVars, Settled
<1>2. ASSUME Read \/ Status
      PROVE  Settled
  BY <1>2 DEF Read, Status, Publish, Return, Outside, linkVars, Settled
<1>3. ASSUME DoDisconnect \/ DoScan \/ Refuse \/ BeginRead \/ BeginMacro \/ BeginApply
      PROVE  Settled
  BY <1>3 DEF DoDisconnect, DoScan, Refuse, BeginRead, BeginMacro, BeginApply, Take, CloseSession,
              Return, deviceVars, linkVars, handleVars, Settled
<1>4. ASSUME Operation
      PROVE  Settled
  BY <1>4 DEF Operation, Reread, SaveChecks, SaveConflicts, SaveSends, SendFails, SaveVerified,
              SaveUnverified, CommandFails, CommandMismatch, MacroEnds, MacroFails,
              TransportFailed, Fatal, CloseSession, Return, Outside, linkVars, handleVars, Settled
<1>5. ASSUME Poll \/ RunEnds
      PROVE  Settled
  BY <1>5 DEF Poll, PollRetries, PollFails, RunEnds, BeginAttempt, TransportFailed, CloseSession,
              Return, Outside, linkVars, handleVars, Settled
<1> QED
  BY <1>1, <1>2, <1>3, <1>4, <1>5 DEF Worker, Attempt, Command

LEMMA TargetStep ==
  ASSUME Inv, TargetOK, [Next]_vars
  PROVE  TargetOK'
<1>0. /\ place \in [Devices -> Paths \cup {None}] /\ Serial \in [Devices -> STRING]
      /\ target \in [path : Paths \cup {None}, serial : STRING]
      /\ None \notin Devices \cup Paths
  BY WorkerAssumption DEF Inv, TypeOK, WorkerTypeOK
<1>1. CASE User \/ Signal \/ UNCHANGED vars
  <2>1. Settled
    BY <1>1 DEF User, Scan, Connect, Disconnect, ReadDevice, Apply, Edit, RequestMacro, StopMacro,
                Close, Request, Send, Signal, OnDevices, OnConnection, OnSettings, OnProblem,
                OnMacro, Handle, vars, workerVars, deviceVars, linkVars, handleVars, Settled
  <2> QED
    BY <2>1, SettledKeeps
<1>2. CASE Select
  <2>1. PICK d \in Listed :
          /\ at = "select" /\ Found(d)
          /\ IF Cancelled THEN Return /\ UNCHANGED target
             ELSE /\ at' = "open" /\ candidate' = d /\ Adopt(d) /\ UNCHANGED snapshot
          /\ UNCHANGED <<Outside, session>>
    BY <1>2 DEF Select
  <2>2. d \in Devices /\ place[d] # None
    BY <2>1 DEF Listed
  <2>3. session = None
    BY <2>1 DEF Inv, WorkerOK
  <2>4. CASE Cancelled
    <3>1. Settled
      BY <2>1, <2>4 DEF Return, Outside, Settled
    <3> QED
      BY <3>1, SettledKeeps
  <2>5. CASE ~Cancelled
    <3>1. target'.path = place[d] /\ target'.serial = Serial[d]
      BY <2>1, <2>5 DEF Adopt, Found
    <3>2. UNCHANGED place /\ session' = None
      BY <2>1, <2>3 DEF Outside
    <3>3. \A e \in Devices : place[e] = place[d] => e = d
      BY <2>2 DEF TargetOK
    <3> QED
      BY <2>2, <3>1, <3>2, <3>3 DEF TargetOK, SessionIsTarget
  <2> QED
    BY <2>4, <2>5
<1>3. CASE Open
  <2>1. CASE Cancelled
    <3>1. Settled
      BY <1>3, <2>1 DEF Open, CloseSession, Return, Outside, linkVars, Settled
    <3> QED
      BY <3>1, SettledKeeps
  <2>2. CASE ~Cancelled
    <3>1. at = "open" /\ at' = "read" /\ UNCHANGED <<place, target>>
      BY <1>3, <2>2 DEF Open, Outside, linkVars
    <3>2. session' \in Devices /\ place[session'] = target.path
      BY <1>3, <2>2 DEF Open, SamePath, Listed
    <3> QED
      BY <3>1, <3>2 DEF TargetOK, SessionIsTarget
  <2> QED
    BY <2>1, <2>2
<1>4. CASE DoConnect
  <2>1. UNCHANGED place /\ session' = None /\ at' # "open"
    BY <1>4 DEF DoConnect, Take, deviceVars, CloseSession, BeginAttempt
  <2> QED
    BY <2>1 DEF TargetOK, SessionIsTarget
<1>5. CASE Move
  <2>1. PICK d \in Devices, p \in Paths \cup {None} :
          /\ p # place[d] /\ p \notin {place[e] : e \in Listed}
          /\ at = "open" => p = None
          /\ place' = [place EXCEPT ![d] = p]
    BY <1>5 DEF Move
  <2>2. UNCHANGED <<at, target, session>>
    BY <1>5 DEF Move, linkVars
  <2>3. \A e \in Devices : place'[e] = IF e = d THEN p ELSE place[e]
    BY <1>0, <2>1
  <2>4. \A e \in Devices : place[e] = p => p = None
    BY <2>1 DEF Listed
  <2>5. \A e, f \in Devices : place'[e] = place'[f] => e = f \/ place'[e] = None
    BY <2>3, <2>4 DEF TargetOK
  <2>6. at = "open" => \A e \in Devices : place'[e] = target.path => Serial[e] = target.serial
    BY <2>1, <2>3 DEF TargetOK
  <2> QED
    BY <2>2, <2>5, <2>6 DEF TargetOK, SessionIsTarget
<1>6. CASE Rival
  <2>1. Settled
    BY <1>6 DEF Rival, linkVars, handleVars, Settled
  <2> QED
    BY <2>1, SettledKeeps
<1> QED
  BY <1>1, <1>2, <1>3, <1>4, <1>5, <1>6, SettledSteps, SettledKeeps DEF Next, World

LEMMA TargetAlways == Spec => []TargetOK
<1>1. Init => TargetOK
  BY DEF Init, WorkerInit, TargetOK, SessionIsTarget
<1>2. Inv /\ TargetOK /\ [Next]_vars => TargetOK'
  BY TargetStep
<1> QED
  BY <1>1, <1>2, InvAlways, PTL DEF Spec

-----------------------------------------------------------------------------
(* The kinds of steps the worker takes, as the window sees them.           *)

Says(e) == events' = Append(events, e)

SaysBoth(d, e) == events' = Append(Append(events, d), e)

Plain(e, st, gen) ==
  e \in EventTypes /\ e.kind = "connection" /\ e.state = st /\ e.gen = gen /\ e.verdict = "none"

\* An answer that is no change of the connection.
Reply(e) ==
  /\ e \in EventTypes /\ e.kind \in {"devices", "settings", "problem", "macro"}
  /\ e.kind = "settings" => e.gen = generation

Bare(e) == Reply(e) /\ e.kind # "settings"

IsMacro(e) == e \in EventTypes /\ e.kind = "macro"

\* The settings an attempt has read.
ReadNow == IF at = "read" THEN stored[session] ELSE snapshot

\* The steps that serve a read or a save.
Serves == {"reread", "check", "write", "verify"}

Ends == at \notin {"idle", "stopped"} /\ at' = "idle" /\ UNCHANGED <<commands, generation>>

\* The link is lost while the user wants it, or is not.
LostStep ==
  /\ at' = "idle" /\ UNCHANGED <<commands, generation>> /\ session' = None /\ active' /\ ~Cancelled
  /\ at # "idle" \/ session # None
  /\ \E e : /\ Plain(e, "retry_wait", generation)
            /\ Says(e) \/ (at = "macro" /\ \E d : IsMacro(d) /\ SaysBoth(d, e))

GivenUpStep ==
  /\ Ends /\ session' = None /\ Cancelled /\ active'
  /\ UNCHANGED events \/ \E e : IsMacro(e) /\ Says(e)

FatalStep ==
  /\ Ends /\ session' = None /\ ~active'
  /\ \E e : Plain(e, "error", generation) /\ Says(e)

InnerStep ==
  /\ at \notin {"idle", "stopped"} /\ at' \notin {"idle", "stopped"}
  /\ at \in {"read", "status"} <=> at' \in {"read", "status"}
  /\ at \in Serves <=> at' \in Serves
  /\ "macro" \notin {at, at'}
  /\ UNCHANGED <<commands, generation, session, active, events>>

OpenStep ==
  /\ at = "open" /\ at' = "read" /\ session' # None
  /\ UNCHANGED <<commands, generation, active>>
  /\ \E e : Plain(e, "reading", generation) /\ Says(e)

ReadyStep ==
  /\ Ends /\ at \in {"read", "status"} /\ session # None /\ UNCHANGED <<session, active>>
  /\ ReadNow \in Settings /\ UNCHANGED stored
  /\ \E d, e : /\ d \in EventTypes /\ d.kind = "settings" /\ d.gen = generation /\ d.snap = ReadNow
               /\ d.op \in {"connect", "reconnect", "recover_save"}
               /\ e \in EventTypes /\ e.kind = "connection" /\ e.state = "ready"
               /\ e.gen = generation /\ e.verdict = Verdict(ReadNow)
               /\ SaysBoth(d, e)

AnswerStep ==
  /\ Ends /\ at \notin {"select", "open", "read", "status"}
  /\ session # None /\ UNCHANGED <<session, active>>
  /\ \/ Cancelled /\ UNCHANGED events
     \/ \E e : /\ Reply(e) /\ e.kind # "devices" /\ Says(e)
               /\ e.kind = "settings" => /\ e.snap = stored[session] /\ at \in Serves
                                         /\ e.op \in {"read", "apply"}

Taken(cmds) ==
  /\ at = "idle" /\ ~stopping /\ commands # <<>>
  /\ Head(commands).cmd \in cmds /\ commands' = Tail(commands)

DisconnectStep ==
  /\ Taken({"disconnect"}) /\ at' = "idle" /\ session' = None /\ ~active'
  /\ generation' = generation + 1
  /\ \E e : Plain(e, "disconnected", generation + 1) /\ Says(e)

ConnectStep ==
  /\ Taken({"connect"}) /\ session' = None /\ active' /\ generation' = generation + 1
  /\ \/ Cancelled /\ at' = "idle" /\ UNCHANGED events
     \/ ~Cancelled /\ at' = "select" /\ \E e : Plain(e, "connecting", generation + 1) /\ Says(e)

ReplyStep ==
  /\ Taken({"scan", "read", "macro", "apply"}) /\ at' = "idle"
  /\ UNCHANGED <<session, active, generation>>
  /\ \E e : Bare(e) /\ Says(e) /\ (e.kind = "devices" <=> Head(commands).cmd = "scan")

BeginStep ==
  /\ Taken({"read", "macro", "apply"}) /\ at' \in {"reread", "macro", "check"}
  /\ at' = "macro" <=> Head(commands).cmd = "macro"
  /\ session # None /\ ~Cancelled
  /\ UNCHANGED <<session, active, generation, events>>

RetryStep ==
  /\ at = "idle" /\ at' = "select" /\ commands = <<>> /\ events = <<>> /\ session = None /\ ~Cancelled
  /\ active /\ UNCHANGED <<commands, generation, session, active>>
  /\ \E e : Plain(e, "connecting", generation) /\ Says(e)

StoppedStep ==
  /\ stopping /\ at' = "stopped" /\ session' = None
  /\ UNCHANGED <<commands, generation, events>>

\* A signal, or two, join the queue.
LEMMA EmitSays ==
  ASSUME events \in Seq(EventTypes)
  PROVE  /\ \A e \in EventTypes : Emit(<<e>>) => Says(e)
         /\ \A d, e \in EventTypes : Emit(<<d>> \o <<e>>) => SaysBoth(d, e)
         /\ Emit(<<>>) => UNCHANGED events
<1>1. ASSUME NEW e \in EventTypes, Emit(<<e>>)
      PROVE  Says(e)
  BY <1>1, AppendIsConcat DEF Emit, Says
<1>2. ASSUME NEW d \in EventTypes, NEW e \in EventTypes, Emit(<<d>> \o <<e>>)
      PROVE  SaysBoth(d, e)
  <2>1. events \o <<d>> = Append(events, d)
    BY AppendIsConcat
  <2>2. Append(events, d) \in Seq(EventTypes) /\ <<d>> \in Seq(EventTypes) /\ <<e>> \in Seq(EventTypes)
    BY AppendProperties
  <2>3. Append(events, d) \o <<e>> = Append(Append(events, d), e)
    BY <2>2, AppendIsConcat
  <2>4. events \o (<<d>> \o <<e>>) = (events \o <<d>>) \o <<e>>
    BY <2>2, ConcatAssociative
  <2> QED
    BY <1>2, <2>1, <2>3, <2>4 DEF Emit, SaysBoth
<1>3. Emit(<<>>) => UNCHANGED events
  BY ConcatEmptySeq DEF Emit
<1> QED
  BY <1>1, <1>2, <1>3

\* The signals by what the window reads of them.
LEMMA SignalFields ==
  ASSUME generation \in Nat
  PROVE  /\ \A st \in States, gen \in Nat :
              \E e : Plain(e, st, gen) /\ Connection(st, gen) = <<e>>
         /\ \E e : Bare(e) /\ e.kind = "problem" /\ Problem = <<e>>
         /\ \E e : IsMacro(e) /\ Bare(e) /\ MacroAnswer = <<e>>
<1>1. ASSUME NEW st \in States, NEW gen \in Nat
      PROVE  \E e : Plain(e, st, gen) /\ Connection(st, gen) = <<e>>
  <2> DEFINE e == [kind |-> "connection", state |-> st, gen |-> gen, verdict |-> "none"]
  <2>1. Plain(e, st, gen)
    BY DEF Plain, EventTypes
  <2>2. Connection(st, gen) = <<e>>
    BY DEF Connection, Judged
  <2> QED
    BY <2>1, <2>2
<1>2. [kind |-> "problem"] \in EventTypes /\ [kind |-> "macro"] \in EventTypes
  BY DEF EventTypes
<1>3. Bare([kind |-> "problem"]) /\ Bare([kind |-> "macro"]) /\ IsMacro([kind |-> "macro"])
  BY <1>2 DEF Bare, Reply, IsMacro
<1> QED
  BY <1>1, <1>3 DEF Problem, MacroAnswer

\* Settings on their way to the window.
LEMMA AnswerFields ==
  ASSUME generation \in Nat, NEW snap \in Settings,
         NEW op \in {"connect", "reconnect", "recover_save", "read", "apply"}
  PROVE  \E e : /\ e \in EventTypes /\ e.kind = "settings" /\ e.gen = generation /\ e.snap = snap
                /\ e.op = op /\ Reply(e) /\ Answer(snap, op) = <<e>>
<1> DEFINE e == [kind |-> "settings", snap |-> snap, gen |-> generation, op |-> op]
<1>1. e \in EventTypes
  BY DEF EventTypes
<1>2. /\ e.kind = "settings" /\ e.gen = generation /\ e.snap = snap /\ e.op = op
      /\ Answer(snap, op) = <<e>>
  BY DEF Answer
<1> QED
  BY <1>1, <1>2 DEF Reply

\* A lost link, as the window sees it.
LEMMA FailedKind ==
  ASSUME Inv, active, at' = "idle", UNCHANGED <<commands, cancel, stopping>>,
         NEW first \in {<<>>, MacroAnswer}, TransportFailed(first),
         at \notin {"idle", "stopped"} \/ (session # None /\ ~Cancelled),
         first = <<>> \/ at = "macro"
  PROVE  LostStep \/ GivenUpStep
<1>0. events \in Seq(EventTypes) /\ generation \in Nat
  BY DEF Inv, TypeOK, WorkerTypeOK
<1>1. PICK m : IsMacro(m) /\ MacroAnswer = <<m>>
  BY <1>0, SignalFields
<1>2. PICK e : Plain(e, "retry_wait", generation) /\ Connection("retry_wait", generation) = <<e>>
  BY <1>0, SignalFields DEF States
<1>3. UNCHANGED <<active, generation>> /\ session' = None
  BY DEF TransportFailed, CloseSession
<1>4. m \in EventTypes /\ e \in EventTypes
  BY <1>1, <1>2 DEF IsMacro, Plain
<1>5. <<>> \o <<e>> = <<e>> /\ <<>> \o <<>> = <<>> /\ <<m>> \o <<>> = <<m>>
  BY <1>4, ConcatEmptySeq
<1>6. CASE ~Cancelled
  <2>1. Emit(first \o <<e>>)
    BY <1>2, <1>6 DEF TransportFailed
  <2>2. Says(e) \/ (at = "macro" /\ SaysBoth(m, e))
    BY <1>0, <1>1, <1>4, <1>5, <2>1, EmitSays
  <2>3. at # "idle" \/ session # None
    OBVIOUS
  <2> QED
    BY <1>1, <1>2, <1>3, <1>6, <2>2, <2>3 DEF LostStep
<1>7. CASE Cancelled
  <2>1. Emit(first \o <<>>)
    BY <1>7 DEF TransportFailed
  <2>2. UNCHANGED events \/ Says(m)
    BY <1>0, <1>1, <1>4, <1>5, <2>1, EmitSays
  <2> QED
    BY <1>1, <1>3, <1>7, <2>2 DEF GivenUpStep, Ends
<1> QED
  BY <1>6, <1>7

\* An error, as the window sees it.
LEMMA FatalKind ==
  ASSUME Inv, at \notin {"idle", "stopped"}, at' = "idle", UNCHANGED commands, Fatal
  PROVE  FatalStep
<1>0. events \in Seq(EventTypes) /\ generation \in Nat
  BY DEF Inv, TypeOK, WorkerTypeOK
<1>1. PICK e : Plain(e, "error", generation) /\ Connection("error", generation) = <<e>>
  BY <1>0, SignalFields DEF States
<1>2. Says(e)
  BY <1>0, <1>1, EmitSays DEF Fatal, Plain
<1> QED
  BY <1>1, <1>2 DEF Fatal, CloseSession, FatalStep, Ends

\* A session that becomes ready, as the window sees it.
LEMMA ReadyKind ==
  ASSUME Inv, at \in {"read", "status"}, UNCHANGED <<commands, session>>,
         NEW snap \in Settings, Publish(snap)
  PROVE  \E d, e : /\ d \in EventTypes /\ d.kind = "settings" /\ d.gen = generation /\ d.snap = snap
                   /\ d.op \in {"connect", "reconnect", "recover_save"}
                   /\ e \in EventTypes /\ e.kind = "connection" /\ e.state = "ready"
                   /\ e.gen = generation /\ e.verdict = Verdict(snap)
                   /\ SaysBoth(d, e)
<1>0. events \in Seq(EventTypes) /\ generation \in Nat
  BY DEF Inv, TypeOK, WorkerTypeOK
<1>1. PICK op \in {"recover_save", "reconnect", "connect"} :
        Emit(Answer(snap, op) \o Judged("ready", generation, Verdict(snap)))
  <2>1. CASE pendingSave # None
    BY <2>1 DEF Publish
  <2>2. CASE pendingSave = None /\ everReady
    BY <2>2 DEF Publish
  <2>3. CASE pendingSave = None /\ ~everReady
    BY <2>3 DEF Publish
  <2> QED
    BY <2>1, <2>2, <2>3
<1>2. PICK d : /\ d \in EventTypes /\ d.kind = "settings" /\ d.gen = generation /\ d.snap = snap
               /\ d.op = op /\ Answer(snap, op) = <<d>>
  BY <1>0, AnswerFields
<1> DEFINE e == [kind |-> "connection", state |-> "ready", gen |-> generation,
                 verdict |-> Verdict(snap)]
<1>3. Judged("ready", generation, Verdict(snap)) = <<e>>
  BY DEF Judged
<1>4. Verdict(snap) \in {"none", "confirmed", "differs"}
  BY DEF Verdict
<1>5. e \in EventTypes
  BY <1>0, <1>4 DEF EventTypes, States
<1>6. e.kind = "connection" /\ e.state = "ready" /\ e.gen = generation /\ e.verdict = Verdict(snap)
  OBVIOUS
<1> HIDE DEF e
<1>7. SaysBoth(d, e)
  BY <1>0, <1>1, <1>2, <1>3, <1>5, EmitSays
<1> QED
  BY <1>2, <1>5, <1>6, <1>7

\* Every step of an attempt is of one of the kinds.
LEMMA AttemptKinds ==
  ASSUME Inv, Attempt
  PROVE  LostStep \/ GivenUpStep \/ FatalStep \/ InnerStep \/ OpenStep \/ ReadyStep
<1>0. events \in Seq(EventTypes) /\ generation \in Nat
  BY DEF Inv, TypeOK, WorkerTypeOK
<1>1. ASSUME SelectFails \/ OpenFails \/ AttemptFails
      PROVE  LostStep \/ GivenUpStep
  <2>1. at \in {"select", "open", "read", "status"} /\ Return /\ TransportFailed(<<>>)
        /\ UNCHANGED <<commands, cancel, stopping>>
    BY <1>1 DEF SelectFails, OpenFails, AttemptFails, Outside
  <2>2. active /\ at' = "idle"
    BY <2>1 DEF Return, Inv, WorkerOK
  <2> QED
    BY <2>1, <2>2, FailedKind
<1>2. ASSUME SelectAmbiguous \/ AttemptMismatch
      PROVE  FatalStep
  <2>1. at \notin {"idle", "stopped"} /\ at' = "idle" /\ UNCHANGED commands /\ Fatal
    BY <1>2 DEF SelectAmbiguous, AttemptMismatch, Return, Outside
  <2> QED
    BY <2>1, FatalKind
<1>3. ASSUME Select
      PROVE  GivenUpStep \/ InnerStep
  <2>1. session = None /\ at = "select" /\ active
    BY <1>3 DEF Select, Inv, WorkerOK
  <2> QED
    BY <1>3, <2>1 DEF Select, GivenUpStep, InnerStep, Serves, Ends, Return, Outside
<1>4. ASSUME Open
      PROVE  GivenUpStep \/ OpenStep
  <2>1. active
    BY <1>4 DEF Open, Inv, WorkerOK
  <2>2. CASE Cancelled
    BY <1>4, <2>1, <2>2 DEF Open, GivenUpStep, Ends, Return, Outside, CloseSession, linkVars
  <2>3. CASE ~Cancelled
    <3>1. PICK e : Plain(e, "reading", generation) /\ Connection("reading", generation) = <<e>>
      BY <1>0, SignalFields DEF States
    <3>2. Says(e)
      BY <1>0, <1>4, <2>3, <3>1, EmitSays DEF Open, Plain
    <3>3. session' # None
      BY <1>4, <2>3, WorkerAssumption DEF Open, SamePath, Listed
    <3> QED
      BY <1>4, <2>3, <3>1, <3>2, <3>3 DEF Open, OpenStep, Outside, linkVars
  <2> QED
    BY <2>2, <2>3
<1>5. ASSUME ReadCancelled
      PROVE  GivenUpStep
  <2>1. active
    BY <1>5 DEF ReadCancelled, Inv, WorkerOK
  <2> QED
    BY <1>5, <2>1 DEF ReadCancelled, GivenUpStep, Ends, Return, Outside, CloseSession, linkVars
<1>6. ASSUME Read \/ Status
      PROVE  InnerStep \/ ReadyStep
  <2>1. at \in {"read", "status"} /\ session # None /\ UNCHANGED <<commands, session>>
    BY <1>6 DEF Read, Status, Outside, Inv, WorkerOK
  <2>2. CASE at' = "status"
    <3>1. Read /\ candidate \in HasMacros
      BY <1>6, <2>2 DEF Read, Status, Publish, Return
    <3> QED
      BY <2>1, <2>2, <3>1 DEF Read, InnerStep, Serves, Outside, linkVars
  <2>3. CASE at' # "status"
    <3>1. ReadNow \in Settings /\ Publish(ReadNow)
      <4>1. stored[session] \in Settings /\ (at = "status" => snapshot \in Settings)
        BY <2>1 DEF Inv, TypeOK, WorkerTypeOK, WorkerOK
      <4> QED
        BY <1>6, <2>3, <4>1 DEF Read, Status, ReadNow
    <3>2. Ends /\ UNCHANGED <<active, stored>>
      BY <1>6, <2>1, <3>1 DEF Read, Status, Publish, Return, Ends
    <3> QED
      BY <2>1, <3>1, <3>2, ReadyKind DEF ReadyStep
  <2> QED
    BY <2>2, <2>3
<1> QED
  BY <1>1, <1>2, <1>3, <1>4, <1>5, <1>6 DEF Attempt

\* Every command is of one of the kinds.
LEMMA CommandKinds ==
  ASSUME Inv, Command
  PROVE  DisconnectStep \/ ConnectStep \/ ReplyStep \/ BeginStep
<1>0. events \in Seq(EventTypes) /\ generation \in Nat /\ place \in [Devices -> Paths \cup {None}]
  BY DEF Inv, TypeOK, WorkerTypeOK
<1>1. \A cmd : Take(cmd) => Taken({cmd})
  BY DEF Take, Taken
<1>2. CASE DoDisconnect
  <2>1. PICK e : /\ Plain(e, "disconnected", generation + 1)
                 /\ Connection("disconnected", generation + 1) = <<e>>
    BY <1>0, SignalFields DEF States
  <2>2. Says(e)
    BY <1>0, <1>2, <2>1, EmitSays DEF DoDisconnect, Plain
  <2> QED
    BY <1>1, <1>2, <2>1, <2>2 DEF DoDisconnect, DisconnectStep, CloseSession, Return
<1>3. CASE DoConnect
  <2>1. Taken({"connect"}) /\ session' = None /\ active' /\ generation' = generation + 1
    BY <1>1, <1>3 DEF DoConnect, CloseSession
  <2>2. CASE Cancelled
    BY <1>3, <2>1, <2>2 DEF DoConnect, ConnectStep, Taken
  <2>3. CASE ~Cancelled
    <3>1. PICK e : /\ Plain(e, "connecting", generation + 1)
                   /\ Connection("connecting", generation + 1) = <<e>>
      BY <1>0, SignalFields DEF States
    <3>2. Says(e) /\ at' = "select"
      BY <1>0, <1>3, <2>3, <3>1, EmitSays DEF DoConnect, BeginAttempt, Plain
    <3> QED
      BY <2>1, <2>3, <3>1, <3>2 DEF ConnectStep
  <2> QED
    BY <2>2, <2>3
<1>4. CASE DoScan
  <2>0. PICK found \in {Listed, {}} :
          Emit(<<[kind |-> "devices", paths |-> {place[d] : d \in found}]>>)
    BY <1>4 DEF DoScan
  <2> DEFINE e == [kind |-> "devices", paths |-> {place[d] : d \in found}]
  <2>1. e \in EventTypes
    BY <1>0, <2>0 DEF EventTypes, Listed
  <2>2. e.kind = "devices" /\ Emit(<<e>>)
    BY <2>0
  <2> HIDE DEF e
  <2>3. Says(e) /\ Bare(e)
    BY <1>0, <2>1, <2>2, EmitSays DEF Bare, Reply
  <2> QED
    BY <1>1, <1>4, <2>2, <2>3 DEF DoScan, ReplyStep, Taken, linkVars, handleVars
<1>5. CASE Refuse
  <2>1. PICK e : Bare(e) /\ e.kind # "devices" /\ Emit(<<e>>)
    BY <1>0, <1>5, SignalFields DEF Refuse, IsMacro
  <2>2. Says(e)
    BY <1>0, <2>1, EmitSays DEF Bare, Reply
  <2>3. Taken({"scan", "read", "macro", "apply"}) /\ Head(commands).cmd # "scan"
    BY <1>5 DEF Refuse, Take, Taken
  <2> QED
    BY <1>5, <2>1, <2>2, <2>3 DEF Refuse, ReplyStep, Taken, linkVars, handleVars
<1>6. ASSUME BeginRead \/ BeginMacro \/ BeginApply
      PROVE  BeginStep
  <2>1. Taken({"read", "macro", "apply"}) /\ (at' = "macro" <=> Head(commands).cmd = "macro")
    BY <1>6 DEF BeginRead, BeginMacro, BeginApply, Take, Taken
  <2> QED
    BY <1>6, <2>1 DEF BeginRead, BeginMacro, BeginApply, BeginStep, Unusable, linkVars, handleVars
<1> QED
  BY <1>2, <1>3, <1>4, <1>5, <1>6 DEF Command

\* The answer of an operation, unless the user is leaving.
LEMMA ShownKind ==
  ASSUME Inv, NEW snap \in Settings, NEW op \in {"read", "apply"}, PublishUnlessCancelled(snap, op)
  PROVE  \/ Cancelled /\ UNCHANGED events
         \/ \E e : Reply(e) /\ e.kind = "settings" /\ e.snap = snap /\ e.op = op /\ Says(e)
<1>0. events \in Seq(EventTypes) /\ generation \in Nat
  BY DEF Inv, TypeOK, WorkerTypeOK
<1>1. PICK e : /\ e \in EventTypes /\ e.kind = "settings" /\ e.snap = snap /\ e.op = op
               /\ Reply(e) /\ Answer(snap, op) = <<e>>
  BY <1>0, AnswerFields
<1> QED
  BY <1>0, <1>1, EmitSays DEF PublishUnlessCancelled

\* Every step of an operation is of one of the kinds.
LEMMA OperationKinds ==
  ASSUME Inv, Operation
  PROVE  LostStep \/ GivenUpStep \/ FatalStep \/ InnerStep \/ AnswerStep
<1>0. /\ events \in Seq(EventTypes) /\ generation \in Nat /\ stored \in [Devices -> Settings]
      /\ session \in Devices \cup {None}
  BY DEF Inv, TypeOK, WorkerTypeOK
<1>1. at \in {"reread", "check", "write", "verify", "macro"} /\ UNCHANGED <<commands, cancel, stopping>>
  BY DEF Operation, Reread, SaveChecks, SaveConflicts, SaveSends, SendFails, SaveVerified,
         SaveUnverified, CommandFails, CommandMismatch, MacroEnds, MacroFails, Outside
<1>2. session # None /\ active /\ at \notin {"idle", "stopped", "select", "open", "read", "status"}
  BY <1>1 DEF Inv, WorkerOK
<1>3. ASSUME SendFails \/ SaveUnverified \/ CommandFails \/ MacroFails
      PROVE  LostStep \/ GivenUpStep
  <2>1. /\ at' = "idle"
        /\ TransportFailed(<<>>) \/ (at = "macro" /\ TransportFailed(MacroAnswer))
    BY <1>3 DEF SendFails, SaveUnverified, CommandFails, MacroFails, Return
  <2>2. MacroAnswer \in {<<>>, MacroAnswer} /\ <<>> \in {<<>>, MacroAnswer}
    OBVIOUS
  <2> QED
    BY <1>1, <1>2, <2>1, <2>2, FailedKind
<1>4. ASSUME Reread \/ SaveVerified
      PROVE  AnswerStep
  <2>1. Ends /\ UNCHANGED <<session, active>>
    BY <1>1, <1>2, <1>4 DEF Reread, SaveVerified, Return, linkVars, Ends
  <2>2. PublishUnlessCancelled(stored[session], "read") \/ PublishUnlessCancelled(stored[session], "apply")
    BY <1>4 DEF Reread, SaveVerified
  <2>3. stored[session] \in Settings
    BY <1>0, <1>2
  <2>4. at \in Serves
    BY <1>4 DEF Reread, SaveVerified, Serves
  <2> QED
    BY <1>2, <2>1, <2>2, <2>3, <2>4, ShownKind DEF AnswerStep
<1>5. ASSUME SaveChecks \/ SaveSends
      PROVE  InnerStep
  BY <1>1, <1>2, <1>5 DEF SaveChecks, SaveSends, linkVars, handleVars, InnerStep, Serves
<1>6. ASSUME SaveConflicts \/ MacroEnds
      PROVE  AnswerStep
  <2>1. Ends /\ UNCHANGED <<session, active>>
    BY <1>1, <1>2, <1>6 DEF SaveConflicts, MacroEnds, Return, linkVars, Ends
  <2>2. PICK e : Bare(e) /\ e.kind # "devices" /\ Emit(<<e>>)
    BY <1>0, <1>6, SignalFields DEF SaveConflicts, MacroEnds, IsMacro
  <2>3. Says(e)
    BY <1>0, <2>2, EmitSays DEF Bare, Reply
  <2> QED
    BY <1>2, <2>1, <2>2, <2>3 DEF AnswerStep, Bare
<1>7. ASSUME CommandMismatch
      PROVE  FatalStep \/ AnswerStep
  <2>1. CASE at = "reread"
    BY <1>1, <1>2, <1>7, <2>1, FatalKind DEF CommandMismatch, Return
  <2>2. CASE at # "reread"
    <3>1. Ends /\ UNCHANGED <<session, active>>
      BY <1>1, <1>2, <1>7, <2>2 DEF CommandMismatch, Return, linkVars, Ends
    <3>2. PICK e : Bare(e) /\ e.kind # "devices" /\ Emit(<<e>>)
      BY <1>0, <1>7, <2>2, SignalFields DEF CommandMismatch
    <3>3. Says(e)
      BY <1>0, <3>2, EmitSays DEF Bare, Reply
    <3> QED
      BY <1>2, <3>1, <3>2, <3>3 DEF AnswerStep, Bare
  <2> QED
    BY <2>1, <2>2
<1> QED
  BY <1>3, <1>4, <1>5, <1>6, <1>7 DEF Operation

\* Every step of the worker is of one of the kinds.
LEMMA WorkerKinds ==
  ASSUME Inv, Worker
  PROVE  /\ UNCHANGED <<cancel, stopping>>
         /\ \/ LostStep \/ GivenUpStep \/ FatalStep \/ InnerStep \/ OpenStep \/ ReadyStep
            \/ AnswerStep \/ DisconnectStep \/ ConnectStep \/ ReplyStep \/ BeginStep
            \/ RetryStep \/ StoppedStep
<1>0. events \in Seq(EventTypes) /\ generation \in Nat
  BY DEF Inv, TypeOK, WorkerTypeOK
<1>1. UNCHANGED <<cancel, stopping>>
  BY DEF Worker, Attempt, SelectFails, SelectAmbiguous, Select, OpenFails, Open, ReadCancelled, Read,
         Status, AttemptFails, AttemptMismatch, Command, DoDisconnect, DoConnect, DoScan, Refuse,
         BeginRead, BeginMacro, BeginApply, Take, Operation, Reread, SaveChecks, SaveConflicts,
         SaveSends, SendFails, SaveVerified, SaveUnverified, CommandFails, CommandMismatch,
         MacroEnds, MacroFails, Poll, PollRetries, PollFails, RunEnds, Outside
<1>2. ASSUME PollRetries
      PROVE  RetryStep
  <2>1. PICK e : Plain(e, "connecting", generation) /\ Connection("connecting", generation) = <<e>>
    BY <1>0, SignalFields DEF States
  <2>2. Says(e)
    BY <1>0, <1>2, <2>1, EmitSays DEF PollRetries, BeginAttempt, Plain
  <2>3. session = None
    BY <1>2 DEF PollRetries, Inv, WorkerOK
  <2> QED
    BY <1>2, <2>1, <2>2, <2>3 DEF PollRetries, BeginAttempt, RetryStep, Outside, handleVars
<1>3. ASSUME PollFails
      PROVE  LostStep \/ GivenUpStep
  <2>1. /\ active /\ at' = "idle" /\ TransportFailed(<<>>) /\ session # None /\ ~Cancelled
        /\ UNCHANGED commands
    BY <1>3 DEF PollFails, Return, Outside, Inv, WorkerOK
  <2> QED
    BY <1>1, <2>1, FailedKind
<1>4. ASSUME RunEnds
      PROVE  StoppedStep
  BY <1>4 DEF RunEnds, StoppedStep, CloseSession, Outside, linkVars
<1> QED
  BY <1>1, <1>2, <1>3, <1>4, AttemptKinds, CommandKinds, OperationKinds DEF Worker, Poll

-----------------------------------------------------------------------------
(* What the window will show when it has handled the signals.              *)

\* Once the signals in q are handled by a window that shows st, it shows READY.
Final(q, st) ==
  \/ st = "ready" /\ \A i \in DOMAIN q : q[i].kind # "connection"
  \/ \E i \in DOMAIN q : /\ q[i].kind = "connection" /\ q[i].state = "ready"
                         /\ \A j \in DOMAIN q : j > i => q[j].kind # "connection"

\* A signal that joins the others decides if it is one of the connection.
LEMMA FinalAppend ==
  ASSUME NEW q \in Seq(EventTypes), NEW e \in EventTypes, NEW st
  PROVE  /\ e.kind # "connection" => (Final(Append(q, e), st) <=> Final(q, st))
         /\ e.kind = "connection" => (Final(Append(q, e), st) <=> e.state = "ready")
<1> DEFINE r == Append(q, e)
<1>1. /\ Len(q) \in Nat /\ DOMAIN q = 1..Len(q) /\ DOMAIN r = 1..Len(q) + 1
      /\ \A i \in 1..Len(q) : r[i] = q[i]
      /\ r[Len(q) + 1] = e
  BY AppendProperties
<1> HIDE DEF r
<1>2. ASSUME e.kind # "connection"
      PROVE  Final(r, st) <=> Final(q, st)
  <2>1. ASSUME Final(q, st) PROVE Final(r, st)
    BY <1>1, <1>2, <2>1 DEF Final
  <2>2. ASSUME Final(r, st) PROVE Final(q, st)
    BY <1>1, <1>2, <2>2 DEF Final
  <2> QED
    BY <2>1, <2>2
<1>3. ASSUME e.kind = "connection"
      PROVE  Final(r, st) <=> e.state = "ready"
  BY <1>1, <1>3 DEF Final
<1> QED
  BY <1>2, <1>3 DEF r

\* The first signal only matters if it is the last one of the connection.
LEMMA FinalTail ==
  ASSUME NEW q \in Seq(EventTypes), q # <<>>, NEW st
  PROVE  /\ Head(q).kind # "connection" => (Final(Tail(q), st) <=> Final(q, st))
         /\ Head(q).kind = "connection" => (Final(Tail(q), Head(q).state) <=> Final(q, st))
         /\ (\E i \in DOMAIN q : i > 1 /\ q[i].kind = "connection") =>
              (Final(Tail(q), st) <=> Final(q, st))
<1> DEFINE h == Head(q)
           r == Tail(q)
<1>1. /\ Len(q) \in Nat /\ Len(q) >= 1 /\ DOMAIN q = 1..Len(q) /\ DOMAIN r = 1..Len(q) - 1
      /\ q[1] = h
      /\ \A i \in 1..Len(q) - 1 : r[i] = q[i + 1]
  BY HeadTailProperties
<1> HIDE DEF h, r
<1>2. \A i \in 2..Len(q) : i - 1 \in 1..Len(q) - 1 /\ r[i - 1] = q[i]
  BY <1>1
<1>3. \A s : (\A i \in DOMAIN r : r[i].kind # "connection") <=>
             (\A i \in 2..Len(q) : q[i].kind # "connection")
  BY <1>1, <1>2
<1>4. (\E i \in DOMAIN r : /\ r[i].kind = "connection" /\ r[i].state = "ready"
                           /\ \A j \in DOMAIN r : j > i => r[j].kind # "connection")
      <=>
      (\E i \in 2..Len(q) : /\ q[i].kind = "connection" /\ q[i].state = "ready"
                            /\ \A j \in DOMAIN q : j > i => q[j].kind # "connection")
  <2>1. ASSUME NEW i \in DOMAIN r, r[i].kind = "connection", r[i].state = "ready",
               \A j \in DOMAIN r : j > i => r[j].kind # "connection"
        PROVE  /\ i + 1 \in 2..Len(q) /\ q[i + 1].kind = "connection" /\ q[i + 1].state = "ready"
               /\ \A j \in DOMAIN q : j > i + 1 => q[j].kind # "connection"
    <3>1. i \in 1..Len(q) - 1 /\ i + 1 \in 2..Len(q) /\ q[i + 1] = r[i]
      BY <1>1
    <3>2. ASSUME NEW j \in DOMAIN q, j > i + 1
          PROVE  q[j].kind # "connection"
      <4>1. j - 1 \in DOMAIN r /\ j - 1 > i /\ r[j - 1] = q[j]
        BY <1>1, <1>2, <3>1, <3>2
      <4> QED
        BY <2>1, <4>1
    <3> QED
      BY <2>1, <3>1, <3>2
  <2>2. ASSUME NEW i \in 2..Len(q), q[i].kind = "connection", q[i].state = "ready",
               \A j \in DOMAIN q : j > i => q[j].kind # "connection"
        PROVE  /\ i - 1 \in DOMAIN r /\ r[i - 1].kind = "connection" /\ r[i - 1].state = "ready"
               /\ \A j \in DOMAIN r : j > i - 1 => r[j].kind # "connection"
    <3>1. i - 1 \in DOMAIN r /\ r[i - 1] = q[i]
      BY <1>1, <1>2
    <3>2. ASSUME NEW j \in DOMAIN r, j > i - 1
          PROVE  r[j].kind # "connection"
      <4>1. j + 1 \in DOMAIN q /\ j + 1 > i /\ r[j] = q[j + 1]
        BY <1>1, <3>1, <3>2
      <4> QED
        BY <2>2, <4>1
    <3> QED
      BY <2>2, <3>1, <3>2
  <2> QED
    BY <2>1, <2>2
<1>5. \A s : Final(r, s) <=>
        \/ s = "ready" /\ \A i \in 2..Len(q) : q[i].kind # "connection"
        \/ \E i \in 2..Len(q) : /\ q[i].kind = "connection" /\ q[i].state = "ready"
                                /\ \A j \in DOMAIN q : j > i => q[j].kind # "connection"
  BY <1>3, <1>4 DEF Final
<1>6. \A i : i \in DOMAIN q <=> i = 1 \/ i \in 2..Len(q)
  BY <1>1
<1>7. ASSUME h.kind # "connection"
      PROVE  Final(r, st) <=> Final(q, st)
  BY <1>1, <1>5, <1>6, <1>7 DEF Final
<1>8. ASSUME h.kind = "connection"
      PROVE  Final(r, h.state) <=> Final(q, st)
  <2>1. ~(\A i \in DOMAIN q : q[i].kind # "connection")
    BY <1>1, <1>6, <1>8
  <2>2. (/\ q[1].kind = "connection" /\ q[1].state = "ready"
         /\ \A j \in DOMAIN q : j > 1 => q[j].kind # "connection")
        <=> h.state = "ready" /\ \A i \in 2..Len(q) : q[i].kind # "connection"
    <3>1. \A j : j \in DOMAIN q /\ j > 1 <=> j \in 2..Len(q)
      BY <1>1
    <3> QED
      BY <1>1, <1>8, <3>1
  <2> QED
    BY <1>1, <1>5, <1>6, <2>1, <2>2 DEF Final
<1>9. ASSUME NEW i \in DOMAIN q, i > 1, q[i].kind = "connection"
      PROVE  Final(r, st) <=> Final(q, st)
  <2>1. i \in 2..Len(q) /\ 1 \in DOMAIN q
    BY <1>1, <1>9
  <2>2. ~(\A j \in DOMAIN q : j > 1 => q[j].kind # "connection")
    BY <1>9
  <2> QED
    BY <1>5, <1>6, <1>9, <2>1, <2>2 DEF Final
<1> QED
  BY <1>7, <1>8, <1>9 DEF h, r

-----------------------------------------------------------------------------
(* The window follows the worker.                                          *)

Leaves(e) == e.kind = "connection" /\ e.state = "disconnected"

Soon(q) == \E i \in DOMAIN q : Leaves(q[i])

Asked(q) == \E i \in DOMAIN q : q[i].cmd = "disconnect"

\* After each connect comes a disconnect.
Followed(q) ==
  \A i \in DOMAIN q : q[i].cmd = "connect" =>
    \E j \in DOMAIN q : j > i /\ q[j].cmd = "disconnect"

\* A signal that leaves the controls free when it is the last.
Frees(e) == e.kind = "connection" => e.state \notin {"connecting", "reading"}

\* The signals come in the order of the connections, none older than what the
\* window shows.
HasGen(e) == e.kind \in {"connection", "settings"}

GenFits(q, s, g) ==
  /\ s <= g
  /\ \A i \in DOMAIN q : HasGen(q[i]) => s <= q[i].gen /\ q[i].gen <= g
  /\ \A i, j \in DOMAIN q :
       i <= j /\ HasGen(q[i]) /\ HasGen(q[j]) => q[i].gen <= q[j].gen

GenOK == GenFits(events, shown, generation)

\* A window that is leaving waits for a disconnect that is on its way.
LeaveOK ==
  /\ leaving => state \notin {"disconnected", "error"}
  /\ leaving /\ ~stopping => Asked(commands) \/ Soon(events)

\* A worker that is told to give up has nothing, or will be told to disconnect;
\* so it is after each connect it has yet to begin.
CancelOK ==
  cancel /\ ~stopping =>
    /\ Asked(commands) \/ (~active /\ at = "idle")
    /\ Followed(commands)

\* When the worker has nothing more to do, the last it said frees the controls.
FreeOK ==
  at = "idle" /\ commands = <<>> /\ ~stopping =>
    IF events = <<>> THEN ~busy ELSE Frees(events[Len(events)])

\* The window shows or will show what the worker has, or a disconnect comes.
ShowOK ==
  ~Asked(commands) /\ ~stopping =>
    (Final(events, state) <=> session # None /\ at \notin {"read", "status"})

WindowOK == LeaveOK /\ CancelOK /\ FreeOK /\ ShowOK

\* A signal that joins the others.
LEMMA JoinFacts ==
  ASSUME NEW q \in Seq(EventTypes), NEW e \in EventTypes
  PROVE  /\ Append(q, e) \in Seq(EventTypes) /\ Append(q, e) # <<>>
         /\ Append(q, e)[Len(Append(q, e))] = e
         /\ Soon(Append(q, e)) <=> Soon(q) \/ Leaves(e)
<1> DEFINE r == Append(q, e)
<1>1. /\ Len(q) \in Nat /\ DOMAIN q = 1..Len(q) /\ DOMAIN r = 1..Len(q) + 1 /\ Len(r) = Len(q) + 1
      /\ \A i \in 1..Len(q) : r[i] = q[i]
      /\ r[Len(q) + 1] = e /\ r \in Seq(EventTypes) /\ r # <<>>
  BY AppendProperties
<1> HIDE DEF r
<1>2. \A i : i \in DOMAIN r <=> i \in DOMAIN q \/ i = Len(q) + 1
  BY <1>1
<1>3. Soon(r) <=> Soon(q) \/ Leaves(e)
  BY <1>1, <1>2 DEF Soon
<1> QED
  BY <1>1, <1>3 DEF r

\* The first signal is taken from the others.
LEMMA TakeFacts ==
  ASSUME NEW q \in Seq(EventTypes), q # <<>>
  PROVE  /\ Head(q) \in EventTypes /\ Tail(q) \in Seq(EventTypes)
         /\ Soon(q) <=> Leaves(Head(q)) \/ Soon(Tail(q))
         /\ Soon(Tail(q)) => \E i \in DOMAIN q : i > 1 /\ q[i].kind = "connection"
         /\ IF Tail(q) = <<>> THEN Head(q) = q[Len(q)] ELSE Tail(q)[Len(Tail(q))] = q[Len(q)]
<1> DEFINE r == Tail(q)
           h == Head(q)
<1>1. /\ Len(q) \in Nat /\ Len(q) >= 1 /\ DOMAIN q = 1..Len(q) /\ DOMAIN r = 1..Len(q) - 1
      /\ q[1] = h /\ Len(r) = Len(q) - 1 /\ h \in EventTypes /\ r \in Seq(EventTypes)
      /\ \A i \in 1..Len(q) - 1 : r[i] = q[i + 1]
  BY HeadTailProperties
<1> HIDE DEF r, h
<1>2. r = <<>> <=> Len(q) = 1
  BY <1>1, EmptySeq
<1>3. Soon(r) <=> \E i \in 2..Len(q) : Leaves(q[i])
  <2>1. ASSUME NEW i \in DOMAIN r, Leaves(r[i])
        PROVE  i + 1 \in 2..Len(q) /\ Leaves(q[i + 1])
    BY <1>1, <2>1
  <2>2. ASSUME NEW i \in 2..Len(q), Leaves(q[i])
        PROVE  i - 1 \in DOMAIN r /\ Leaves(r[i - 1])
    BY <1>1, <2>2
  <2> QED
    BY <2>1, <2>2 DEF Soon
<1>4. \A i : i \in DOMAIN q <=> i = 1 \/ i \in 2..Len(q)
  BY <1>1
<1>5. Soon(q) <=> Leaves(h) \/ Soon(r)
  BY <1>1, <1>3, <1>4 DEF Soon
<1>6. Soon(r) => \E i \in DOMAIN q : i > 1 /\ q[i].kind = "connection"
  BY <1>3, <1>4 DEF Leaves
<1>7. IF r = <<>> THEN h = q[Len(q)] ELSE r[Len(r)] = q[Len(q)]
  BY <1>1, <1>2
<1> QED
  BY <1>1, <1>5, <1>6, <1>7 DEF r, h

\* A command that joins the others, and the first that is taken from them.
LEMMA AskedFacts ==
  /\ \A q \in Seq(CommandTypes) : \A c \in CommandTypes :
       Asked(Append(q, c)) <=> Asked(q) \/ c.cmd = "disconnect"
  /\ \A q \in Seq(CommandTypes) :
       q # <<>> => (Asked(q) <=> Head(q).cmd = "disconnect" \/ Asked(Tail(q)))
  /\ ~Asked(<<>>)
<1>1. ASSUME NEW q \in Seq(CommandTypes), NEW c \in CommandTypes
      PROVE  Asked(Append(q, c)) <=> Asked(q) \/ c.cmd = "disconnect"
  <2> DEFINE r == Append(q, c)
  <2>1. /\ Len(q) \in Nat /\ DOMAIN q = 1..Len(q) /\ DOMAIN r = 1..Len(q) + 1
        /\ \A i \in 1..Len(q) : r[i] = q[i]
        /\ r[Len(q) + 1] = c
    BY AppendProperties
  <2> HIDE DEF r
  <2>2. \A i : i \in DOMAIN r <=> i \in DOMAIN q \/ i = Len(q) + 1
    BY <2>1
  <2>3. Asked(r) <=> Asked(q) \/ c.cmd = "disconnect"
    BY <2>1, <2>2 DEF Asked
  <2> QED
    BY <2>3 DEF r
<1>2. ASSUME NEW q \in Seq(CommandTypes), q # <<>>
      PROVE  Asked(q) <=> Head(q).cmd = "disconnect" \/ Asked(Tail(q))
  <2> DEFINE r == Tail(q)
             h == Head(q)
  <2>1. /\ Len(q) \in Nat /\ Len(q) >= 1 /\ DOMAIN q = 1..Len(q) /\ DOMAIN r = 1..Len(q) - 1
        /\ q[1] = h
        /\ \A i \in 1..Len(q) - 1 : r[i] = q[i + 1]
    BY <1>2, HeadTailProperties
  <2> HIDE DEF r, h
  <2>2. Asked(r) <=> \E i \in 2..Len(q) : q[i].cmd = "disconnect"
    <3>1. ASSUME NEW i \in DOMAIN r, r[i].cmd = "disconnect"
          PROVE  i + 1 \in 2..Len(q) /\ q[i + 1].cmd = "disconnect"
      BY <2>1, <3>1
    <3>2. ASSUME NEW i \in 2..Len(q), q[i].cmd = "disconnect"
          PROVE  i - 1 \in DOMAIN r /\ r[i - 1].cmd = "disconnect"
      BY <2>1, <3>2
    <3> QED
      BY <3>1, <3>2 DEF Asked
  <2>3. \A i : i \in DOMAIN q <=> i = 1 \/ i \in 2..Len(q)
    BY <2>1
  <2>4. Asked(q) <=> h.cmd = "disconnect" \/ Asked(r)
    BY <2>1, <2>2, <2>3 DEF Asked
  <2> QED
    BY <2>4 DEF r, h
<1>3. ~Asked(<<>>)
  BY DEF Asked
<1> QED
  BY <1>1, <1>2, <1>3

\* The number of the connection a signal is of.
LEMMA GenType ==
  ASSUME NEW e \in EventTypes, HasGen(e)
  PROVE  e.gen \in Nat
  BY EventFields DEF HasGen

\* A signal of the present connection joins the others.
LEMMA GenJoin ==
  ASSUME NEW q \in Seq(EventTypes), NEW e \in EventTypes,
         NEW s \in Nat, NEW g \in Nat, NEW h \in Nat, g <= h,
         GenFits(q, s, g), HasGen(e) => e.gen = h
  PROVE  GenFits(Append(q, e), s, h)
<1> DEFINE r == Append(q, e)
<1>1. /\ Len(q) \in Nat /\ DOMAIN q = 1..Len(q) /\ DOMAIN r = 1..Len(q) + 1
      /\ \A i \in 1..Len(q) : r[i] = q[i] /\ q[i] \in EventTypes
      /\ r[Len(q) + 1] = e
  BY AppendProperties, ElementOfSeq
<1> HIDE DEF r
<1>2. s <= h
  BY DEF GenFits
<1>3. ASSUME NEW i \in DOMAIN r, HasGen(r[i])
      PROVE  r[i].gen \in Nat /\ s <= r[i].gen /\ r[i].gen <= h
  <2>1. CASE i = Len(q) + 1
    BY <1>1, <1>2, <1>3, <2>1
  <2>2. CASE i # Len(q) + 1
    <3>1. i \in DOMAIN q /\ r[i] = q[i] /\ q[i] \in EventTypes
      BY <1>1, <2>2
    <3>2. s <= q[i].gen /\ q[i].gen <= g /\ q[i].gen \in Nat
      BY <1>3, <3>1, GenType DEF GenFits
    <3> QED
      BY <3>1, <3>2
  <2> QED
    BY <2>1, <2>2
<1>4. ASSUME NEW i \in DOMAIN r, NEW j \in DOMAIN r, i <= j, HasGen(r[i]), HasGen(r[j])
      PROVE  r[i].gen <= r[j].gen
  <2>1. CASE j = Len(q) + 1
    <3>1. r[j].gen = h
      BY <1>1, <1>4, <2>1
    <3> QED
      BY <1>3, <1>4, <3>1
  <2>2. CASE j # Len(q) + 1
    <3>1. i \in DOMAIN q /\ j \in DOMAIN q /\ r[i] = q[i] /\ r[j] = q[j]
      BY <1>1, <1>4, <2>2
    <3> QED
      BY <1>4, <3>1 DEF GenFits
  <2> QED
    BY <2>1, <2>2
<1>5. GenFits(r, s, h)
  BY <1>2, <1>3, <1>4 DEF GenFits
<1> QED
  BY <1>5 DEF r

\* The first signal is of the oldest connection.
LEMMA GenTake ==
  ASSUME NEW q \in Seq(EventTypes), q # <<>>, NEW s \in Nat, NEW g \in Nat, GenFits(q, s, g)
  PROVE  /\ GenFits(Tail(q), s, g)
         /\ HasGen(Head(q)) => /\ s <= Head(q).gen /\ Head(q).gen <= g
                               /\ GenFits(Tail(q), Head(q).gen, g)
<1> DEFINE r == Tail(q)
           h == Head(q)
<1>1. /\ Len(q) \in Nat /\ Len(q) >= 1 /\ DOMAIN q = 1..Len(q) /\ DOMAIN r = 1..Len(q) - 1
      /\ q[1] = h
      /\ \A i \in 1..Len(q) - 1 : r[i] = q[i + 1]
  BY HeadTailProperties
<1> HIDE DEF r, h
<1>2. \A i \in DOMAIN r : i + 1 \in DOMAIN q /\ r[i] = q[i + 1]
  BY <1>1
<1>3. ASSUME NEW i \in DOMAIN r, HasGen(r[i])
      PROVE  s <= r[i].gen /\ r[i].gen <= g
  BY <1>2, <1>3 DEF GenFits
<1>4. ASSUME NEW i \in DOMAIN r, NEW j \in DOMAIN r, i <= j, HasGen(r[i]), HasGen(r[j])
      PROVE  r[i].gen <= r[j].gen
  <2>1. i + 1 \in DOMAIN q /\ j + 1 \in DOMAIN q /\ i + 1 <= j + 1
    BY <1>1, <1>2, <1>4
  <2> QED
    BY <1>2, <1>4, <2>1 DEF GenFits
<1>5. GenFits(r, s, g)
  BY <1>3, <1>4 DEF GenFits
<1>6. ASSUME HasGen(h)
      PROVE  s <= h.gen /\ h.gen <= g /\ GenFits(r, h.gen, g)
  <2>1. 1 \in DOMAIN q
    BY <1>1
  <2>2. s <= h.gen /\ h.gen <= g
    BY <1>1, <1>6, <2>1 DEF GenFits
  <2>3. ASSUME NEW i \in DOMAIN r, HasGen(r[i])
        PROVE  h.gen <= r[i].gen
    <3>1. i + 1 \in DOMAIN q /\ 1 <= i + 1
      BY <1>1, <1>2
    <3> QED
      BY <1>1, <1>2, <1>6, <2>1, <2>3, <3>1 DEF GenFits
  <2> QED
    BY <1>3, <1>4, <2>2, <2>3 DEF GenFits
<1> QED
  BY <1>5, <1>6 DEF r, h

\* A new connection is later than those of the signals that wait.
LEMMA GenGrows ==
  ASSUME NEW q \in Seq(EventTypes), NEW s \in Nat, NEW g \in Nat, GenFits(q, s, g)
  PROVE  GenFits(q, s, g + 1)
<1>1. s <= g + 1
  BY DEF GenFits
<1>2. ASSUME NEW i \in DOMAIN q, HasGen(q[i])
      PROVE  s <= q[i].gen /\ q[i].gen <= g + 1
  <2>1. q[i] \in EventTypes
    BY ElementOfSeq
  <2>2. q[i].gen \in Nat /\ s <= q[i].gen /\ q[i].gen <= g
    BY <1>2, <2>1, GenType DEF GenFits
  <2> QED
    BY <2>2
<1> QED
  BY <1>1, <1>2 DEF GenFits

LEMMA GenWorker ==
  ASSUME Inv, GenOK, Worker, UNCHANGED shown
  PROVE  GenOK'
<1>1. events \in Seq(EventTypes) /\ shown \in Nat /\ generation \in Nat
  BY DEF Inv, TypeOK, WorkerTypeOK
<1>2. GenFits(events, shown, generation)
  BY DEF GenOK
<1>3. ASSUME NEW e \in EventTypes, HasGen(e) => e.gen = generation, Says(e), UNCHANGED generation
      PROVE  GenOK'
  <2>1. GenFits(Append(events, e), shown, generation)
    BY <1>1, <1>2, <1>3, GenJoin
  <2> QED
    BY <1>3, <2>1 DEF GenOK, Says
<1>4. ASSUME NEW d \in EventTypes, HasGen(d) => d.gen = generation,
             NEW e \in EventTypes, HasGen(e) => e.gen = generation,
             SaysBoth(d, e), UNCHANGED generation
      PROVE  GenOK'
  <2>1. GenFits(Append(events, d), shown, generation) /\ Append(events, d) \in Seq(EventTypes)
    BY <1>1, <1>2, <1>4, GenJoin, AppendProperties
  <2> DEFINE q == Append(events, d)
  <2>6. q \in Seq(EventTypes) /\ GenFits(q, shown, generation) /\ generation <= generation
    BY <1>1, <2>1
  <2> HIDE DEF q
  <2>7. GenFits(Append(q, e), shown, generation)
    BY <1>1, <1>4, <2>6, GenJoin
  <2>2. GenFits(Append(Append(events, d), e), shown, generation)
    BY <2>7 DEF q
  <2>3. events' = Append(Append(events, d), e) /\ shown' = shown /\ generation' = generation
    BY <1>4 DEF SaysBoth
  <2>4. GenFits(events', shown', generation')
    BY <2>2, <2>3
  <2> QED
    BY <2>4 DEF GenOK
<1>5. ASSUME NEW e \in EventTypes, e.gen = generation + 1, Says(e), generation' = generation + 1
      PROVE  GenOK'
  <2>1. GenFits(Append(events, e), shown, generation + 1)
    BY <1>1, <1>2, <1>5, GenJoin
  <2> QED
    BY <1>5, <2>1 DEF GenOK, Says
<1>6. ASSUME UNCHANGED <<events, generation>>
      PROVE  GenOK'
  BY <1>2, <1>6 DEF GenOK
<1>7. CASE LostStep
  <2>1. PICK e : /\ Plain(e, "retry_wait", generation)
                 /\ Says(e) \/ \E d : IsMacro(d) /\ SaysBoth(d, e)
    BY <1>7 DEF LostStep
  <2> QED
    BY <1>3, <1>4, <1>7, <2>1 DEF LostStep, Plain, IsMacro, HasGen
<1>8. CASE GivenUpStep \/ FatalStep \/ InnerStep \/ OpenStep \/ AnswerStep \/ ReplyStep \/ BeginStep
           \/ RetryStep \/ StoppedStep
  <2>1. UNCHANGED generation
    BY <1>8 DEF GivenUpStep, FatalStep, InnerStep, OpenStep, AnswerStep, ReplyStep, BeginStep,
                RetryStep, StoppedStep, Ends
  <2>2. UNCHANGED events \/ \E e \in EventTypes : (HasGen(e) => e.gen = generation) /\ Says(e)
    BY <1>8 DEF GivenUpStep, FatalStep, InnerStep, OpenStep, AnswerStep, ReplyStep, BeginStep,
                RetryStep, StoppedStep, Plain, IsMacro, Bare, Reply, HasGen
  <2> QED
    BY <1>3, <1>6, <2>1, <2>2
<1>9. CASE ReadyStep
  BY <1>4, <1>9 DEF ReadyStep, Ends, HasGen
<1>10. CASE DisconnectStep
  BY <1>5, <1>10 DEF DisconnectStep, Plain
<1>11. CASE ConnectStep
  <2>1. CASE UNCHANGED events
    <3>1. generation' = generation + 1
      BY <1>11 DEF ConnectStep
    <3> QED
      BY <1>1, <1>2, <2>1, <3>1, GenGrows DEF GenOK
  <2>2. CASE ~UNCHANGED events
    BY <1>5, <1>11, <2>2 DEF ConnectStep, Plain
  <2> QED
    BY <2>1, <2>2
<1> QED
  BY <1>7, <1>8, <1>9, <1>10, <1>11, WorkerKinds

\* What the window finds when it takes a signal: nothing older than it shows.
LEMMA GenSignal ==
  ASSUME Inv, GenOK, Signal
  PROVE  /\ GenOK'
         /\ OnConnection => ~(Head(events).gen < shown)
<1>1. events \in Seq(EventTypes) /\ shown \in Nat /\ generation \in Nat
  BY DEF Inv, TypeOK, WorkerTypeOK
<1>2. GenFits(events, shown, generation)
  BY DEF GenOK
<1>3. events # <<>> /\ events' = Tail(events) /\ UNCHANGED generation
  BY DEF Signal, OnDevices, OnConnection, OnSettings, OnProblem, OnMacro, Handle, linkVars
<1>4. /\ GenFits(Tail(events), shown, generation)
      /\ HasGen(Head(events)) => /\ shown <= Head(events).gen
                                 /\ GenFits(Tail(events), Head(events).gen, generation)
  BY <1>1, <1>2, <1>3, GenTake
<1>5. ASSUME UNCHANGED shown
      PROVE  GenOK'
  <2>1. GenFits(events', shown', generation')
    BY <1>3, <1>4, <1>5
  <2> QED
    BY <2>1 DEF GenOK
<1>6. CASE OnConnection
  <2>1. HasGen(Head(events)) /\ Head(events) \in EventTypes
    BY <1>6, HandleType DEF OnConnection, HasGen
  <2>2. Head(events).gen \in Nat /\ shown <= Head(events).gen
    BY <1>4, <2>1, GenType
  <2>3. shown' = Head(events).gen \/ UNCHANGED shown
    BY <1>6 DEF OnConnection, windowVars
  <2> QED
    BY <1>1, <1>3, <1>4, <1>5, <2>1, <2>2, <2>3 DEF GenOK
<1>7. OnConnection \/ UNCHANGED shown
  BY DEF Signal, OnDevices, OnSettings, OnProblem, OnMacro, windowVars
<1> QED
  BY <1>5, <1>6, <1>7

\* A command that joins the others, and the first that is taken from them.
LEMMA FollowedFacts ==
  /\ Followed(<<>>)
  /\ \A q \in Seq(CommandTypes), c \in CommandTypes :
       /\ c.cmd = "disconnect" => Followed(Append(q, c))
       /\ c.cmd # "connect" /\ Followed(q) => Followed(Append(q, c))
  /\ \A q \in Seq(CommandTypes) : q # <<>> /\ Followed(q) =>
       /\ Followed(Tail(q))
       /\ Head(q).cmd = "connect" => Asked(Tail(q))
<1>1. Followed(<<>>)
  BY DEF Followed
<1>2. ASSUME NEW q \in Seq(CommandTypes), NEW c \in CommandTypes
      PROVE  /\ c.cmd = "disconnect" => Followed(Append(q, c))
             /\ c.cmd # "connect" /\ Followed(q) => Followed(Append(q, c))
  <2> DEFINE r == Append(q, c)
  <2>1. /\ Len(q) \in Nat /\ DOMAIN q = 1..Len(q) /\ DOMAIN r = 1..Len(q) + 1
        /\ \A i \in 1..Len(q) : r[i] = q[i]
        /\ r[Len(q) + 1] = c
    BY AppendProperties
  <2> HIDE DEF r
  <2>2. \A i \in DOMAIN r : i = Len(q) + 1 \/ (i \in DOMAIN q /\ r[i] = q[i] /\ Len(q) + 1 > i)
    BY <2>1
  <2>3. \A i \in DOMAIN q : i \in DOMAIN r
    BY <2>1
  <2>4. Len(q) + 1 \in DOMAIN r
    BY <2>1
  <2>5. ASSUME c.cmd = "disconnect"
        PROVE  Followed(r)
    <3>1. ASSUME NEW i \in DOMAIN r, r[i].cmd = "connect"
          PROVE  Len(q) + 1 > i
      BY <2>1, <2>2, <2>5, <3>1
    <3> QED
      BY <2>1, <2>4, <2>5, <3>1 DEF Followed
  <2>6. c.cmd # "connect" /\ Followed(q) => Followed(r)
    BY <2>1, <2>2, <2>3 DEF Followed
  <2> QED
    BY <2>5, <2>6 DEF r
<1>3. ASSUME NEW q \in Seq(CommandTypes), q # <<>>, Followed(q)
      PROVE  Followed(Tail(q)) /\ (Head(q).cmd = "connect" => Asked(Tail(q)))
  <2> DEFINE r == Tail(q)
             h == Head(q)
  <2>1. /\ Len(q) \in Nat /\ Len(q) >= 1 /\ DOMAIN q = 1..Len(q) /\ DOMAIN r = 1..Len(q) - 1
        /\ q[1] = h
        /\ \A i \in 1..Len(q) - 1 : r[i] = q[i + 1]
    BY <1>3, HeadTailProperties
  <2> HIDE DEF r, h
  <2>2. \A i \in DOMAIN r : i + 1 \in DOMAIN q /\ r[i] = q[i + 1]
    BY <2>1
  <2>3. \A j \in DOMAIN q : j > 1 => j - 1 \in DOMAIN r /\ r[j - 1] = q[j]
    BY <2>1
  <2>4. ASSUME NEW i \in DOMAIN r, r[i].cmd = "connect"
        PROVE  \E j \in DOMAIN r : j > i /\ r[j].cmd = "disconnect"
    <3>1. PICK j \in DOMAIN q : j > i + 1 /\ q[j].cmd = "disconnect"
      BY <1>3, <2>2, <2>4 DEF Followed
    <3>2. j - 1 > i /\ j > 1
      BY <2>1, <2>4, <3>1
    <3> QED
      BY <2>3, <3>1, <3>2
  <2>5. ASSUME h.cmd = "connect"
        PROVE  Asked(r)
    <3>1. 1 \in DOMAIN q
      BY <2>1
    <3>2. PICK j \in DOMAIN q : j > 1 /\ q[j].cmd = "disconnect"
      BY <1>3, <2>1, <2>5, <3>1 DEF Followed
    <3> QED
      BY <2>3, <3>2 DEF Asked
  <2> QED
    BY <2>4, <2>5 DEF r, h, Followed
<1> QED
  BY <1>1, <1>2, <1>3

\* What a signal of the worker does to those that wait.
LEMMA SaidFacts ==
  ASSUME events \in Seq(EventTypes), NEW e \in EventTypes,
         Says(e) \/ \E d \in EventTypes : SaysBoth(d, e)
  PROVE  /\ events' # <<>> /\ events'[Len(events')] = e
         /\ Soon(events) \/ Leaves(e) => Soon(events')
         /\ e.kind = "connection" => \A st : Final(events', st) <=> e.state = "ready"
<1>1. PICK q \in Seq(EventTypes) : events' = Append(q, e) /\ (Soon(events) => Soon(q))
  <2>1. CASE Says(e)
    BY <2>1 DEF Says
  <2>2. ASSUME NEW d \in EventTypes, SaysBoth(d, e)
        PROVE  \E q \in Seq(EventTypes) : events' = Append(q, e) /\ (Soon(events) => Soon(q))
    BY <2>2, JoinFacts DEF SaysBoth
  <2> QED
    BY <2>1, <2>2
<1>2. Append(q, e) # <<>> /\ Append(q, e)[Len(Append(q, e))] = e /\ (Soon(Append(q, e)) <=> Soon(q) \/ Leaves(e))
  BY JoinFacts
<1>3. e.kind = "connection" => \A st : Final(Append(q, e), st) <=> e.state = "ready"
  BY FinalAppend
<1>4. Soon(events) \/ Leaves(e) => Soon(Append(q, e))
  BY <1>1, <1>2
<1> QED
  BY <1>1, <1>2, <1>3, <1>4 DEF Soon, Final

\* A command that is taken.
LEMMA TakenFacts ==
  ASSUME Inv, NEW cmds, Taken(cmds)
  PROVE  /\ Asked(commands) <=> Head(commands).cmd = "disconnect" \/ Asked(commands')
         /\ Followed(commands) => Followed(commands')
         /\ Followed(commands) /\ Head(commands).cmd = "connect" => Asked(commands')
<1>1. commands \in Seq(CommandTypes) /\ commands # <<>> /\ commands' = Tail(commands)
  BY DEF Inv, TypeOK, WorkerTypeOK, Taken
<1>2. Asked(commands) <=> Head(commands).cmd = "disconnect" \/ Asked(Tail(commands))
  BY <1>1, AskedFacts
<1>3. Followed(commands) => Followed(Tail(commands))
                            /\ (Head(commands).cmd = "connect" => Asked(Tail(commands)))
  BY <1>1, FollowedFacts
<1> QED
  BY <1>1, <1>2, <1>3 DEF Asked, Followed

\* The last signal of a step that leaves the worker idle frees the controls; a
\* worker that is told to give up may say nothing, for more commands wait.
LEMMA IdleSays ==
  ASSUME Inv, CancelOK, Worker, at' = "idle", ~stopping
  PROVE  \/ Asked(commands')
         \/ \E e \in EventTypes : /\ Frees(e)
                                  /\ Says(e) \/ \E d \in EventTypes : SaysBoth(d, e)
<1>1. CASE LostStep \/ FatalStep \/ ReadyStep \/ DisconnectStep \/ ReplyStep
  BY <1>1 DEF LostStep, FatalStep, ReadyStep, DisconnectStep, ReplyStep, Plain, Bare, Reply, IsMacro, Frees
<1>2. CASE GivenUpStep \/ AnswerStep
  <2>1. CASE Cancelled
    <3>1. Asked(commands)
      BY <1>2, <2>1 DEF CancelOK, Cancelled, GivenUpStep, AnswerStep, Ends
    <3>2. UNCHANGED commands
      BY <1>2 DEF GivenUpStep, AnswerStep, Ends
    <3> QED
      BY <3>1, <3>2 DEF Asked
  <2>2. CASE ~Cancelled
    BY <1>2, <2>2 DEF GivenUpStep, AnswerStep, Reply, Frees
  <2> QED
    BY <2>1, <2>2
<1>3. CASE ConnectStep
  <2>1. Taken({"connect"}) /\ cancel
    BY <1>3 DEF ConnectStep, Cancelled
  <2>2. Head(commands).cmd = "connect" /\ Followed(commands)
    BY <2>1 DEF Taken, CancelOK
  <2> QED
    BY <2>1, <2>2, TakenFacts
<1> QED
  BY <1>1, <1>2, <1>3, WorkerKinds DEF InnerStep, OpenStep, BeginStep, RetryStep, StoppedStep

\* What the worker does to the commands and the signals.
LEMMA WorkerQueues ==
  ASSUME Inv, Worker
  PROVE  /\ Soon(events) => Soon(events')
         /\ Asked(commands) => Asked(commands') \/ Soon(events')
         /\ Followed(commands) => Followed(commands')
<1>0. events \in Seq(EventTypes)
  BY DEF Inv, TypeOK, WorkerTypeOK
<1>1. UNCHANGED events \/ \E e \in EventTypes : Says(e) \/ \E d \in EventTypes : SaysBoth(d, e)
  BY WorkerKinds DEF LostStep, GivenUpStep, FatalStep, InnerStep, OpenStep, ReadyStep, AnswerStep,
     DisconnectStep, ConnectStep, ReplyStep, BeginStep, RetryStep, StoppedStep, Plain, Bare, Reply, IsMacro
<1>2. Soon(events) => Soon(events')
  BY <1>0, <1>1, SaidFacts DEF Soon
<1>3. CASE UNCHANGED commands
  BY <1>2, <1>3 DEF Asked, Followed
<1>4. CASE DisconnectStep
  <2>1. PICK e \in EventTypes : Leaves(e) /\ Says(e)
    BY <1>4 DEF DisconnectStep, Plain, Leaves
  <2>2. Soon(events')
    BY <1>0, <2>1, SaidFacts
  <2>3. Taken({"disconnect"})
    BY <1>4 DEF DisconnectStep
  <2> QED
    BY <2>2, <2>3, TakenFacts
<1>5. CASE ConnectStep \/ ReplyStep \/ BeginStep
  <2>1. PICK cmds : Taken(cmds) /\ "disconnect" \notin cmds
    BY <1>5 DEF ConnectStep, ReplyStep, BeginStep
  <2>2. Head(commands).cmd # "disconnect"
    BY <2>1 DEF Taken
  <2> QED
    BY <1>2, <2>1, <2>2, TakenFacts
<1> QED
  BY <1>3, <1>4, <1>5, WorkerKinds DEF LostStep, GivenUpStep, FatalStep, InnerStep, OpenStep,
     ReadyStep, AnswerStep, RetryStep, StoppedStep, Ends

\* The worker leaves the window in agreement.
LEMMA WindowWorker ==
  ASSUME Inv, WindowOK, Worker, UNCHANGED windowVars
  PROVE  WindowOK'
<1>0. events \in Seq(EventTypes) /\ UNCHANGED <<cancel, stopping, state, leaving, busy>>
  BY WorkerKinds DEF Inv, TypeOK, WorkerTypeOK, windowVars
<1>1. LeaveOK'
  <2>1. leaving /\ ~stopping => Asked(commands') \/ Soon(events')
    BY WorkerQueues DEF WindowOK, LeaveOK
  <2>2. leaving => state \notin {"disconnected", "error"}
    BY DEF WindowOK, LeaveOK
  <2> QED
    BY <1>0, <2>1, <2>2 DEF LeaveOK, Asked, Soon
<1>2. CancelOK'
  <2>1. ASSUME cancel, ~stopping
        PROVE  Asked(commands') \/ (~active' /\ at' = "idle")
    <3>1. Cancelled /\ Followed(commands)
      BY <2>1 DEF Cancelled, WindowOK, CancelOK
    <3>2. CASE GivenUpStep \/ FatalStep \/ InnerStep \/ OpenStep \/ ReadyStep \/ AnswerStep
      <4>1. UNCHANGED commands /\ at # "idle"
        BY <3>2 DEF GivenUpStep, FatalStep, InnerStep, OpenStep, ReadyStep, AnswerStep, Ends
      <4> QED
        BY <2>1, <4>1 DEF WindowOK, CancelOK, Asked
    <3>3. CASE DisconnectStep
      BY <3>3 DEF DisconnectStep
    <3>4. CASE ConnectStep
      <4>1. Taken({"connect"}) /\ Head(commands).cmd = "connect"
        BY <3>4 DEF ConnectStep, Taken
      <4> QED
        BY <3>1, <4>1, TakenFacts
    <3>5. CASE ReplyStep
      <4>1. /\ Taken({"scan", "read", "macro", "apply"}) /\ Head(commands).cmd # "disconnect"
            /\ at' = "idle" /\ UNCHANGED active
        BY <3>5 DEF ReplyStep, Taken
      <4>2. CASE Asked(commands)
        BY <4>1, <4>2, TakenFacts
      <4>3. CASE ~active
        BY <4>1, <4>3
      <4> QED
        BY <2>1, <4>2, <4>3 DEF WindowOK, CancelOK
    <3> QED
      BY <2>1, <3>1, <3>2, <3>3, <3>4, <3>5, WorkerKinds DEF LostStep, BeginStep, RetryStep, StoppedStep
  <2>2. cancel /\ ~stopping => Followed(commands')
    BY WorkerQueues DEF WindowOK, CancelOK
  <2> QED
    BY <1>0, <2>1, <2>2 DEF CancelOK, Asked, Followed
<1>3. FreeOK'
  <2>1. ASSUME at' = "idle", commands' = <<>>, ~stopping
        PROVE  events' # <<>> /\ Frees(events'[Len(events')])
    <3>1. ~Asked(commands')
      BY <2>1 DEF Asked
    <3>2. PICK e \in EventTypes : Frees(e) /\ (Says(e) \/ \E d \in EventTypes : SaysBoth(d, e))
      BY <2>1, <3>1, IdleSays DEF WindowOK
    <3>3. events' # <<>> /\ events'[Len(events')] = e
      BY <1>0, <3>2, SaidFacts
    <3> QED
      BY <3>2, <3>3
  <2> QED
    BY <1>0, <2>1 DEF FreeOK, Frees
<1>4. ShowOK'
  <2>1. ASSUME ~Asked(commands'), ~stopping
        PROVE  Final(events', state) <=> session' # None /\ at' \notin {"read", "status"}
    <3>1. ASSUME NEW e \in EventTypes, e.kind = "connection",
                 Says(e) \/ \E d \in EventTypes : SaysBoth(d, e),
                 e.state = "ready" <=> session' # None /\ at' \notin {"read", "status"}
          PROVE  Final(events', state) <=> session' # None /\ at' \notin {"read", "status"}
      BY <1>0, <3>1, SaidFacts
    <3>2. CASE LostStep
      BY <3>1, <3>2 DEF LostStep, Plain, IsMacro
    <3>3. CASE FatalStep \/ OpenStep \/ ReadyStep \/ DisconnectStep \/ RetryStep
      BY <3>1, <3>3 DEF FatalStep, OpenStep, ReadyStep, DisconnectStep, RetryStep, Plain, Ends
    <3>4. CASE ConnectStep
      <4>1. ~Cancelled
        <5>1. Taken({"connect"}) /\ Head(commands).cmd = "connect"
          BY <3>4 DEF ConnectStep, Taken
        <5> QED
          BY <2>1, <5>1, TakenFacts DEF WindowOK, CancelOK, Cancelled
      <4> QED
        BY <3>1, <3>4, <4>1 DEF ConnectStep, Plain
    <3>5. ASSUME ~Asked(commands),
                 UNCHANGED session, at \in {"read", "status"} <=> at' \in {"read", "status"},
                 UNCHANGED events \/ \E e : Reply(e) /\ Says(e)
          PROVE  Final(events', state) <=> session' # None /\ at' \notin {"read", "status"}
      <4>1. Final(events, state) <=> session # None /\ at \notin {"read", "status"}
        BY <2>1, <3>5 DEF WindowOK, ShowOK
      <4>2. Final(events', state) <=> Final(events, state)
        <5>1. CASE UNCHANGED events
          BY <5>1 DEF Final
        <5>2. ASSUME NEW e, Reply(e), Says(e)
              PROVE  Final(events', state) <=> Final(events, state)
          <6>1. Final(Append(events, e), state) <=> Final(events, state)
            BY <1>0, <5>2, FinalAppend DEF Reply
          <6> QED
            BY <5>2, <6>1 DEF Says, Final
        <5> QED
          BY <3>5, <5>1, <5>2
      <4> QED
        BY <3>5, <4>1, <4>2
    <3>6. CASE InnerStep \/ AnswerStep
      <4>1. UNCHANGED commands /\ ~Asked(commands)
        BY <2>1, <3>6 DEF InnerStep, AnswerStep, Ends, Asked
      <4>2. ~Cancelled
        BY <2>1, <3>6, <4>1 DEF WindowOK, CancelOK, Cancelled, InnerStep, AnswerStep, Ends
      <4> QED
        BY <3>5, <3>6, <4>1, <4>2 DEF InnerStep, AnswerStep, Ends
    <3>7. CASE ReplyStep \/ BeginStep
      <4>1. PICK cmds : Taken(cmds) /\ "disconnect" \notin cmds
        BY <3>7 DEF ReplyStep, BeginStep, Bare
      <4>2. ~Asked(commands)
        BY <2>1, <4>1, TakenFacts DEF Taken
      <4>3. at = "idle"
        BY <4>1 DEF Taken
      <4> QED
        BY <3>5, <3>7, <4>2, <4>3 DEF ReplyStep, BeginStep, Bare
    <3>8. CASE GivenUpStep
      <4>1. UNCHANGED commands /\ at # "idle" /\ cancel
        BY <2>1, <3>8 DEF GivenUpStep, Ends, Cancelled
      <4>2. Asked(commands)
        BY <2>1, <4>1 DEF WindowOK, CancelOK
      <4> QED
        BY <2>1, <4>1, <4>2 DEF Asked
    <3> QED
      BY <2>1, <3>2, <3>3, <3>4, <3>6, <3>7, <3>8, WorkerKinds DEF StoppedStep
  <2> QED
    BY <1>0, <2>1 DEF ShowOK, Final, Asked
<1> QED
  BY <1>1, <1>2, <1>3, <1>4 DEF WindowOK

\* The window's handling of a signal.
LEMMA WindowSignal ==
  ASSUME Inv, GenOK, WindowOK, Signal
  PROVE  WindowOK'
<1>1. events \in Seq(EventTypes)
  BY DEF Inv, TypeOK, WorkerTypeOK
<1>2. /\ events # <<>> /\ events' = Tail(events) /\ ~stopping
      /\ UNCHANGED <<commands, cancel, stopping, at, active, session>>
  BY DEF Signal, OnDevices, OnConnection, OnSettings, OnProblem, OnMacro, Handle, linkVars, handleVars
<1>3. /\ Soon(events) <=> Leaves(Head(events)) \/ Soon(Tail(events))
      /\ Soon(Tail(events)) => \E i \in DOMAIN events : i > 1 /\ events[i].kind = "connection"
      /\ IF Tail(events) = <<>> THEN Head(events) = events[Len(events)]
         ELSE Tail(events)[Len(Tail(events))] = events[Len(events)]
  BY <1>1, <1>2, TakeFacts
<1>4. /\ Head(events).kind # "connection" => (Final(Tail(events), state) <=> Final(events, state))
      /\ Head(events).kind = "connection" =>
           (Final(Tail(events), Head(events).state) <=> Final(events, state))
      /\ (\E i \in DOMAIN events : i > 1 /\ events[i].kind = "connection") =>
           (Final(Tail(events), state) <=> Final(events, state))
  BY <1>1, <1>2, FinalTail
<1>5. CancelOK'
  BY <1>2 DEF WindowOK, CancelOK, Asked, Followed
<1>6. LeaveOK /\ FreeOK /\ ShowOK
  BY DEF WindowOK
<1>7. leaving /\ ~Asked(commands) => Soon(events)
  BY <1>2, <1>6 DEF LeaveOK
<1>8. ASSUME LeaveOK, UNCHANGED <<leaving, state>>, ~Leaves(Head(events))
      PROVE  LeaveOK'
  <2>1. Soon(events') <=> Soon(events)
    BY <1>2, <1>3, <1>8 DEF Soon
  <2>2. Asked(commands') <=> Asked(commands)
    BY <1>2 DEF Asked
  <2> QED
    BY <1>2, <1>8, <2>1, <2>2 DEF LeaveOK
<1>9. ASSUME Tail(events) = <<>> /\ Frees(Head(events)) /\ commands = <<>> => ~busy'
      PROVE  FreeOK'
  <2>1. ASSUME at = "idle", commands = <<>>
        PROVE  IF Tail(events) = <<>> THEN ~busy' ELSE Frees(Tail(events)[Len(Tail(events))])
    <3>1. Frees(events[Len(events)])
      BY <1>2, <1>6, <2>1 DEF FreeOK
    <3>2. CASE Tail(events) = <<>>
      BY <1>3, <1>9, <2>1, <3>1, <3>2
    <3>3. CASE Tail(events) # <<>>
      BY <1>3, <3>1, <3>3
    <3> QED
      BY <3>2, <3>3
  <2> QED
    BY <1>2, <2>1 DEF FreeOK, Frees
<1>10. ASSUME ~Asked(commands) => (Final(Tail(events), state') <=> Final(events, state))
       PROVE  ShowOK'
  <2>1. Final(events', state') <=> Final(Tail(events), state')
    BY <1>2 DEF Final
  <2>2. Asked(commands') <=> Asked(commands)
    BY <1>2 DEF Asked
  <2> QED
    BY <1>2, <1>6, <1>10, <2>1, <2>2 DEF ShowOK
<1>11. Tail(events) = <<>> /\ commands = <<>> /\ leaving => Leaves(Head(events))
  <2>1. ~Asked(<<>>) /\ ~Soon(<<>>)
    BY AskedFacts DEF Soon
  <2> QED
    BY <1>3, <1>7, <2>1
<1>12. CASE OnDevices \/ OnProblem \/ OnMacro \/ OnSettings
  <2>1. Head(events).kind # "connection" /\ UNCHANGED <<leaving, state>>
    BY <1>12 DEF OnDevices, OnProblem, OnMacro, OnSettings, Handle, windowVars
  <2>2. ~Leaves(Head(events))
    BY <2>1 DEF Leaves
  <2>3. Tail(events) = <<>> /\ commands = <<>> => ~busy'
    BY <1>11, <1>12, <2>2 DEF OnDevices, OnProblem, OnMacro, OnSettings
  <2> QED
    BY <1>4, <1>5, <1>6, <1>8, <1>9, <1>10, <2>1, <2>2, <2>3 DEF WindowOK
<1>13. CASE OnConnection /\ Outdated(Head(events))
  <2>1. UNCHANGED <<leaving, state>> /\ leaving /\ Head(events).state # "disconnected"
    BY <1>13, GenSignal DEF OnConnection, Outdated, windowVars
  <2>2. ~Leaves(Head(events))
    BY <2>1 DEF Leaves
  <2>3. ~Asked(commands) => (Final(Tail(events), state') <=> Final(events, state))
    BY <1>3, <1>4, <1>7, <2>1, <2>2
  <2> QED
    BY <1>5, <1>6, <1>8, <1>9, <1>10, <1>11, <2>1, <2>2, <2>3 DEF WindowOK
<1>14. CASE OnConnection /\ ~Outdated(Head(events))
  <2>1. /\ state' = Head(events).state /\ Head(events).kind = "connection" /\ ~leaving'
        /\ busy' = (Head(events).state \in {"connecting", "reading"})
    BY <1>14 DEF OnConnection, Handle, Outdated
  <2>2. LeaveOK'
    BY <2>1 DEF LeaveOK
  <2>3. Frees(Head(events)) => ~busy'
    BY <2>1 DEF Frees
  <2> QED
    BY <1>4, <1>5, <1>9, <1>10, <2>1, <2>2, <2>3 DEF WindowOK
<1> QED
  BY <1>12, <1>13, <1>14 DEF Signal

\* What the user does.
LEMMA WindowUser ==
  ASSUME Inv, WindowOK, User
  PROVE  WindowOK'
<1>1. commands \in Seq(CommandTypes)
  BY DEF Inv, TypeOK, WorkerTypeOK
<1>2. ASSUME NEW c \in CommandTypes, commands' = Append(commands, c),
             UNCHANGED <<events, stopping, at, active, session, state>>
      PROVE  /\ Asked(commands') <=> Asked(commands) \/ c.cmd = "disconnect"
             /\ Asked(commands) => Asked(commands')
             /\ FreeOK' /\ ShowOK'
  <2>1. commands' # <<>>
    BY <1>1, <1>2, AppendProperties
  <2>2. Asked(Append(commands, c)) <=> Asked(commands) \/ c.cmd = "disconnect"
    BY <1>1, AskedFacts
  <2>3. Asked(commands') <=> Asked(commands) \/ c.cmd = "disconnect"
    BY <1>2, <2>2 DEF Asked
  <2>4. Final(events', state') <=> Final(events, state)
    BY <1>2 DEF Final
  <2>5. FreeOK'
    BY <2>1 DEF FreeOK
  <2>6. ShowOK'
    BY <1>2, <2>3, <2>4 DEF WindowOK, ShowOK
  <2> QED
    BY <2>3, <2>5, <2>6
<1>3. ASSUME NEW cmd, NEW arg, [cmd |-> cmd, arg |-> arg] \in CommandTypes, Send(cmd, arg)
      PROVE  \E c \in CommandTypes :
               c.cmd = cmd /\ commands' = Append(commands, c)
               /\ UNCHANGED <<events, stopping, at, active, session>>
  BY <1>3 DEF Send, linkVars, handleVars
<1>4. CASE Scan \/ ReadDevice \/ Apply \/ RequestMacro \/ StopMacro
  <2>1. PICK c \in CommandTypes :
          /\ c.cmd \notin {"connect", "disconnect"} /\ commands' = Append(commands, c)
          /\ UNCHANGED <<events, stopping, at, active, session>>
    <3>1. CASE Scan \/ ReadDevice \/ RequestMacro \/ StopMacro
      BY <1>3, <3>1, CommandMade DEF Scan, ReadDevice, RequestMacro, StopMacro, Request
    <3>2. CASE Apply
      <4> DEFINE save == [rev |-> revision, val |-> draft, base |-> baseline, gen |-> shown]
      <4>1. save \in Saves
        BY <3>2 DEF Apply, Saves, Inv, TypeOK
      <4>2. Send("apply", save)
        BY <3>2 DEF Apply, Request
      <4> HIDE DEF save
      <4>3. [cmd |-> "apply", arg |-> save] \in CommandTypes
        BY <4>1, CommandMade
      <4> QED
        BY <1>3, <4>2, <4>3
    <3> QED
      BY <1>4, <3>1, <3>2
  <2>2. UNCHANGED <<cancel, leaving, state>>
    BY <1>4 DEF Scan, ReadDevice, Apply, RequestMacro, StopMacro, Request, windowVars
  <2>3. Followed(commands) => Followed(Append(commands, c))
    BY <1>1, <2>1, FollowedFacts
  <2>4. Followed(commands) => Followed(commands')
    BY <2>1, <2>3 DEF Followed
  <2>5. FreeOK' /\ ShowOK' /\ (Asked(commands) => Asked(commands'))
    BY <1>2, <2>1, <2>2
  <2>6. LeaveOK'
    BY <2>1, <2>2, <2>5 DEF WindowOK, LeaveOK, Soon
  <2>7. CancelOK'
    BY <2>1, <2>2, <2>4, <2>5 DEF WindowOK, CancelOK
  <2> QED
    BY <2>5, <2>6, <2>7 DEF WindowOK
<1>5. CASE Connect
  <2>1. PICK p \in paths : Request("connect", p)
    BY <1>5 DEF Connect
  <2>2. p \in Paths /\ Send("connect", p) /\ ~leaving' /\ ~cancel' /\ UNCHANGED state
    BY <1>5, <2>1 DEF Connect, AllowConnect, Request, Inv, TypeOK
  <2>3. FreeOK' /\ ShowOK'
    BY <1>2, <1>3, <2>2, CommandMade
  <2> QED
    BY <2>2, <2>3 DEF WindowOK, LeaveOK, CancelOK
<1>6. CASE Disconnect
  <2>1. /\ state \notin {"disconnected", "error"} /\ Send("disconnect", None) /\ UNCHANGED state
    BY <1>6 DEF Disconnect
  <2>2. PICK c \in CommandTypes :
          /\ c.cmd = "disconnect" /\ commands' = Append(commands, c)
          /\ UNCHANGED <<events, stopping, at, active, session>>
    BY <1>3, <2>1, CommandMade
  <2>3. FreeOK' /\ ShowOK' /\ Asked(commands')
    BY <1>2, <2>1, <2>2
  <2>4. Followed(Append(commands, c))
    BY <1>1, <2>2, FollowedFacts
  <2>5. Followed(commands')
    BY <2>2, <2>4 DEF Followed
  <2> QED
    BY <2>1, <2>3, <2>5 DEF WindowOK, LeaveOK, CancelOK
<1>7. CASE Edit
  BY <1>7 DEF Edit, workerVars, queueVars, linkVars, handleVars, WindowOK, LeaveOK, CancelOK, FreeOK,
     ShowOK, Asked, Soon, Followed, Final, Frees
<1>8. CASE Close
  BY <1>8 DEF Close, windowVars, WindowOK, LeaveOK, CancelOK, FreeOK, ShowOK
<1> QED
  BY <1>4, <1>5, <1>6, <1>7, <1>8 DEF User

\* When nothing is under way, the two agree.
LEMMA WindowSettles == WindowOK => SettledAgree
<1>1. ~Asked(<<>>) /\ ~Soon(<<>>)
  BY AskedFacts DEF Soon
<1>2. Final(<<>>, state) <=> connected
  BY DEF Final, connected
<1>3. ASSUME WindowOK, commands = <<>>, events = <<>>, at = "idle", ~stopping
      PROVE  (connected <=> session # None) /\ ~busy /\ ~leaving
  <2>1. connected <=> session # None
    BY <1>1, <1>2, <1>3 DEF WindowOK, ShowOK
  <2>2. ~busy
    BY <1>3 DEF WindowOK, FreeOK
  <2>3. ~leaving
    BY <1>1, <1>3 DEF WindowOK, LeaveOK
  <2> QED
    BY <2>1, <2>2, <2>3
<1> QED
  BY <1>3 DEF SettledAgree

\* Every step keeps the window and the worker in agreement.
LEMMA WindowStep == Inv /\ GenOK /\ WindowOK /\ [Next]_vars => GenOK' /\ WindowOK'
<1> SUFFICES ASSUME Inv, GenOK, WindowOK, [Next]_vars
             PROVE  GenOK' /\ WindowOK'
  OBVIOUS
<1>1. ASSUME UNCHANGED <<commands, events, cancel, stopping, at, active, generation, session, windowVars>>
      PROVE  GenOK' /\ WindowOK'
  <2>1. UNCHANGED <<state, shown, leaving, busy>>
    BY <1>1 DEF windowVars
  <2>2. LeaveOK' /\ CancelOK'
    BY <1>1, <2>1 DEF WindowOK, LeaveOK, CancelOK, Asked, Soon, Followed
  <2>3. FreeOK' /\ ShowOK'
    BY <1>1, <2>1 DEF WindowOK, FreeOK, ShowOK, Asked, Final, Frees
  <2>4. GenOK'
    BY <1>1, <2>1 DEF GenOK, GenFits, HasGen
  <2> QED
    BY <2>2, <2>3, <2>4 DEF WindowOK
<1>2. CASE User
  <2>1. UNCHANGED <<events, generation, shown>>
    BY <1>2 DEF User, Scan, Connect, Disconnect, ReadDevice, Apply, Edit, RequestMacro, StopMacro,
       Close, Request, Send, windowVars, workerVars, queueVars, linkVars
  <2>2. GenOK'
    BY <2>1 DEF GenOK, GenFits, HasGen
  <2> QED
    BY <1>2, <2>2, WindowUser
<1>3. CASE Signal
  BY <1>3, GenSignal, WindowSignal
<1>4. CASE Worker /\ UNCHANGED <<windowVars, userVars>>
  BY <1>4, GenWorker, WindowWorker DEF windowVars
<1>5. CASE World /\ UNCHANGED <<windowVars, userVars>>
  BY <1>1, <1>5 DEF World, Move, Rival, queueVars, linkVars, handleVars
<1>6. CASE UNCHANGED vars
  BY <1>1, <1>6 DEF vars, workerVars, queueVars, linkVars, handleVars
<1> QED
  BY <1>2, <1>3, <1>4, <1>5, <1>6 DEF Next

LEMMA WindowAlways == Spec => [](Inv /\ GenOK /\ WindowOK)
<1>1. Init => GenOK /\ WindowOK
  <2>1. ASSUME Init PROVE GenOK
    BY <2>1 DEF Init, WorkerInit, GenOK, GenFits
  <2>2. ASSUME Init PROVE WindowOK
    BY <2>2 DEF Init, WorkerInit, WindowOK, LeaveOK, CancelOK, FreeOK, ShowOK, Final
  <2> QED
    BY <2>1, <2>2
<1>2. Inv /\ GenOK /\ WindowOK /\ [Next]_vars => GenOK' /\ WindowOK'
  BY WindowStep
<1> QED
  BY <1>1, <1>2, InvAlways, PTL DEF Spec

\* WindowSafety for all devices, paths and values and every bound: the window
\* (app.py) and the worker (worker.py) agree when nothing is under way, and a
\* session is with the selected device and has no save in doubt.
THEOREM WindowIsSafe == Spec => []WindowSafety
<1>1. Inv /\ GenOK /\ WindowOK /\ TargetOK => WindowSafety
  <2>1. Inv => TypeOK /\ JudgedBeforeReady
    BY DEF Inv, WorkerOK, JudgedBeforeReady
  <2>2. TargetOK => SessionIsTarget
    BY DEF TargetOK
  <2> QED
    BY <2>1, <2>2, WindowSettles DEF WindowSafety
<1> QED
  BY <1>1, WindowAlways, TargetAlways, PTL

-----------------------------------------------------------------------------
(* A save in doubt.                                                        *)

\* Each device reports a serial number of its own.
DistinctSerials ==
  \A d, e \in Devices : Serial[d] # NoSerial /\ (Serial[d] = Serial[e] => d = e)

\* While the device holds a save in doubt, what is read of it is that save.
HeldOK ==
  outcome = "held" =>
    /\ pendingSave \in Saves /\ target.serial # NoSerial
    /\ \A d \in Devices : Serial[d] = target.serial => stored[d] = Expected(pendingSave)
    /\ at = "status" => snapshot = Expected(pendingSave)

\* Steps that read nothing and save nothing.
HeldFrame ==
  /\ UNCHANGED <<stored, pendingSave, outcome, target>>
  /\ at' = "status" => at = "status" /\ UNCHANGED snapshot

LEMMA HeldKeeps ==
  ASSUME HeldOK, HeldFrame
  PROVE  HeldOK'
<1>1. Expected(pendingSave)' = Expected(pendingSave)
  BY DEF HeldFrame, Expected
<1> QED
  BY <1>1 DEF HeldOK, HeldFrame

\* Which steps those are.
LEMMA HeldFrames ==
  /\ SelectFails \/ SelectAmbiguous \/ OpenFails \/ Open \/ ReadCancelled \/ AttemptFails
     \/ AttemptMismatch => HeldFrame
  /\ DoDisconnect \/ DoScan \/ Refuse \/ BeginRead \/ BeginMacro => HeldFrame
  /\ Reread \/ SaveChecks \/ SaveUnverified \/ CommandFails \/ MacroEnds \/ MacroFails => HeldFrame
  /\ Poll \/ RunEnds \/ Move => HeldFrame
  /\ User \/ Signal \/ UNCHANGED vars => HeldFrame
<1>1. SelectFails \/ SelectAmbiguous \/ OpenFails \/ Open \/ ReadCancelled \/ AttemptFails
      \/ AttemptMismatch => HeldFrame
  BY DEF SelectFails, SelectAmbiguous, OpenFails, Open, ReadCancelled, AttemptFails, AttemptMismatch,
         TransportFailed, Fatal, CloseSession, Return, Outside, linkVars, saveVars, HeldFrame
<1>2. DoDisconnect \/ DoScan \/ Refuse \/ BeginRead \/ BeginMacro => HeldFrame
  BY DEF DoDisconnect, DoScan, Refuse, BeginRead, BeginMacro, Take, Return, deviceVars, linkVars,
         handleVars, saveVars, HeldFrame
<1>3. Reread \/ SaveChecks \/ SaveUnverified \/ CommandFails \/ MacroEnds \/ MacroFails => HeldFrame
  BY DEF Reread, SaveChecks, SaveUnverified, CommandFails, MacroEnds, MacroFails, TransportFailed,
         Return, linkVars, handleVars, saveVars, HeldFrame
<1>4. Poll \/ RunEnds \/ Move => HeldFrame
  BY DEF Poll, PollRetries, PollFails, RunEnds, Move, BeginAttempt, TransportFailed, Return,
         linkVars, handleVars, saveVars, HeldFrame
<1>5. User \/ Signal \/ UNCHANGED vars => HeldFrame
  BY DEF User, Scan, Connect, Disconnect, ReadDevice, Apply, Edit, RequestMacro, StopMacro, Close,
         Request, Send, Signal, OnDevices, OnConnection, OnSettings, OnProblem, OnMacro, Handle, vars,
         workerVars, deviceVars, linkVars, handleVars, saveVars, HeldFrame
<1> QED
  BY <1>1, <1>2, <1>3, <1>4, <1>5

\* A save that takes effect on the device of the session.
LEMMA AppliesHeld ==
  ASSUME DistinctSerials, Inv, TargetOK, session # None, pendingSave \in Saves, DeviceApplies,
         UNCHANGED target, at' # "status"
  PROVE  HeldOK'
<1>1. /\ stored \in [Devices -> Settings] /\ session \in Devices
      /\ Serial[session] = target.serial
  BY DEF Inv, TypeOK, WorkerTypeOK, TargetOK, SessionIsTarget
<1>2. stored'[session] = [rev |-> Next16(stored[session].rev), val |-> pendingSave.val]
  BY <1>1 DEF DeviceApplies
<1>3. stored'[session] = Expected(pendingSave)'
  BY <1>2 DEF DeviceApplies, Expected, Next16
<1>4. \A d \in Devices : Serial[d] = target.serial => d = session
  BY <1>1 DEF DistinctSerials
<1>5. target'.serial # NoSerial
  BY <1>1 DEF DistinctSerials
<1>6. pendingSave' \in Saves
  BY DEF DeviceApplies
<1>7. \A d \in Devices : Serial[d] = target'.serial => stored'[d] = Expected(pendingSave)'
  BY <1>3, <1>4
<1> QED
  BY <1>5, <1>6, <1>7 DEF HeldOK

LEMMA HeldStep ==
  ASSUME DistinctSerials, Inv, TargetOK, HeldOK, [Next]_vars
  PROVE  HeldOK'
<1>1. CASE HeldFrame
  BY <1>1, HeldKeeps
<1>2. ASSUME Forget \/ BeginApply
      PROVE  HeldOK'
  BY <1>2 DEF Forget, BeginApply, HeldOK
<1>3. CASE SaveConflicts \/ SaveVerified \/ CommandMismatch \/ DoConnect
  BY <1>2, <1>3 DEF SaveConflicts, SaveVerified, CommandMismatch, DoConnect
<1>4. CASE Select
  <2>1. /\ UNCHANGED <<stored, pendingSave, outcome>> /\ at' # "status"
        /\ target.serial # NoSerial => target'.serial = target.serial
    BY <1>4 DEF Select, Adopt, Return, saveVars
  <2>2. Expected(pendingSave)' = Expected(pendingSave)
    BY <2>1 DEF Expected
  <2> QED
    BY <2>1, <2>2 DEF HeldOK
<1>5. CASE Read \/ Status
  <2>1. CASE at' = "status"
    <3>1. /\ UNCHANGED <<stored, pendingSave, outcome, target>> /\ snapshot' = stored[session]
          /\ at = "read"
      BY <1>5, <2>1 DEF Read, Status, Publish, Return, linkVars, saveVars
    <3>2. session \in Devices /\ Serial[session] = target.serial
      BY <3>1 DEF Inv, TypeOK, WorkerTypeOK, WorkerOK, TargetOK, SessionIsTarget
    <3>3. Expected(pendingSave)' = Expected(pendingSave)
      BY <3>1 DEF Expected
    <3> QED
      BY <3>1, <3>2, <3>3 DEF HeldOK
  <2>2. CASE at' # "status"
    BY <1>2, <1>5, <2>2 DEF Read, Status, Publish
  <2> QED
    BY <2>1, <2>2
<1>6. CASE SaveSends \/ SendFails
  <2>1. /\ session # None /\ pendingSave \in Saves /\ at' # "status" /\ UNCHANGED target
    BY <1>6 DEF SaveSends, SendFails, Return, TransportFailed, linkVars, Inv, WorkerOK
  <2>2. DeviceApplies \/ DeviceIgnores
    BY <1>6 DEF SaveSends, SendFails
  <2>3. DeviceIgnores => HeldFrame
    BY <2>1 DEF DeviceIgnores, saveVars, HeldFrame
  <2> QED
    BY <1>1, <2>1, <2>2, <2>3, AppliesHeld
<1>7. CASE Rival
  <2>1. PICK d \in Devices, v \in Values :
          /\ stored' = [stored EXCEPT ![d] = [rev |-> Next16(@.rev), val |-> v]]
          /\ outcome' = IF outcome = "held" /\ Serial[d] = target.serial
                        THEN "replaced" ELSE outcome
    BY <1>7 DEF Rival, Listed
  <2>2. UNCHANGED <<pendingSave, target, at, snapshot>>
    BY <1>7 DEF Rival, linkVars, handleVars
  <2>3. \A e \in Devices : e # d => stored'[e] = stored[e]
    BY <2>1 DEF Inv, TypeOK, WorkerTypeOK
  <2>4. outcome' = "held" => outcome = "held" /\ Serial[d] # target.serial
    BY <2>1
  <2>5. Expected(pendingSave)' = Expected(pendingSave)
    BY <2>2 DEF Expected
  <2> QED
    BY <2>2, <2>3, <2>4, <2>5 DEF HeldOK
<1> QED
  BY <1>1, <1>2, <1>3, <1>4, <1>5, <1>6, <1>7, HeldFrames
     DEF Next, Worker, Attempt, Command, Operation, World

\* The signals a step adds.
LEMMA NewSignals ==
  ASSUME events \in Seq(EventTypes)
  PROVE  /\ UNCHANGED events \/ (events # <<>> /\ events' = Tail(events)) =>
              DOMAIN events' \ DOMAIN events = {}
         /\ \A e \in EventTypes : Says(e) =>
              {events'[i] : i \in DOMAIN events' \ DOMAIN events} = {e}
         /\ \A d, e \in EventTypes : SaysBoth(d, e) =>
              {events'[i] : i \in DOMAIN events' \ DOMAIN events} = {d, e}
<1>1. UNCHANGED events \/ (events # <<>> /\ events' = Tail(events)) =>
        DOMAIN events' \ DOMAIN events = {}
  <2>1. ASSUME events # <<>>, events' = Tail(events)
        PROVE  DOMAIN events' \ DOMAIN events = {}
    <3>1. /\ Len(events) \in Nat /\ DOMAIN events = 1..Len(events)
          /\ DOMAIN Tail(events) = 1..Len(events) - 1
      BY <2>1, HeadTailProperties
    <3>2. 1..Len(events) - 1 \subseteq 1..Len(events)
      BY <3>1
    <3> QED
      BY <2>1, <3>1, <3>2
  <2> QED
    BY <2>1
<1>2. ASSUME NEW q \in Seq(EventTypes), NEW e \in EventTypes
      PROVE  /\ DOMAIN Append(q, e) \ DOMAIN q = {Len(q) + 1} /\ Len(q) \in Nat
             /\ Append(q, e)[Len(q) + 1] = e
  <2>1. /\ Len(q) \in Nat /\ DOMAIN q = 1..Len(q) /\ DOMAIN Append(q, e) = 1..Len(q) + 1
        /\ Append(q, e)[Len(q) + 1] = e
    BY AppendProperties
  <2>2. (1..Len(q) + 1) \ (1..Len(q)) = {Len(q) + 1}
    BY <2>1
  <2> QED
    BY <2>1, <2>2
<1>3. ASSUME NEW e \in EventTypes, Says(e)
      PROVE  {events'[i] : i \in DOMAIN events' \ DOMAIN events} = {e}
  BY <1>2, <1>3 DEF Says
<1>4. ASSUME NEW d \in EventTypes, NEW e \in EventTypes, SaysBoth(d, e)
      PROVE  {events'[i] : i \in DOMAIN events' \ DOMAIN events} = {d, e}
  <2> DEFINE q == Append(events, d)
             n == Len(events)
  <2>1. /\ q \in Seq(EventTypes) /\ n \in Nat /\ Len(q) = n + 1 /\ DOMAIN events = 1..n
        /\ q[n + 1] = d /\ events' = Append(q, e)
    BY <1>4, AppendProperties DEF SaysBoth
  <2> HIDE DEF q, n
  <2>2. /\ DOMAIN events' = 1..n + 2 /\ events'[n + 2] = e /\ events'[n + 1] = d
    <3>1. /\ DOMAIN Append(q, e) = 1..Len(q) + 1 /\ Append(q, e)[Len(q) + 1] = e
          /\ \A i \in 1..Len(q) : Append(q, e)[i] = q[i]
      BY <2>1, AppendProperties
    <3>2. n + 1 \in 1..Len(q) /\ Len(q) + 1 = n + 2
      BY <2>1
    <3> QED
      BY <2>1, <3>1, <3>2
  <2>3. DOMAIN events' \ DOMAIN events = {n + 1, n + 2}
    <3>1. (1..n + 2) \ (1..n) = {n + 1, n + 2}
      BY <2>1
    <3> QED
      BY <2>1, <2>2, <3>1
  <2> QED
    BY <2>2, <2>3
<1> QED
  BY <1>1, <1>3, <1>4

LEMMA NoFalseStep ==
  ASSUME DistinctSerials, Inv, TargetOK, HeldOK, [Next]_vars,
         NEW s \in {events'[i] : i \in DOMAIN events' \ DOMAIN events},
         s.kind = "connection", s.verdict = "differs"
  PROVE  outcome # "held"
<1>0. events \in Seq(EventTypes)
  BY DEF Inv, TypeOK, WorkerTypeOK
<1>1. Worker
  <2>1. DOMAIN events' \ DOMAIN events # {}
    OBVIOUS
  <2>2. ~UNCHANGED events /\ ~(events # <<>> /\ events' = Tail(events))
    BY <1>0, <2>1, NewSignals
  <2>3. User \/ World \/ UNCHANGED vars => UNCHANGED events
    BY DEF User, Scan, Connect, Disconnect, ReadDevice, Apply, Edit, RequestMacro, StopMacro, Close,
       Request, Send, World, Move, Rival, workerVars, queueVars, vars
  <2>4. Signal => events # <<>> /\ events' = Tail(events)
    BY DEF Signal, OnDevices, OnConnection, OnSettings, OnProblem, OnMacro, Handle
  <2> QED
    BY <2>2, <2>3, <2>4 DEF Next
<1>2. ReadyStep
  <2>1. ASSUME NEW e \in EventTypes, Says(e), e.kind = "connection" => e.verdict = "none"
        PROVE  FALSE
    BY <1>0, <2>1, NewSignals
  <2>2. ASSUME UNCHANGED events
        PROVE  FALSE
    BY <1>0, <2>2, NewSignals
  <2>3. ASSUME NEW e \in EventTypes, NEW d \in EventTypes, SaysBoth(d, e),
               d.kind # "connection", e.verdict = "none"
        PROVE  FALSE
    BY <1>0, <2>3, NewSignals
  <2> QED
    BY <1>1, <2>1, <2>2, <2>3, WorkerKinds DEF LostStep, GivenUpStep, FatalStep, InnerStep, OpenStep,
       AnswerStep, DisconnectStep, ConnectStep, ReplyStep, BeginStep, RetryStep, StoppedStep,
       Plain, Bare, Reply, IsMacro
<1>3. PICK d, e : /\ d \in EventTypes /\ d.kind = "settings" /\ e \in EventTypes
                  /\ e.verdict = Verdict(ReadNow) /\ SaysBoth(d, e)
  BY <1>2 DEF ReadyStep
<1>4. s = e
  BY <1>0, <1>3, NewSignals
<1>5. ReadNow # Expected(pendingSave)
  BY <1>3, <1>4 DEF Verdict
<1>6. session \in Devices /\ Serial[session] = target.serial
  BY <1>2 DEF ReadyStep, Inv, TypeOK, WorkerTypeOK, TargetOK, SessionIsTarget
<1> QED
  BY <1>2, <1>5, <1>6 DEF ReadNow, HeldOK, ReadyStep

\* NoFalseAlarm for all devices with serial numbers of their own: a save that
\* the device holds is never reported as lost after a reconnect (_attempt of
\* worker.py, which compares what it has read with pending_save).
THEOREM NoAlarmIsFalse == ASSUME DistinctSerials PROVE Spec => NoFalseAlarm
<1>1. Init => HeldOK
  BY DEF Init, WorkerInit, HeldOK
<1>2. Inv /\ TargetOK /\ HeldOK /\ [Next]_vars => HeldOK'
  BY HeldStep
<1>3. Inv /\ TargetOK /\ HeldOK /\ [Next]_vars =>
        \A s \in {events'[i] : i \in DOMAIN events' \ DOMAIN events} :
          s.kind = "connection" /\ s.verdict = "differs" => outcome # "held"
  BY NoFalseStep
<1> QED
  BY <1>1, <1>2, <1>3, InvAlways, TargetAlways, PTL DEF Spec, NoFalseAlarm

-----------------------------------------------------------------------------
(* How many saves there have been.                                         *)

\* How often settings with this revision have been saved: each device starts
\* with the revision before 0.
Count(rev) == IF rev = Revisions - 1 THEN 0 ELSE rev + 1

\* The revisions of a device do not come round.
FewSaves == MaxMishaps + MaxClicks < Revisions

Saving == IF at \in {"check", "write"} THEN 1 ELSE 0

\* Each save is another application's, or was a command of the user.
CountOK ==
  /\ mishaps <= MaxMishaps
  /\ \A d \in Devices : Count(stored[d].rev) + Len(commands) + Saving <= mishaps + clicks

\* A save leads to a later revision, as long as the revisions do not come round.
LEMMA CountNext ==
  ASSUME NEW rev \in 0..Revisions - 1, Count(rev) < Revisions - 1
  PROVE  Next16(rev) \in 0..Revisions - 1 /\ Count(Next16(rev)) = Count(rev) + 1
<1>1. Revisions \in Nat \ {0}
  BY WorkerAssumption
<1>2. CASE rev = Revisions - 1
  <2>1. Revisions > 1 /\ rev + 1 = Revisions
    BY <1>1, <1>2 DEF Count
  <2>2. Revisions % Revisions = 0
    BY <1>1
  <2>3. Next16(rev) = 0
    BY <2>1, <2>2 DEF Next16
  <2> QED
    BY <1>1, <1>2, <2>1, <2>3 DEF Count
<1>3. CASE rev # Revisions - 1
  <2>1. rev + 1 \in 0..Revisions - 1 /\ rev + 1 < Revisions - 1
    BY <1>1, <1>3 DEF Count
  <2>2. (rev + 1) % Revisions = rev + 1
    BY <1>1, <2>1
  <2> QED
    BY <1>1, <1>3, <2>1, <2>2 DEF Count, Next16
<1> QED
  BY <1>2, <1>3

LEMMA CountType ==
  ASSUME NEW rev \in 0..Revisions - 1
  PROVE  Count(rev) \in Nat
BY WorkerAssumption DEF Count

\* The worker takes commands and begins saves; the device saves what was begun.
WorkerSaves ==
  /\ UNCHANGED mishaps \/ Mishap
  /\ \/ UNCHANGED commands /\ (at' \in {"check", "write"} => at \in {"check", "write"})
     \/ commands # <<>> /\ commands' = Tail(commands)
  /\ \/ UNCHANGED stored
     \/ /\ at = "write" /\ at' \notin {"check", "write"} /\ UNCHANGED <<commands, target>>
        /\ DeviceApplies

LEMMA WorkerSaving ==
  ASSUME Worker
  PROVE  WorkerSaves
<1>1. ASSUME SelectFails \/ SelectAmbiguous \/ Select \/ OpenFails \/ Open
      PROVE  WorkerSaves
  BY <1>1 DEF SelectFails, SelectAmbiguous, Select, OpenFails, Open, Return, Outside, WorkerSaves
<1>2. ASSUME ReadCancelled \/ Read \/ Status \/ AttemptFails \/ AttemptMismatch
      PROVE  WorkerSaves
  BY <1>2 DEF ReadCancelled, Read, Status, AttemptFails, AttemptMismatch, Publish, HandleFails,
     BadAnswer, Return, Outside, WorkerSaves
<1>3. ASSUME Command
      PROVE  WorkerSaves
  BY <1>3 DEF Command, DoDisconnect, DoConnect, DoScan, Refuse, BeginRead, BeginMacro, BeginApply,
     Take, deviceVars, WorkerSaves
<1>4. ASSUME Reread \/ SaveChecks \/ SaveConflicts \/ SaveVerified \/ SaveUnverified
      PROVE  WorkerSaves
  BY <1>4 DEF Reread, SaveChecks, SaveConflicts, SaveVerified, SaveUnverified, HandleFails,
     Return, Outside, WorkerSaves
<1>5. ASSUME CommandFails \/ CommandMismatch \/ MacroEnds \/ MacroFails
      PROVE  WorkerSaves
  BY <1>5 DEF CommandFails, CommandMismatch, MacroEnds, MacroFails, HandleFails, BadAnswer,
     Return, Outside, WorkerSaves
<1>6. ASSUME SaveSends \/ SendFails
      PROVE  WorkerSaves
  BY <1>6 DEF SaveSends, SendFails, DeviceIgnores, HandleFails, TransportFailed, Return, Outside,
     linkVars, WorkerSaves
<1>7. ASSUME Poll \/ RunEnds
      PROVE  WorkerSaves
  BY <1>7 DEF Poll, PollRetries, PollFails, RunEnds, BeginAttempt, HandleFails, Return, Outside,
     WorkerSaves
<1> QED
  BY <1>1, <1>2, <1>3, <1>4, <1>5, <1>6, <1>7 DEF Worker, Attempt, Operation

\* The settings of a device stay or are saved anew, and a session's connection
\* keeps its device.
StoreStep ==
  /\ stored' \in [Devices -> Settings] /\ generation' \in Nat /\ generation <= generation'
  /\ \A d \in Devices : stored'[d] # stored[d] => Count(stored'[d].rev) = Count(stored[d].rev) + 1
  /\ generation' = generation /\ target.serial # NoSerial => target'.serial = target.serial

\* The sums of CountOK.
LEMMA Sums ==
  /\ \A c, len, s, s1, m, m1, k \in Nat :
       c + len + s <= m + k /\ s1 + 1 + m <= s + m1 => c + 1 + len + s1 <= m1 + k
  /\ \A c, len, s, s1, m, m1, k \in Nat :
       c + len + s <= m + k /\ s1 + 1 + m <= s + m1 => c + len + s1 <= m1 + k
OBVIOUS

\* Room for one more save.
LEMMA Room ==
  \A c, len, s, s1, m, m1, k, mm, mk, r \in Nat :
    /\ c + len + s <= m + k /\ s1 + 1 + m <= s + m1
    /\ m1 <= mm /\ k <= mk /\ mm + mk < r
    => c < r - 1
OBVIOUS

\* One more save of one device, counted by a mishap or a command that is done.
LEMMA CountOne ==
  ASSUME FewSaves, Inv, CountOK, NEW d \in Devices, NEW v \in Values,
         stored' = [stored EXCEPT ![d] = [rev |-> Next16(@.rev), val |-> v]],
         UNCHANGED <<commands, clicks>>, mishaps' \in Nat, mishaps' <= MaxMishaps,
         Saving' + 1 + mishaps <= Saving + mishaps'
  PROVE  /\ CountOK'
         /\ \A e \in Devices : stored'[e] # stored[e] => Count(stored'[e].rev) = Count(stored[e].rev) + 1
<1>0. stored \in [Devices -> Settings]
  BY DEF Inv, TypeOK, WorkerTypeOK
<1>1. /\ Len(commands) \in Nat /\ mishaps \in Nat
      /\ clicks \in Nat /\ clicks <= MaxClicks /\ Saving \in Nat /\ Saving' \in Nat
      /\ MaxMishaps \in Nat /\ MaxClicks \in Nat /\ Revisions \in Nat
  BY WorkerAssumption, WindowAssumption, LenProperties DEF Inv, TypeOK, WorkerTypeOK, Saving
<1>2. PICK r \in 0..Revisions - 1 : stored[d].rev = r
  BY <1>0 DEF Settings
<1>3. Count(r) \in Nat
  BY CountType
<1>4. Count(r) + Len(commands) + Saving <= mishaps + clicks
  BY <1>2 DEF CountOK
<1>5. Count(r) < Revisions - 1
  <2>1. MaxMishaps + MaxClicks < Revisions
    BY DEF FewSaves
  <2> QED
    BY <1>1, <1>3, <1>4, <2>1, Room
<1>6. Count(Next16(r)) = Count(r) + 1
  BY <1>5, CountNext
<1>7. stored'[d].rev = Next16(r) /\ \A e \in Devices : e # d => stored'[e] = stored[e]
  BY <1>0, <1>2
<1>8. ASSUME NEW e \in Devices
      PROVE  /\ Count(stored'[e].rev) + Len(commands) + Saving' <= mishaps' + clicks
             /\ stored'[e] # stored[e] => Count(stored'[e].rev) = Count(stored[e].rev) + 1
  <2>1. CASE e = d
    <3>1. Count(r) + 1 + Len(commands) + Saving' <= mishaps' + clicks
      BY <1>1, <1>3, <1>4, Sums
    <3>2. Count(stored'[e].rev) = Count(r) + 1 /\ Count(stored[e].rev) = Count(r)
      BY <1>2, <1>6, <1>7, <2>1
    <3> QED
      BY <3>1, <3>2
  <2>2. CASE e # d
    <3>1. PICK q \in 0..Revisions - 1 : stored[e].rev = q
      BY <1>0 DEF Settings
    <3>2. Count(q) \in Nat /\ Count(q) + Len(commands) + Saving <= mishaps + clicks
      BY <3>1, CountType DEF CountOK
    <3>3. stored'[e] = stored[e]
      BY <1>7, <2>2
    <3>4. Count(q) + Len(commands) + Saving' <= mishaps' + clicks
      BY <1>1, <3>2, Sums
    <3> QED
      BY <3>1, <3>3, <3>4
  <2> QED
    BY <2>1, <2>2
<1> QED
  BY <1>8 DEF CountOK

\* A step that saves nothing.
LEMMA CountNone ==
  ASSUME Inv, CountOK, UNCHANGED stored, NEW c \in Nat, Len(commands') = c, mishaps' \in Nat,
         mishaps' <= MaxMishaps, clicks' \in Nat,
         c + Saving' + mishaps + clicks <= Len(commands) + Saving + mishaps' + clicks'
  PROVE  CountOK'
<1>0. stored \in [Devices -> Settings]
  BY DEF Inv, TypeOK, WorkerTypeOK
<1>1. /\ Len(commands) \in Nat /\ mishaps \in Nat
      /\ clicks \in Nat /\ Saving \in Nat /\ Saving' \in Nat
  BY LenProperties DEF Inv, TypeOK, WorkerTypeOK, Saving
<1>2. ASSUME NEW e \in Devices
      PROVE  Count(stored[e].rev) + c + Saving' <= mishaps' + clicks'
  <2>1. PICK q \in 0..Revisions - 1 : stored[e].rev = q
    BY <1>0 DEF Settings
  <2>2. Count(q) \in Nat /\ Count(q) + Len(commands) + Saving <= mishaps + clicks
    BY <2>1, CountType DEF CountOK
  <2>3. \A r, n, s, s1, m, m1, k, k1 \in Nat :
          r + n + s <= m + k /\ c + s1 + m + k <= n + s + m1 + k1 => r + c + s1 <= m1 + k1
    OBVIOUS
  <2>5. PICK r \in Nat, n \in Nat, s \in Nat, s1 \in Nat :
          r = Count(q) /\ n = Len(commands) /\ s = Saving /\ s1 = Saving'
    BY <1>1, <2>2
  <2>6. PICK m \in Nat, m1 \in Nat, k \in Nat, k1 \in Nat :
          m = mishaps /\ m1 = mishaps' /\ k = clicks /\ k1 = clicks'
    BY <1>1
  <2>7. r + n + s <= m + k /\ c + s1 + m + k <= n + s + m1 + k1
    BY <2>2, <2>5, <2>6
  <2>8. r + c + s1 <= m1 + k1
    BY <2>3, <2>7
  <2>4. Count(q) + c + Saving' <= mishaps' + clicks'
    BY <2>5, <2>6, <2>8
  <2> QED
    BY <2>1, <2>4
<1> QED
  BY <1>2 DEF CountOK

LEMMA CountStep ==
  ASSUME FewSaves, Inv, TargetOK, CountOK, [Next]_vars
  PROVE  CountOK' /\ StoreStep
<1>0. /\ Len(commands) \in Nat /\ Saving \in Nat /\ Saving' \in Nat /\ mishaps \in Nat
      /\ clicks \in Nat /\ MaxMishaps \in Nat /\ mishaps <= MaxMishaps /\ generation \in Nat
  BY WorkerAssumption, LenProperties DEF Inv, TypeOK, WorkerTypeOK, Saving, CountOK
<1>12. /\ commands \in Seq(CommandTypes) /\ stored \in [Devices -> Settings]
      /\ session \in Devices \cup {None}
  BY DEF Inv, TypeOK, WorkerTypeOK
<1>1. Inv'
  BY StepInv
<1>2. ASSUME NEW n \in {mishaps, mishaps + 1}, mishaps' = n, n = mishaps \/ mishaps < MaxMishaps
      PROVE  mishaps' \in Nat /\ mishaps' <= MaxMishaps /\ mishaps <= mishaps'
  BY <1>0, <1>2
<1>3. UNCHANGED mishaps \/ Mishap =>
        mishaps' \in Nat /\ mishaps' <= MaxMishaps /\ mishaps <= mishaps'
  BY <1>2 DEF Mishap
<1>4. /\ generation' \in Nat /\ generation <= generation'
      /\ generation' = generation /\ target.serial # NoSerial => target'.serial = target.serial
  <2>1. CASE Select \/ DoConnect \/ DoDisconnect
    <3>1. generation' = generation \/ generation' = generation + 1
      BY <2>1 DEF Select, DoConnect, DoDisconnect
    <3>2. generation' \in Nat /\ generation <= generation' /\ generation + 1 # generation
      BY <1>0, <3>1
    <3>3. generation' = generation /\ target.serial # NoSerial => target'.serial = target.serial
      BY <2>1, <3>2 DEF Select, DoConnect, DoDisconnect, Adopt
    <3> QED
      BY <3>2, <3>3
  <2>3. CASE Worker /\ ~Select /\ ~DoConnect /\ ~DoDisconnect
    <3>1. UNCHANGED <<generation, target>>
      BY <2>3 DEF Worker, Attempt, SelectFails, SelectAmbiguous, OpenFails, Open, ReadCancelled, Read,
         Status, AttemptFails, AttemptMismatch, Publish, Command, DoScan, Refuse, BeginRead, BeginMacro,
         BeginApply, Operation, Reread, SaveChecks, SaveConflicts, SaveSends, SendFails, SaveVerified,
         SaveUnverified, CommandFails, CommandMismatch, MacroEnds, MacroFails, Poll, PollRetries,
         PollFails, RunEnds, TransportFailed, Fatal, linkVars
    <3> QED
      BY <1>0, <3>1
  <2>4. CASE ~Worker
    <3>1. UNCHANGED <<generation, target>>
      BY <2>4 DEF Next, World, Move, Rival, User, Scan, Connect, Disconnect, ReadDevice, Apply, Edit,
         RequestMacro, StopMacro, Close, Request, Send, Signal, OnDevices, OnConnection, OnSettings,
         OnProblem, OnMacro, Handle, vars, workerVars, linkVars
    <3> QED
      BY <1>0, <3>1
  <2> QED
    BY <2>1, <2>3, <2>4
<1>5. stored' \in [Devices -> Settings]
  BY <1>1 DEF Inv, TypeOK, WorkerTypeOK
<1>6. ASSUME UNCHANGED stored
      PROVE  StoreStep
  BY <1>4, <1>5, <1>6 DEF StoreStep
<1>7. CASE Worker /\ UNCHANGED userVars
  <2>1. WorkerSaves /\ clicks' = clicks
    BY <1>7, WorkerSaving DEF userVars
  <2>2. mishaps' \in Nat /\ mishaps' <= MaxMishaps /\ mishaps <= mishaps'
    BY <1>3, <2>1 DEF WorkerSaves
  <2>3. CASE UNCHANGED stored
    <3>1. Len(commands') \in Nat /\ Len(commands') + Saving' <= Len(commands) + Saving
      <4>1. CASE UNCHANGED commands /\ (at' \in {"check", "write"} => at \in {"check", "write"})
        BY <1>0, <4>1 DEF Saving
      <4>2. CASE commands # <<>> /\ commands' = Tail(commands)
        <5>1. Len(commands') = Len(commands) - 1 /\ Len(commands) >= 1
          BY <1>12, <4>2, HeadTailProperties
        <5>2. Saving' \in {0, 1}
          BY DEF Saving
        <5> QED
          BY <1>0, <5>1, <5>2
      <4> QED
        BY <2>1, <4>1, <4>2 DEF WorkerSaves
    <3>2. Len(commands') + Saving' + mishaps + clicks <= Len(commands) + Saving + mishaps' + clicks'
      <4>1. Saving' \in Nat
        BY DEF Saving
      <4> QED
        BY <1>0, <2>1, <2>2, <3>1, <4>1
    <3> QED
      BY <1>0, <1>6, <2>1, <2>2, <2>3, <3>1, <3>2, CountNone
  <2>4. CASE ~UNCHANGED stored
    <3>1. at = "write" /\ at' \notin {"check", "write"} /\ UNCHANGED commands /\ DeviceApplies
      BY <2>1, <2>4 DEF WorkerSaves
    <3>2. session \in Devices /\ pendingSave.val \in Values
      BY <1>12, <3>1 DEF Inv, WorkerOK, Saves
    <3>3. Saving = 1 /\ Saving' = 0
      BY <3>1 DEF Saving
    <3>4. Saving' + 1 + mishaps <= Saving + mishaps'
      <4>1. \A m, m1 \in Nat : m <= m1 => 0 + 1 + m <= 1 + m1
        OBVIOUS
      <4> QED
        BY <1>0, <2>2, <3>3, <4>1
    <3>5. stored' = [stored EXCEPT ![session] = [rev |-> Next16(@.rev), val |-> pendingSave.val]]
      BY <3>1 DEF DeviceApplies
    <3> QED
      BY <1>4, <1>5, <2>1, <2>2, <3>1, <3>2, <3>4, <3>5, CountOne DEF StoreStep
  <2> QED
    BY <2>3, <2>4
<1>8. CASE Move /\ UNCHANGED userVars
  <2>1. UNCHANGED <<stored, commands, at, clicks>> /\ Mishap
    BY <1>8 DEF Move, queueVars, userVars
  <2>2. Saving' = Saving
    BY <2>1 DEF Saving
  <2>3. mishaps' \in Nat /\ mishaps' <= MaxMishaps /\ mishaps <= mishaps'
    BY <1>3, <2>1
  <2>4. Len(commands) + Saving' + mishaps + clicks <= Len(commands) + Saving + mishaps' + clicks'
    BY <1>0, <2>1, <2>2, <2>3
  <2> QED
    BY <1>0, <1>6, <2>1, <2>3, <2>4, CountNone
<1>9. CASE Rival /\ UNCHANGED userVars
  <2>1. PICK d \in Devices, v \in Values :
          stored' = [stored EXCEPT ![d] = [rev |-> Next16(@.rev), val |-> v]]
    BY <1>9 DEF Rival, Listed
  <2>2. UNCHANGED <<commands, at, clicks>> /\ Mishap
    BY <1>9 DEF Rival, queueVars, userVars
  <2>3. Saving' = Saving /\ mishaps' = mishaps + 1
    BY <2>2 DEF Saving, Mishap
  <2>4. Saving' + 1 + mishaps <= Saving + mishaps'
    BY <1>0, <2>3
  <2>5. mishaps' \in Nat /\ mishaps' <= MaxMishaps
    BY <1>3, <2>2
  <2> QED
    BY <1>4, <1>5, <2>1, <2>2, <2>4, <2>5, CountOne DEF StoreStep
<1>10. CASE User
  <2>1. UNCHANGED <<stored, mishaps, at>>
    BY <1>10 DEF User, Scan, Connect, Disconnect, ReadDevice, Apply, Edit, RequestMacro, StopMacro, Close,
       Request, Send, workerVars, deviceVars
  <2>2. Saving' = Saving
    BY <2>1 DEF Saving
  <2>3. Len(commands') \in Nat /\ clicks' \in Nat /\ Len(commands') + clicks <= Len(commands) + clicks'
    <3>1. CASE UNCHANGED <<commands, clicks>>
      BY <1>0, <3>1
    <3>2. ASSUME NEW cmd, NEW arg, Send(cmd, arg)
          PROVE  Len(commands') \in Nat /\ clicks' \in Nat
                 /\ Len(commands') + clicks <= Len(commands) + clicks'
      <4>1. Len(commands') = Len(commands) + 1 /\ clicks' = clicks + 1
        <5> DEFINE c == [cmd |-> cmd, arg |-> arg]
        <5>1. Len(Append(commands, c)) = Len(commands) + 1
          BY <1>12
        <5> QED
          BY <3>2, <5>1 DEF Send
      <4> QED
        BY <1>0, <4>1
    <3> QED
      BY <1>10, <3>1, <3>2 DEF User, Scan, Connect, Disconnect, ReadDevice, Apply, Edit, RequestMacro,
         StopMacro, Close, Request, workerVars, queueVars, userVars
  <2>4. Len(commands') + Saving' + mishaps + clicks <= Len(commands) + Saving + mishaps' + clicks'
    BY <1>0, <2>1, <2>2, <2>3
  <2>5. mishaps' \in Nat /\ mishaps' <= MaxMishaps
    BY <1>0, <2>1
  <2> QED
    BY <1>6, <2>1, <2>3, <2>4, <2>5, CountNone
<1>11. CASE Signal \/ UNCHANGED vars
  <2>1. UNCHANGED <<stored, mishaps, at, commands, clicks>>
    BY <1>11 DEF Signal, OnDevices, OnConnection, OnSettings, OnProblem, OnMacro, Handle, vars,
       workerVars, deviceVars, queueVars, userVars
  <2>2. CountOK'
    BY <2>1 DEF CountOK, Saving
  <2> QED
    BY <1>6, <2>1, <2>2
<1> QED
  BY <1>7, <1>8, <1>9, <1>10, <1>11 DEF Next, World

-----------------------------------------------------------------------------
(* The window knows of each connection before its settings come.           *)

\* The signals that do not make the window forget the settings it shows.
Follows(e) == e.kind = "settings" \/ (e.kind = "connection" /\ e.state = "ready")

Announces(e, g) == e.kind = "connection" /\ e.gen = g

\* A window that shows connection s knows of connection g: it shows it, or it is
\* leaving (l) and has dropped what announced it.
Known(g, q, s, l) ==
  s = g \/ (l /\ \A i \in DOMAIN q : HasGen(q[i]) => g <= q[i].gen)

\* It does, or will when it has handled the signals in q before the n-th.
Heard(n, g, q, s, l) ==
  Known(g, q, s, l) \/ \E j \in DOMAIN q : j < n /\ Announces(q[j], g)

AllHeard(q, s, l) ==
  \A i \in DOMAIN q : Follows(q[i]) => Heard(i, q[i].gen, q, s, l)

AnnouncedOK ==
  /\ AllHeard(events, shown, leaving)
  /\ session # None \/ at \notin {"idle", "stopped"} =>
       Heard(Len(events) + 1, generation, events, shown, leaving)

\* A signal that joins the others.
LEMMA HeardJoin ==
  ASSUME NEW q \in Seq(EventTypes), NEW e \in EventTypes, NEW s \in Nat, NEW l \in BOOLEAN,
         NEW g \in Nat, NEW n \in Int, HasGen(e) => g <= e.gen, Heard(n, g, q, s, l)
  PROVE  Heard(n, g, Append(q, e), s, l)
<1> DEFINE r == Append(q, e)
<1>1. /\ Len(q) \in Nat /\ DOMAIN q = 1..Len(q) /\ DOMAIN r = 1..Len(q) + 1
      /\ \A i \in 1..Len(q) : r[i] = q[i]
      /\ r[Len(q) + 1] = e
  BY AppendProperties
<1> HIDE DEF r
<1>2. \A i : i \in DOMAIN r <=> i \in DOMAIN q \/ i = Len(q) + 1
  BY <1>1
<1>3. CASE Known(g, q, s, l)
  BY <1>1, <1>2, <1>3 DEF Heard, Known, r
<1>4. CASE \E j \in DOMAIN q : j < n /\ Announces(q[j], g)
  BY <1>1, <1>2, <1>4 DEF Heard, r
<1> QED
  BY <1>3, <1>4 DEF Heard

\* A signal of connection h, the present one, joins the others.
LEMMA AnnounceJoin ==
  ASSUME NEW q \in Seq(EventTypes), NEW e \in EventTypes, NEW s \in Nat, NEW l \in BOOLEAN,
         NEW g \in Nat, NEW h \in Nat, g <= h, GenFits(q, s, g), HasGen(e) => e.gen = h,
         AllHeard(q, s, l), Follows(e) => Heard(Len(q) + 1, h, q, s, l)
  PROVE  /\ AllHeard(Append(q, e), s, l)
         /\ Heard(Len(q) + 1, h, q, s, l) \/ Announces(e, h) =>
              Heard(Len(Append(q, e)) + 1, h, Append(q, e), s, l)
<1> DEFINE r == Append(q, e)
<1>1. /\ Len(q) \in Nat /\ DOMAIN q = 1..Len(q) /\ DOMAIN r = 1..Len(q) + 1 /\ Len(r) = Len(q) + 1
      /\ \A i \in 1..Len(q) : r[i] = q[i] /\ q[i] \in EventTypes
      /\ r[Len(q) + 1] = e
  BY AppendProperties, ElementOfSeq
<1>2. ASSUME NEW i \in DOMAIN r, Follows(r[i])
      PROVE  Heard(i, r[i].gen, r, s, l)
  <2>1. CASE i = Len(q) + 1
    <3>1. e.gen = h /\ r[i] = e /\ Heard(Len(q) + 1, h, q, s, l)
      BY <1>1, <1>2, <2>1 DEF Follows, HasGen
    <3>2. Heard(Len(q) + 1, h, r, s, l)
      BY <1>1, <3>1, HeardJoin
    <3> QED
      BY <2>1, <3>1, <3>2
  <2>2. CASE i # Len(q) + 1
    <3>1. i \in DOMAIN q /\ r[i] = q[i] /\ q[i] \in EventTypes /\ i \in Int
      BY <1>1, <2>2
    <3>2. HasGen(q[i]) /\ Heard(i, q[i].gen, q, s, l)
      BY <1>2, <3>1 DEF Follows, HasGen, AllHeard
    <3>3. q[i].gen \in Nat /\ q[i].gen <= g
      BY <3>1, <3>2, GenType DEF GenFits
    <3>4. HasGen(e) => q[i].gen <= e.gen
      BY <3>3
    <3>5. Heard(i, q[i].gen, r, s, l)
      BY <3>1, <3>2, <3>3, <3>4, HeardJoin
    <3> QED
      BY <3>1, <3>5
  <2> QED
    BY <2>1, <2>2
<1>3. ASSUME Heard(Len(q) + 1, h, q, s, l)
      PROVE  Heard(Len(r) + 1, h, r, s, l)
  <2>1. Heard(Len(q) + 1, h, r, s, l)
    BY <1>1, <1>3, HeardJoin
  <2>2. \A j \in DOMAIN r : j < Len(q) + 1 => j < Len(r) + 1
    BY <1>1
  <2> QED
    BY <2>1, <2>2 DEF Heard
<1>4. ASSUME Announces(e, h)
      PROVE  Heard(Len(r) + 1, h, r, s, l)
  <2>1. Len(q) + 1 \in DOMAIN r /\ Len(q) + 1 < Len(r) + 1
    BY <1>1
  <2> QED
    BY <1>1, <1>4, <2>1 DEF Heard
<1> QED
  BY <1>2, <1>3, <1>4 DEF AllHeard

\* The window handles the first signal, or drops it.
LEMMA HeardTake ==
  ASSUME NEW q \in Seq(EventTypes), q # <<>>, NEW s \in Nat, NEW l \in BOOLEAN, NEW g \in Nat,
         GenFits(q, s, g), NEW n \in 2..Len(q) + 1, NEW x \in Nat, Heard(n, x, q, s, l),
         HasGen(Head(q)) => Head(q).gen <= x, NEW s1, NEW l1,
         \/ s1 = s /\ l1 = l /\ (l \/ Head(q).kind # "connection")
         \/ s1 = Head(q).gen /\ Head(q).kind = "connection"
  PROVE  Heard(n - 1, x, Tail(q), s1, l1)
<1> DEFINE r == Tail(q)
           h == Head(q)
<1>1. /\ Len(q) \in Nat /\ Len(q) >= 1 /\ DOMAIN q = 1..Len(q) /\ DOMAIN r = 1..Len(q) - 1
      /\ q[1] = h /\ h \in EventTypes
      /\ \A i \in 1..Len(q) - 1 : r[i] = q[i + 1]
  BY HeadTailProperties
<1> HIDE DEF r, h
<1>2. \A i \in DOMAIN r : i + 1 \in DOMAIN q /\ r[i] = q[i + 1]
  BY <1>1
<1>3. 1 \in DOMAIN q
  BY <1>1
<1>4. HasGen(h) => h.gen \in Nat
  BY <1>1, GenType
<1>5. CASE Known(x, q, s, l)
  <2>1. CASE s1 = s /\ l1 = l
    <3>1. Known(x, r, s1, l1)
      BY <1>2, <1>5, <2>1 DEF Known
    <3> QED
      BY <3>1 DEF Heard, r
  <2>2. CASE s1 = h.gen /\ h.kind = "connection"
    <3>1. HasGen(h) /\ h.gen <= x
      BY <2>2 DEF HasGen, h
    <3>2. x <= h.gen
      <4>1. CASE s = x
        BY <1>1, <1>3, <3>1, <4>1 DEF GenFits
      <4>2. CASE s # x
        BY <1>1, <1>3, <1>5, <3>1, <4>2 DEF Known
      <4> QED
        BY <4>1, <4>2
    <3>3. s1 = x
      BY <1>4, <2>2, <3>1, <3>2
    <3> QED
      BY <3>3 DEF Heard, Known
  <2> QED
    BY <2>1, <2>2 DEF h
<1>6. ASSUME NEW j \in DOMAIN q, j < n, Announces(q[j], x)
      PROVE  Heard(n - 1, x, r, s1, l1)
  <2>1. CASE j = 1
    <3>1. h.kind = "connection" /\ h.gen = x
      BY <1>1, <1>6, <2>1 DEF Announces
    <3>2. CASE s1 = h.gen
      BY <3>1, <3>2 DEF Heard, Known
    <3>3. CASE s1 = s /\ l1 = l /\ l
      <4>1. ASSUME NEW i \in DOMAIN r, HasGen(r[i])
            PROVE  x <= r[i].gen
        <5>1. 1 <= i + 1 /\ i + 1 \in DOMAIN q /\ r[i] = q[i + 1]
          BY <1>1, <1>2
        <5> QED
          BY <1>1, <1>3, <3>1, <4>1, <5>1 DEF GenFits, HasGen
      <4> QED
        BY <3>3, <4>1 DEF Heard, Known
    <3> QED
      BY <3>1, <3>2, <3>3 DEF h
  <2>2. CASE j # 1
    <3>1. j - 1 \in DOMAIN r /\ r[j - 1] = q[j] /\ j - 1 < n - 1
      BY <1>1, <1>6, <2>2
    <3> QED
      BY <1>6, <3>1 DEF Heard
  <2> QED
    BY <2>1, <2>2
<1> QED
  BY <1>5, <1>6 DEF Heard, r

LEMMA AnnouncedWorker ==
  ASSUME Inv, Inv', GenOK, AnnouncedOK, Worker, UNCHANGED <<shown, leaving>>
  PROVE  AnnouncedOK'
<1>1. /\ events \in Seq(EventTypes) /\ shown \in Nat /\ leaving \in BOOLEAN /\ generation \in Nat
      /\ generation + 1 \in Nat /\ generation <= generation /\ generation <= generation + 1
      /\ GenFits(events, shown, generation) /\ AllHeard(events, shown, leaving)
  BY DEF Inv, TypeOK, WorkerTypeOK, GenOK, AnnouncedOK
<1> DEFINE Now == Heard(Len(events) + 1, generation, events, shown, leaving)
           Then == session' # None \/ at' \notin {"idle", "stopped"}
<1>2. session # None \/ at \notin {"idle", "stopped"} => Now
  BY DEF AnnouncedOK
<1>3. ASSUME UNCHANGED events, Then => Now /\ UNCHANGED generation
      PROVE  AnnouncedOK'
  <2>1. AllHeard(events', shown', leaving')
    BY <1>1, <1>3
  <2>2. Then => Heard(Len(events') + 1, generation', events', shown', leaving')
    BY <1>3
  <2> QED
    BY <2>1, <2>2 DEF AnnouncedOK
<1>4. ASSUME NEW e \in EventTypes, Says(e), HasGen(e) => e.gen = generation', Follows(e) => Now,
             generation' \in {generation, generation + 1}, Follows(e) => UNCHANGED generation,
             Then => Announces(e, generation') \/ (Now /\ UNCHANGED generation)
      PROVE  AnnouncedOK'
  <2> DEFINE r == Append(events, e)
  <2>1. CASE UNCHANGED generation
    <3>1. /\ AllHeard(r, shown, leaving)
          /\ Now \/ Announces(e, generation) => Heard(Len(r) + 1, generation, r, shown, leaving)
      BY <1>1, <1>4, <2>1, AnnounceJoin
    <3>2. AllHeard(events', shown', leaving')
      BY <1>4, <3>1 DEF Says
    <3>3. Then => Heard(Len(events') + 1, generation', events', shown', leaving')
      BY <1>4, <2>1, <3>1 DEF Says
    <3> QED
      BY <3>2, <3>3 DEF AnnouncedOK
  <2>2. CASE generation' = generation + 1 /\ generation' # generation
    <3>1. /\ AllHeard(r, shown, leaving)
          /\ Announces(e, generation + 1) => Heard(Len(r) + 1, generation + 1, r, shown, leaving)
      BY <1>1, <1>4, <2>2, AnnounceJoin
    <3>2. AllHeard(events', shown', leaving')
      BY <1>4, <3>1 DEF Says
    <3>3. Then => Heard(Len(events') + 1, generation', events', shown', leaving')
      BY <1>4, <2>2, <3>1 DEF Says
    <3> QED
      BY <3>2, <3>3 DEF AnnouncedOK
  <2> QED
    BY <1>4, <2>1, <2>2
<1>5. ASSUME NEW d \in EventTypes, NEW e \in EventTypes, SaysBoth(d, e), UNCHANGED generation,
             HasGen(d) => d.gen = generation, HasGen(e) => e.gen = generation,
             Follows(d) \/ Follows(e) => Now, ~Then
      PROVE  AnnouncedOK'
  <2> DEFINE q == Append(events, d)
  <2>1. /\ AllHeard(q, shown, leaving)
        /\ Now => Heard(Len(q) + 1, generation, q, shown, leaving)
    BY <1>1, <1>5, AnnounceJoin
  <2>2. q \in Seq(EventTypes) /\ GenFits(q, shown, generation)
    BY <1>1, <1>5, GenJoin, AppendProperties
  <2> HIDE DEF q
  <2>3. AllHeard(Append(q, e), shown, leaving)
    BY <1>1, <1>5, <2>1, <2>2, AnnounceJoin
  <2>4. AllHeard(events', shown', leaving')
    BY <1>5, <2>3 DEF SaysBoth, q
  <2> QED
    BY <1>5, <2>4 DEF AnnouncedOK
<1> HIDE DEF Now
<1>6. CASE LostStep
  <2>1. PICK e : /\ Plain(e, "retry_wait", generation)
                 /\ Says(e) \/ \E d : IsMacro(d) /\ SaysBoth(d, e)
    BY <1>6 DEF LostStep
  <2>2. ~Then /\ UNCHANGED generation
    BY <1>6 DEF LostStep
  <2>3. e \in EventTypes /\ ~Follows(e) /\ (HasGen(e) => e.gen = generation)
    BY <2>1 DEF Plain, Follows
  <2>4. \A d : IsMacro(d) => d \in EventTypes /\ ~Follows(d) /\ ~HasGen(d)
    BY DEF IsMacro, Follows, HasGen
  <2> QED
    BY <1>4, <1>5, <2>1, <2>2, <2>3, <2>4
<1>7. CASE ReadyStep
  <2>1. ~UNCHANGED at /\ Now /\ UNCHANGED generation
    BY <1>2, <1>7 DEF ReadyStep, Ends
  <2>2. PICK d, e : /\ d \in EventTypes /\ d.gen = generation
                    /\ e \in EventTypes /\ e.gen = generation /\ SaysBoth(d, e)
    BY <1>7 DEF ReadyStep
  <2> DEFINE q == Append(events, d)
  <2>3. q \in Seq(EventTypes) /\ GenFits(q, shown, generation)
    BY <1>1, <2>2, GenJoin, AppendProperties
  <2>4. AllHeard(q, shown, leaving) /\ Heard(Len(q) + 1, generation, q, shown, leaving)
    BY <1>1, <2>1, <2>2, AnnounceJoin DEF Now
  <2> HIDE DEF q
  <2>5. /\ AllHeard(Append(q, e), shown, leaving)
        /\ Heard(Len(Append(q, e)) + 1, generation, Append(q, e), shown, leaving)
    BY <1>1, <2>2, <2>3, <2>4, AnnounceJoin
  <2>6. events' = Append(q, e)
    BY <2>2 DEF SaysBoth, q
  <2>7. AllHeard(events', shown', leaving')
    BY <2>5, <2>6
  <2>8. Heard(Len(events') + 1, generation', events', shown', leaving')
    BY <2>1, <2>5, <2>6
  <2> QED
    BY <2>7, <2>8 DEF AnnouncedOK
<1>8. CASE GivenUpStep
  <2>1. ~Then /\ UNCHANGED generation
    BY <1>8 DEF GivenUpStep, Ends
  <2>2. \A d : IsMacro(d) => d \in EventTypes /\ ~Follows(d) /\ ~HasGen(d)
    BY DEF IsMacro, Follows, HasGen
  <2> QED
    BY <1>3, <1>4, <1>8, <2>1, <2>2 DEF GivenUpStep
<1>9. CASE FatalStep \/ DisconnectStep
  <2>1. ~Then /\ generation' \in {generation, generation + 1}
    BY <1>9 DEF FatalStep, DisconnectStep, Ends
  <2>2. PICK e \in EventTypes : e.gen = generation' /\ ~Follows(e) /\ Says(e)
    BY <1>9 DEF FatalStep, DisconnectStep, Ends, Plain, Follows
  <2> QED
    BY <1>4, <2>1, <2>2
<1>10. CASE OpenStep \/ RetryStep
  <2>1. PICK e \in EventTypes : Announces(e, generation) /\ ~Follows(e) /\ Says(e)
    BY <1>10 DEF OpenStep, RetryStep, Plain, Follows, Announces
  <2>2. UNCHANGED generation
    BY <1>10 DEF OpenStep, RetryStep
  <2> QED
    BY <1>4, <2>1, <2>2 DEF Announces
<1>11. CASE ConnectStep
  <2>1. generation' = generation + 1 /\ session' = None
    BY <1>11 DEF ConnectStep
  <2>2. CASE at' = "idle" /\ UNCHANGED events
    BY <1>3, <2>1, <2>2
  <2>3. CASE ~(at' = "idle" /\ UNCHANGED events)
    <3>1. PICK e \in EventTypes : Announces(e, generation + 1) /\ ~Follows(e) /\ Says(e)
      BY <1>11, <2>3 DEF ConnectStep, Plain, Follows, Announces
    <3> QED
      BY <1>4, <2>1, <3>1 DEF Announces
  <2> QED
    BY <2>2, <2>3
<1>12. CASE InnerStep \/ BeginStep
  BY <1>2, <1>3, <1>12 DEF InnerStep, BeginStep
<1>13. CASE StoppedStep
  BY <1>3, <1>13 DEF StoppedStep
<1>14. CASE AnswerStep
  <2>1. Now /\ UNCHANGED generation
    BY <1>2, <1>14 DEF AnswerStep, Ends
  <2>2. CASE UNCHANGED events
    BY <1>3, <2>1, <2>2
  <2>3. CASE ~UNCHANGED events
    <3>1. PICK e : Reply(e) /\ Says(e)
      BY <1>14, <2>3 DEF AnswerStep
    <3>2. e \in EventTypes /\ (HasGen(e) => e.gen = generation)
      BY <3>1 DEF Reply, HasGen
    <3> QED
      BY <1>4, <2>1, <3>1, <3>2
  <2> QED
    BY <2>2, <2>3
<1>15. CASE ReplyStep
  <2>1. PICK e : Bare(e) /\ Says(e)
    BY <1>15 DEF ReplyStep
  <2>2. e \in EventTypes /\ ~HasGen(e) /\ ~Follows(e)
    BY <2>1 DEF Bare, Reply, HasGen, Follows
  <2>3. UNCHANGED generation /\ (Then => Now)
    BY <1>2, <1>15 DEF ReplyStep
  <2> QED
    BY <1>4, <2>1, <2>2, <2>3
<1> QED
  BY <1>6, <1>7, <1>8, <1>9, <1>10, <1>11, <1>12, <1>13, <1>14, <1>15, WorkerKinds

\* The window handles what it knows of.
LEMMA AnnouncedSignal ==
  ASSUME Inv, GenOK, AnnouncedOK, Signal
  PROVE  AnnouncedOK'
<1>1. /\ events \in Seq(EventTypes) /\ shown \in Nat /\ leaving \in BOOLEAN /\ generation \in Nat
      /\ GenFits(events, shown, generation) /\ AllHeard(events, shown, leaving)
  BY DEF Inv, TypeOK, WorkerTypeOK, GenOK, AnnouncedOK
<1>2. events # <<>> /\ events' = Tail(events) /\ UNCHANGED <<generation, session, at>>
  BY DEF Signal, OnDevices, OnConnection, OnSettings, OnProblem, OnMacro, Handle, linkVars, handleVars
<1>3. \/ shown' = shown /\ leaving' = leaving /\ (leaving \/ Head(events).kind # "connection")
      \/ shown' = Head(events).gen /\ Head(events).kind = "connection"
  <2>1. CASE OnConnection
    <3>1. Outdated(Head(events)) => leaving
      BY <2>1, GenSignal DEF Outdated
    <3> QED
      BY <2>1, <3>1 DEF OnConnection, Handle, windowVars
  <2>2. CASE OnDevices \/ OnSettings \/ OnProblem \/ OnMacro
    BY <2>2 DEF OnDevices, OnSettings, OnProblem, OnMacro, Handle, windowVars
  <2> QED
    BY <2>1, <2>2 DEF Signal
<1> DEFINE q == events
           r == Tail(events)
<1>4. /\ Len(q) \in Nat /\ Len(q) >= 1 /\ DOMAIN q = 1..Len(q) /\ DOMAIN r = 1..Len(q) - 1
      /\ Len(r) = Len(q) - 1 /\ q[1] = Head(q)
      /\ \A i \in 1..Len(q) - 1 : r[i] = q[i + 1]
  BY <1>1, <1>2, HeadTailProperties
<1>5. ASSUME NEW n \in 2..Len(q) + 1, NEW x \in Nat, Heard(n, x, q, shown, leaving),
             HasGen(Head(q)) => Head(q).gen <= x
      PROVE  Heard(n - 1, x, r, shown', leaving')
  BY <1>1, <1>2, <1>3, <1>5, HeardTake
<1>6. HasGen(Head(q)) => Head(q).gen <= generation
  BY <1>4, <1>1 DEF GenFits
<1>7. session # None \/ at \notin {"idle", "stopped"} =>
        Heard(Len(r) + 1, generation, r, shown', leaving')
  <2>1. Len(q) + 1 \in 2..Len(q) + 1 /\ Len(r) + 1 = (Len(q) + 1) - 1
    BY <1>4
  <2> QED
    BY <1>1, <1>5, <1>6, <2>1 DEF AnnouncedOK
<1>8. ASSUME NEW i \in DOMAIN r, Follows(r[i])
      PROVE  Heard(i, r[i].gen, r, shown', leaving')
  <2>1. /\ i + 1 \in DOMAIN q /\ r[i] = q[i + 1] /\ i + 1 \in 2..Len(q) + 1 /\ 1 \in DOMAIN q
        /\ 1 <= i + 1 /\ i = (i + 1) - 1
    BY <1>4
  <2>2. q[i + 1] \in EventTypes /\ HasGen(q[i + 1])
    BY <1>1, <1>4, <1>8, <2>1, ElementOfSeq DEF Follows, HasGen
  <2>3. q[i + 1].gen \in Nat
    BY <2>2, GenType
  <2>4. Heard(i + 1, q[i + 1].gen, q, shown, leaving)
    BY <1>1, <1>8, <2>1 DEF AllHeard
  <2>5. HasGen(Head(q)) => Head(q).gen <= q[i + 1].gen
    BY <1>1, <1>4, <2>1, <2>2 DEF GenFits
  <2> QED
    BY <1>5, <2>1, <2>3, <2>4, <2>5
<1>9. AllHeard(r, shown', leaving')
  BY <1>8 DEF AllHeard
<1>10. AllHeard(events', shown', leaving')
  BY <1>2, <1>9
<1>11. session' # None \/ at' \notin {"idle", "stopped"} =>
         Heard(Len(events') + 1, generation', events', shown', leaving')
  BY <1>2, <1>7
<1> QED
  BY <1>10, <1>11 DEF AnnouncedOK

\* The user may only leave.
LEMMA AnnouncedUser ==
  ASSUME Inv, WindowOK, AnnouncedOK, User
  PROVE  AnnouncedOK'
<1>1. UNCHANGED <<events, generation, shown, session, at>> /\ (leaving => leaving')
  <2>1. CASE Connect
    <3>1. ~leaving
      BY <2>1 DEF Connect, WindowOK, LeaveOK
    <3> QED
      BY <2>1, <3>1 DEF Connect, Request, Send, linkVars, handleVars
  <2>2. CASE ~Connect
    BY <2>2 DEF User, Scan, Disconnect, ReadDevice, Apply, Edit, RequestMacro, StopMacro,
       Close, Request, Send, windowVars, workerVars, queueVars, linkVars, handleVars
  <2> QED
    BY <2>1, <2>2
<1>2. \A n, g : Heard(n, g, events, shown, leaving) => Heard(n, g, events, shown, leaving')
  BY <1>1 DEF Heard, Known
<1>3. AllHeard(events, shown, leaving')
  BY <1>2 DEF AnnouncedOK, AllHeard
<1>4. AllHeard(events', shown', leaving')
  BY <1>1, <1>3
<1>5. session # None \/ at \notin {"idle", "stopped"} =>
        Heard(Len(events) + 1, generation, events, shown, leaving')
  BY <1>2 DEF AnnouncedOK
<1>6. session' # None \/ at' \notin {"idle", "stopped"} =>
        Heard(Len(events') + 1, generation', events', shown', leaving')
  BY <1>1, <1>5
<1> QED
  BY <1>4, <1>6 DEF AnnouncedOK

LEMMA AnnouncedStep ==
  ASSUME Inv, GenOK, WindowOK, AnnouncedOK, [Next]_vars
  PROVE  AnnouncedOK'
<1>1. Inv'
  BY StepInv
<1>2. CASE (World /\ UNCHANGED windowVars) \/ UNCHANGED vars
  <2>1. UNCHANGED <<events, generation, shown, session, at, leaving>>
    BY <1>2 DEF World, Move, Rival, windowVars, queueVars, linkVars, handleVars, vars, workerVars
  <2>2. AllHeard(events', shown', leaving')
    BY <2>1 DEF AnnouncedOK
  <2>3. session' # None \/ at' \notin {"idle", "stopped"} =>
          Heard(Len(events') + 1, generation', events', shown', leaving')
    BY <2>1 DEF AnnouncedOK
  <2> QED
    BY <2>2, <2>3 DEF AnnouncedOK
<1>3. CASE Worker /\ UNCHANGED windowVars
  BY <1>1, <1>3, AnnouncedWorker DEF windowVars
<1> QED
  BY <1>2, <1>3, AnnouncedSignal, AnnouncedUser DEF Next

-----------------------------------------------------------------------------
(* The settings a save replaces are those the user saw.                    *)

\* These settings are older than s, or the same.
Good(rev, val, s) ==
  Count(rev) <= Count(s.rev) /\ (rev = s.rev => val = s.val)

\* What was read in connection g of a device with this serial number.
Fresh(g, rev, val, now, serial, st) ==
  g = now => /\ serial # NoSerial
             /\ \A d \in Devices : Serial[d] = serial => Good(rev, val, st[d])

FreshSignal(e, now, serial, st) ==
  e.kind = "settings" => Fresh(e.gen, e.snap.rev, e.snap.val, now, serial, st)

FreshCommand(c, now, serial, st) ==
  c.cmd = "apply" =>
    c.arg.gen <= now /\ Fresh(c.arg.gen, c.arg.rev, c.arg.base, now, serial, st)

FreshEvents ==
  \A i \in DOMAIN events : FreshSignal(events[i], generation, target.serial, stored)

FreshCommands ==
  \A i \in DOMAIN commands : FreshCommand(commands[i], generation, target.serial, stored)

FreshWindow ==
  revision # None => Fresh(shown, revision, baseline, generation, target.serial, stored)

FreshSave ==
  at \in {"check", "write"} =>
    pendingSave.gen <= generation
    /\ Fresh(pendingSave.gen, pendingSave.rev, pendingSave.base, generation, target.serial, stored)

FreshRead ==
  at = "status" =>
    Fresh(generation, snapshot.rev, snapshot.val, generation, target.serial, stored)

FreshOK == FreshEvents /\ FreshCommands /\ FreshWindow /\ FreshSave /\ FreshRead

\* What was good stays so.
LEMMA FreshStays ==
  ASSUME Inv, StoreStep, NEW g \in Nat, g <= generation, NEW rev \in 0..Revisions - 1, NEW val,
         Fresh(g, rev, val, generation, target.serial, stored)
  PROVE  Fresh(g, rev, val, generation', target'.serial, stored')
<1>1. stored \in [Devices -> Settings] /\ generation \in Nat
  BY DEF Inv, TypeOK, WorkerTypeOK
<1>2. ASSUME g = generation'
      PROVE  /\ target'.serial # NoSerial
             /\ \A d \in Devices : Serial[d] = target'.serial => Good(rev, val, stored'[d])
  <2>1. g = generation /\ generation' = generation
    BY <1>1, <1>2 DEF StoreStep
  <2>2. target.serial # NoSerial /\ target'.serial = target.serial
    BY <2>1 DEF Fresh, StoreStep
  <2>3. ASSUME NEW d \in Devices, Good(rev, val, stored[d])
        PROVE  Good(rev, val, stored'[d])
    <3>1. CASE stored'[d] = stored[d]
      BY <2>3, <3>1
    <3>2. CASE stored'[d] # stored[d]
      <4>1. Count(stored'[d].rev) = Count(stored[d].rev) + 1
        BY <3>2 DEF StoreStep
      <4>2. stored[d].rev \in 0..Revisions - 1
        BY <1>1 DEF Settings
      <4>3. Count(stored[d].rev) \in Nat /\ Count(rev) \in Nat /\ Count(rev) <= Count(stored[d].rev)
        BY <2>3, <4>2, CountType DEF Good
      <4>4. Count(rev) <= Count(stored'[d].rev) /\ Count(rev) # Count(stored'[d].rev)
        BY <4>1, <4>3
      <4> QED
        BY <4>4 DEF Good
    <3> QED
      BY <3>1, <3>2
  <2> QED
    BY <2>1, <2>2, <2>3 DEF Fresh
<1> QED
  BY <1>2 DEF Fresh

\* What is read of the session's device is good.
LEMMA FreshStored ==
  ASSUME DistinctSerials, Inv, TargetOK, session # None, NEW g
  PROVE  Fresh(g, stored[session].rev, stored[session].val, generation, target.serial, stored)
<1>1. session \in Devices /\ Serial[session] = target.serial /\ stored[session] \in Settings
  BY DEF Inv, TypeOK, WorkerTypeOK, TargetOK, SessionIsTarget
<1>2. Count(stored[session].rev) \in Nat
  BY <1>1, CountType DEF Settings
<1>3. Good(stored[session].rev, stored[session].val, stored[session])
  BY <1>2 DEF Good
<1>4. target.serial # NoSerial /\ \A d \in Devices : Serial[d] = target.serial => d = session
  BY <1>1 DEF DistinctSerials
<1> QED
  BY <1>3, <1>4 DEF Fresh

\* What waits stays good.
LEMMA WaitingStay ==
  ASSUME Inv, GenOK, StoreStep, FreshOK
  PROVE  /\ \A i \in DOMAIN events : FreshSignal(events[i], generation', target'.serial, stored')
         /\ \A i \in DOMAIN commands :
              FreshCommand(commands[i], generation', target'.serial, stored')
<1>1. /\ events \in Seq(EventTypes) /\ commands \in Seq(CommandTypes) /\ generation \in Nat
      /\ generation' \in Nat /\ generation <= generation'
  BY DEF Inv, TypeOK, WorkerTypeOK, StoreStep
<1>2. ASSUME NEW i \in DOMAIN events, events[i].kind = "settings"
      PROVE  Fresh(events[i].gen, events[i].snap.rev, events[i].snap.val,
                   generation', target'.serial, stored')
  <2>1. events[i] \in EventTypes
    BY <1>1, ElementOfSeq
  <2>2. events[i].snap.rev \in 0..Revisions - 1 /\ events[i].gen \in Nat
    BY <1>2, <2>1, EventFields DEF Settings
  <2>3. events[i].gen <= generation
    BY <1>2 DEF GenOK, GenFits, HasGen
  <2>4. Fresh(events[i].gen, events[i].snap.rev, events[i].snap.val, generation, target.serial, stored)
    BY <1>2 DEF FreshOK, FreshEvents, FreshSignal
  <2> QED
    BY <2>2, <2>3, <2>4, FreshStays
<1>3. ASSUME NEW i \in DOMAIN commands, commands[i].cmd = "apply"
      PROVE  commands[i].arg.gen <= generation'
             /\ Fresh(commands[i].arg.gen, commands[i].arg.rev, commands[i].arg.base,
                      generation', target'.serial, stored')
  <2>1. commands[i] \in CommandTypes
    BY <1>1, ElementOfSeq
  <2>2. commands[i].arg.rev \in 0..Revisions - 1 /\ commands[i].arg.gen \in Nat
    BY <1>3, <2>1, CommandArgs DEF Saves
  <2>3. commands[i].arg.gen <= generation
    BY <1>3 DEF FreshOK, FreshCommands, FreshCommand
  <2>4. Fresh(commands[i].arg.gen, commands[i].arg.rev, commands[i].arg.base,
              generation, target.serial, stored)
    BY <1>3 DEF FreshOK, FreshCommands, FreshCommand
  <2>5. commands[i].arg.gen <= generation'
    BY <1>1, <2>2, <2>3
  <2> QED
    BY <2>2, <2>3, <2>4, <2>5, FreshStays
<1> QED
  BY <1>2, <1>3 DEF FreshSignal, FreshCommand

\* A signal joins the others.
LEMMA SignalJoin ==
  ASSUME NEW q \in Seq(EventTypes), NEW e \in EventTypes, NEW now, NEW serial, NEW st,
         \A i \in DOMAIN q : FreshSignal(q[i], now, serial, st), FreshSignal(e, now, serial, st)
  PROVE  \A i \in DOMAIN Append(q, e) : FreshSignal(Append(q, e)[i], now, serial, st)
<1> DEFINE r == Append(q, e)
<1>1. /\ Len(q) \in Nat /\ DOMAIN q = 1..Len(q) /\ DOMAIN r = 1..Len(q) + 1
      /\ \A i \in 1..Len(q) : r[i] = q[i]
      /\ r[Len(q) + 1] = e
  BY AppendProperties
<1> HIDE DEF r
<1>2. \A i \in DOMAIN r : i = Len(q) + 1 \/ (i \in DOMAIN q /\ r[i] = q[i])
  BY <1>1
<1>3. \A i \in DOMAIN r : FreshSignal(r[i], now, serial, st)
  BY <1>1, <1>2
<1> QED
  BY <1>3 DEF r

\* A command joins the others.
LEMMA CommandJoin ==
  ASSUME NEW q \in Seq(CommandTypes), NEW c \in CommandTypes, NEW now, NEW serial, NEW st,
         \A i \in DOMAIN q : FreshCommand(q[i], now, serial, st), FreshCommand(c, now, serial, st)
  PROVE  \A i \in DOMAIN Append(q, c) : FreshCommand(Append(q, c)[i], now, serial, st)
<1> DEFINE r == Append(q, c)
<1>1. /\ Len(q) \in Nat /\ DOMAIN q = 1..Len(q) /\ DOMAIN r = 1..Len(q) + 1
      /\ \A i \in 1..Len(q) : r[i] = q[i]
      /\ r[Len(q) + 1] = c
  BY AppendProperties
<1> HIDE DEF r
<1>2. \A i \in DOMAIN r : i = Len(q) + 1 \/ (i \in DOMAIN q /\ r[i] = q[i])
  BY <1>1
<1>3. \A i \in DOMAIN r : FreshCommand(r[i], now, serial, st)
  BY <1>1, <1>2
<1> QED
  BY <1>3 DEF r

\* What is taken leaves the rest.
LEMMA RestOf ==
  ASSUME NEW S, NEW q \in Seq(S), q # <<>>
  PROVE  /\ \A i \in DOMAIN Tail(q) : i + 1 \in DOMAIN q /\ Tail(q)[i] = q[i + 1]
         /\ 1 \in DOMAIN q /\ q[1] = Head(q)
<1>1. /\ Len(q) \in Nat /\ Len(q) >= 1 /\ DOMAIN q = 1..Len(q) /\ DOMAIN Tail(q) = 1..Len(q) - 1
      /\ q[1] = Head(q)
      /\ \A i \in 1..Len(q) - 1 : Tail(q)[i] = q[i + 1]
  BY HeadTailProperties
<1> QED
  BY <1>1

\* The worker says only what it has just read.
LEMMA FreshWorkerEvents ==
  ASSUME DistinctSerials, Inv, TargetOK, GenOK, StoreStep, FreshOK, Worker
  PROVE  FreshEvents'
<1>0. events \in Seq(EventTypes) /\ generation \in Nat /\ stored \in [Devices -> Settings]
      /\ session \in Devices \cup {None} /\ generation <= generation
  BY DEF Inv, TypeOK, WorkerTypeOK
<1>1. \A i \in DOMAIN events : FreshSignal(events[i], generation', target'.serial, stored')
  BY WaitingStay
<1>2. ASSUME NEW e \in EventTypes, Says(e), FreshSignal(e, generation', target'.serial, stored')
      PROVE  FreshEvents'
  <2>1. \A i \in DOMAIN Append(events, e) :
          FreshSignal(Append(events, e)[i], generation', target'.serial, stored')
    BY <1>0, <1>1, <1>2, SignalJoin
  <2> QED
    BY <1>2, <2>1 DEF FreshEvents, Says
<1>3. ASSUME NEW d \in EventTypes, NEW e \in EventTypes, SaysBoth(d, e), e.kind = "connection",
             FreshSignal(d, generation', target'.serial, stored')
      PROVE  FreshEvents'
  <2> DEFINE q == Append(events, d)
  <2>1. \A i \in DOMAIN q : FreshSignal(q[i], generation', target'.serial, stored')
    BY <1>0, <1>1, <1>3, SignalJoin
  <2>2. q \in Seq(EventTypes) /\ FreshSignal(e, generation', target'.serial, stored')
    BY <1>0, <1>3, AppendProperties DEF FreshSignal
  <2> HIDE DEF q
  <2>3. \A i \in DOMAIN Append(q, e) :
          FreshSignal(Append(q, e)[i], generation', target'.serial, stored')
    BY <2>1, <2>2, SignalJoin
  <2>4. events' = Append(q, e)
    BY <1>3 DEF SaysBoth, q
  <2> QED
    BY <2>3, <2>4 DEF FreshEvents
<1>4. ASSUME UNCHANGED events
      PROVE  FreshEvents'
  BY <1>1, <1>4 DEF FreshEvents
<1>5. ASSUME NEW snap \in Settings,
             Fresh(generation, snap.rev, snap.val, generation, target.serial, stored),
             NEW e, e.kind = "settings" => e.gen = generation /\ e.snap = snap
      PROVE  FreshSignal(e, generation', target'.serial, stored')
  <2>1. snap.rev \in 0..Revisions - 1
    BY DEF Settings
  <2>2. Fresh(generation, snap.rev, snap.val, generation', target'.serial, stored')
    BY <1>0, <1>5, <2>1, FreshStays
  <2> QED
    BY <1>5, <2>2 DEF FreshSignal
<1>6. CASE ReadyStep
  <2>1. Fresh(generation, ReadNow.rev, ReadNow.val, generation, target.serial, stored)
    <3>1. CASE at = "read"
      BY <1>6, <3>1, FreshStored DEF ReadyStep, ReadNow
    <3>2. CASE at # "read"
      BY <1>6, <3>2 DEF ReadyStep, ReadNow, FreshOK, FreshRead
    <3> QED
      BY <3>1, <3>2
  <2>2. PICK d, e : /\ d \in EventTypes /\ d.gen = generation /\ d.snap = ReadNow
                    /\ e \in EventTypes /\ e.kind = "connection" /\ SaysBoth(d, e)
    BY <1>6 DEF ReadyStep
  <2>3. ReadNow \in Settings
    BY <1>6 DEF ReadyStep
  <2> QED
    BY <1>3, <1>5, <2>1, <2>2, <2>3
<1>7. CASE AnswerStep
  <2>1. CASE UNCHANGED events
    BY <1>4, <2>1
  <2>2. CASE ~UNCHANGED events
    <3>1. PICK e : Reply(e) /\ (e.kind = "settings" => e.snap = stored[session]) /\ Says(e)
      BY <1>7, <2>2 DEF AnswerStep
    <3>2. /\ stored[session] \in Settings
          /\ Fresh(generation, stored[session].rev, stored[session].val, generation, target.serial, stored)
      BY <1>0, <1>7, FreshStored DEF AnswerStep
    <3>3. e \in EventTypes /\ (e.kind = "settings" => e.gen = generation /\ e.snap = stored[session])
      BY <3>1 DEF Reply
    <3> QED
      BY <1>2, <1>5, <3>1, <3>2, <3>3
  <2> QED
    BY <2>1, <2>2
<1>8. CASE LostStep
  <2>1. \A e : IsMacro(e) \/ Plain(e, "retry_wait", generation) =>
          e \in EventTypes /\ FreshSignal(e, generation', target'.serial, stored')
    BY DEF IsMacro, Plain, FreshSignal
  <2> QED
    BY <1>2, <1>3, <1>8, <2>1 DEF LostStep, Plain
<1>9. ASSUME NEW e \in EventTypes, Says(e), e.kind # "settings"
      PROVE  FreshEvents'
  BY <1>2, <1>9 DEF FreshSignal
<1> QED
  BY <1>4, <1>6, <1>7, <1>8, <1>9, WorkerKinds DEF GivenUpStep, FatalStep, InnerStep, OpenStep,
     DisconnectStep, ConnectStep, ReplyStep, BeginStep, RetryStep, StoppedStep, Plain, IsMacro,
     Bare, Reply

LEMMA FreshEventsStep ==
  ASSUME DistinctSerials, Inv, TargetOK, GenOK, StoreStep, FreshOK, [Next]_vars
  PROVE  FreshEvents'
<1>1. \A i \in DOMAIN events : FreshSignal(events[i], generation', target'.serial, stored')
  BY WaitingStay
<1>2. CASE Signal
  <2>1. events \in Seq(EventTypes) /\ events # <<>> /\ events' = Tail(events)
    BY <1>2 DEF Signal, OnDevices, OnConnection, OnSettings, OnProblem, OnMacro, Handle,
       Inv, TypeOK, WorkerTypeOK
  <2>2. \A i \in DOMAIN Tail(events) : i + 1 \in DOMAIN events /\ Tail(events)[i] = events[i + 1]
    BY <2>1, RestOf
  <2>3. \A i \in DOMAIN Tail(events) :
          FreshSignal(Tail(events)[i], generation', target'.serial, stored')
    BY <1>1, <2>2
  <2> QED
    BY <2>1, <2>3 DEF FreshEvents
<1>3. CASE World \/ User \/ UNCHANGED vars
  <2>1. UNCHANGED events
    BY <1>3 DEF World, Move, Rival, User, Scan, Connect, Disconnect, ReadDevice, Apply, Edit,
       RequestMacro, StopMacro, Close, Request, Send, vars, workerVars, queueVars
  <2> QED
    BY <1>1, <2>1 DEF FreshEvents
<1> QED
  BY <1>2, <1>3, FreshWorkerEvents DEF Next

\* The user saves what the window shows.
LEMMA FreshCommandsStep ==
  ASSUME Inv, GenOK, StoreStep, FreshOK, [Next]_vars
  PROVE  FreshCommands'
<1>0. /\ commands \in Seq(CommandTypes) /\ generation \in Nat /\ shown \in Nat /\ shown <= generation
      /\ generation' \in Nat /\ generation <= generation'
  BY DEF Inv, TypeOK, WorkerTypeOK, GenOK, GenFits, StoreStep
<1>1. \A i \in DOMAIN commands : FreshCommand(commands[i], generation', target'.serial, stored')
  BY WaitingStay
<1>2. ASSUME UNCHANGED commands
      PROVE  FreshCommands'
  BY <1>1, <1>2 DEF FreshCommands
<1>3. CASE Worker
  <2>1. CASE UNCHANGED commands
    BY <1>2, <2>1
  <2>2. CASE ~UNCHANGED commands
    <3>1. commands # <<>> /\ commands' = Tail(commands)
      BY <1>3, <2>2, WorkerSaving DEF WorkerSaves
    <3>2. \A i \in DOMAIN Tail(commands) : i + 1 \in DOMAIN commands /\ Tail(commands)[i] = commands[i + 1]
      BY <1>0, <3>1, RestOf
    <3>3. \A i \in DOMAIN Tail(commands) :
            FreshCommand(Tail(commands)[i], generation', target'.serial, stored')
      BY <1>1, <3>2
    <3> QED
      BY <3>1, <3>3 DEF FreshCommands
  <2> QED
    BY <2>1, <2>2
<1>4. ASSUME NEW c \in CommandTypes, commands' = Append(commands, c),
             FreshCommand(c, generation', target'.serial, stored')
      PROVE  FreshCommands'
  <2>1. \A i \in DOMAIN Append(commands, c) :
          FreshCommand(Append(commands, c)[i], generation', target'.serial, stored')
    BY <1>0, <1>1, <1>4, CommandJoin
  <2> QED
    BY <1>4, <2>1 DEF FreshCommands
<1>5. ASSUME NEW cmd, NEW arg, [cmd |-> cmd, arg |-> arg] \in CommandTypes, cmd # "apply",
             Send(cmd, arg)
      PROVE  FreshCommands'
  BY <1>4, <1>5 DEF Send, FreshCommand
<1>6. CASE Scan \/ Disconnect \/ ReadDevice \/ RequestMacro \/ StopMacro
  BY <1>5, <1>6, CommandMade DEF Scan, Disconnect, ReadDevice, RequestMacro, StopMacro, Request
<1>7. CASE Connect
  <2>1. PICK p \in paths : Request("connect", p)
    BY <1>7 DEF Connect
  <2>2. p \in Paths /\ Send("connect", p)
    BY <2>1 DEF Request, Inv, TypeOK
  <2> QED
    BY <1>5, <2>2, CommandMade
<1>8. CASE Apply
  <2> DEFINE save == [rev |-> revision, val |-> draft, base |-> baseline, gen |-> shown]
             c == [cmd |-> "apply", arg |-> save]
  <2>1. save \in Saves /\ revision \in 0..Revisions - 1 /\ revision # None
    BY <1>8 DEF Apply, Saves, Inv, TypeOK
  <2>2. commands' = Append(commands, c) /\ UNCHANGED <<generation, target, stored>>
    BY <1>8 DEF Apply, Request, Send, linkVars, deviceVars
  <2>3. c \in CommandTypes
    BY <2>1, CommandMade
  <2>4. Fresh(shown, revision, baseline, generation, target.serial, stored)
    BY <2>1 DEF FreshOK, FreshWindow
  <2>5. Fresh(shown, revision, baseline, generation', target'.serial, stored')
    BY <2>2, <2>4
  <2>6. shown <= generation'
    BY <1>0, <2>2
  <2>7. FreshCommand(c, generation', target'.serial, stored')
    BY <2>5, <2>6 DEF FreshCommand
  <2> QED
    BY <1>4, <2>2, <2>3, <2>7
<1>9. CASE World \/ Signal \/ Edit \/ Close \/ UNCHANGED vars
  <2>1. UNCHANGED commands
    BY <1>9 DEF World, Move, Rival, Signal, OnDevices, OnConnection, OnSettings, OnProblem, OnMacro,
       Handle, Edit, Close, vars, workerVars, queueVars
  <2> QED
    BY <1>2, <2>1
<1> QED
  BY <1>3, <1>6, <1>7, <1>8, <1>9 DEF Next, User

\* The window shows settings only of the connection they were read in.
LEMMA FreshWindowStep ==
  ASSUME Inv, GenOK, AnnouncedOK, StoreStep, FreshOK, [Next]_vars
  PROVE  FreshWindow'
<1>0. /\ events \in Seq(EventTypes) /\ generation \in Nat /\ shown \in Nat /\ shown <= generation
      /\ leaving \in BOOLEAN /\ revision \in 0..Revisions - 1 \cup {None}
  BY DEF Inv, TypeOK, WorkerTypeOK, GenOK, GenFits
<1>1. revision # None => Fresh(shown, revision, baseline, generation', target'.serial, stored')
  <2>1. SUFFICES ASSUME revision # None
                 PROVE  Fresh(shown, revision, baseline, generation', target'.serial, stored')
    OBVIOUS
  <2>2. revision \in 0..Revisions - 1
    BY <1>0, <2>1
  <2>3. Fresh(shown, revision, baseline, generation, target.serial, stored)
    BY <2>1 DEF FreshOK, FreshWindow
  <2> QED
    BY <1>0, <2>2, <2>3, FreshStays
<1>2. ASSUME revision' = None \/ UNCHANGED <<shown, revision, baseline>>
      PROVE  FreshWindow'
  BY <1>1, <1>2 DEF FreshWindow
<1>3. ASSUME events # <<>>, ~leaving, Follows(Head(events))
      PROVE  shown = Head(events).gen /\ 1 \in DOMAIN events /\ events[1] = Head(events)
  <2>1. 1 \in DOMAIN events /\ events[1] = Head(events)
    BY <1>0, <1>3, RestOf
  <2>2. Heard(1, events[1].gen, events, shown, leaving)
    BY <1>3, <2>1 DEF AnnouncedOK, AllHeard
  <2>3. DOMAIN events = 1..Len(events)
    BY <1>0
  <2>4. ~\E j \in DOMAIN events : j < 1
    BY <2>3
  <2>5. Known(events[1].gen, events, shown, leaving)
    BY <2>2, <2>4 DEF Heard
  <2> QED
    BY <1>3, <2>1, <2>5 DEF Known
<1>4. CASE OnSettings
  <2>1. CASE leaving
    BY <1>2, <1>4, <2>1 DEF OnSettings, windowVars
  <2>2. CASE ~leaving
    <3>1. /\ events # <<>> /\ Head(events).kind = "settings"
          /\ revision' = Head(events).snap.rev /\ baseline' = Head(events).snap.val
          /\ shown' = shown
      BY <1>4, <2>2 DEF OnSettings, Handle
    <3>2. shown = Head(events).gen /\ 1 \in DOMAIN events /\ events[1] = Head(events)
      BY <1>3, <2>2, <3>1 DEF Follows
    <3>3. FreshSignal(Head(events), generation', target'.serial, stored')
      BY <3>2, WaitingStay
    <3>4. Fresh(shown', revision', baseline', generation', target'.serial, stored')
      BY <3>1, <3>2, <3>3 DEF FreshSignal
    <3> QED
      BY <3>4 DEF FreshWindow
  <2> QED
    BY <2>1, <2>2
<1>5. CASE OnConnection
  <2> DEFINE event == Head(events)
  <2>1. CASE Outdated(event)
    BY <1>2, <1>5, <2>1 DEF OnConnection, windowVars
  <2>2. CASE ~Outdated(event) /\ event.state = "ready"
    <3>1. events # <<>> /\ event.kind = "connection" /\ ~leaving
      BY <1>0, <1>5, <2>2 DEF OnConnection, Handle, Outdated
    <3>2. shown = event.gen
      BY <1>3, <2>2, <3>1 DEF Follows
    <3>3. UNCHANGED <<shown, revision, baseline>>
      BY <1>5, <2>2, <3>2 DEF OnConnection, RevisionAfter
    <3> QED
      BY <1>2, <3>3
  <2>3. CASE ~Outdated(event) /\ event.state # "ready"
    BY <1>2, <1>5, <2>3 DEF OnConnection, RevisionAfter
  <2> QED
    BY <2>1, <2>2, <2>3
<1>6. CASE OnDevices \/ OnProblem \/ OnMacro
  BY <1>2, <1>6 DEF OnDevices, OnProblem, OnMacro
<1>7. CASE ((Worker \/ World) /\ UNCHANGED windowVars) \/ User \/ UNCHANGED vars
  BY <1>2, <1>7 DEF windowVars, vars, User, Scan, Connect, Disconnect, ReadDevice, Apply, Edit,
     RequestMacro, StopMacro, Close, Request
<1> QED
  BY <1>4, <1>5, <1>6, <1>7 DEF Next, Signal

\* What the worker is to do with a save, and what it has read.
SaveFrame ==
  /\ at' \in {"check", "write"} =>
       \/ at \in {"check", "write"} /\ UNCHANGED pendingSave
       \/ /\ commands # <<>> /\ Head(commands).cmd = "apply"
          /\ pendingSave' = Head(commands).arg
  /\ at' = "status" =>
       /\ generation' = generation
       /\ \/ at = "status" /\ UNCHANGED snapshot
          \/ session # None /\ snapshot' = stored[session]

LEMMA SaveFrames ==
  ASSUME Inv, [Next]_vars
  PROVE  SaveFrame
<1>1. ASSUME at' \notin {"check", "write", "status"}
      PROVE  SaveFrame
  BY <1>1 DEF SaveFrame
<1>2. ASSUME UNCHANGED <<at, pendingSave, snapshot, generation>>
      PROVE  SaveFrame
  BY <1>2 DEF SaveFrame
<1>3. CASE User \/ Signal \/ World \/ UNCHANGED vars
  BY <1>2, <1>3 DEF World, Move, Rival, Signal, OnDevices, OnConnection, OnSettings, OnProblem,
     OnMacro, Handle, User, Scan, Connect, Disconnect, ReadDevice, Apply, Edit, RequestMacro,
     StopMacro, Close, Request, Send, vars, workerVars, handleVars, saveVars, linkVars
<1>4. CASE SelectFails \/ SelectAmbiguous \/ Select \/ OpenFails \/ Open
  BY <1>1, <1>4 DEF SelectFails, SelectAmbiguous, Select, OpenFails, Open, Return
<1>5. CASE Read
  <2>1. session # None
    BY <1>5 DEF Read, Inv, WorkerOK
  <2>2. CASE candidate \in HasMacros
    BY <1>5, <2>1, <2>2 DEF Read, linkVars, SaveFrame
  <2>3. CASE candidate \notin HasMacros
    BY <1>1, <1>5, <2>3 DEF Read, Publish, Return
  <2> QED
    BY <2>2, <2>3
<1>6. CASE ReadCancelled \/ Status \/ AttemptFails \/ AttemptMismatch
  BY <1>1, <1>6 DEF ReadCancelled, Status, AttemptFails, AttemptMismatch, Publish, Return
<1>7. CASE BeginApply
  BY <1>7 DEF BeginApply, Take, SaveFrame
<1>8. CASE DoDisconnect \/ BeginRead \/ BeginMacro
  BY <1>1, <1>8 DEF DoDisconnect, BeginRead, BeginMacro, Return
<1>9. CASE DoConnect \/ DoScan \/ Refuse
  <2>1. at = "idle"
    BY <1>9 DEF DoConnect, DoScan, Refuse, Take
  <2>2. at' \in {"idle", "select"}
    BY <1>9, <2>1 DEF DoConnect, DoScan, Refuse, BeginAttempt
  <2> QED
    BY <1>1, <2>2
<1>10. CASE SaveChecks
  BY <1>10 DEF SaveChecks, saveVars, SaveFrame
<1>11. CASE Reread \/ SaveConflicts \/ SaveSends \/ SendFails \/ SaveVerified \/ SaveUnverified
  BY <1>1, <1>11 DEF Reread, SaveConflicts, SaveSends, SendFails, SaveVerified, SaveUnverified, Return
<1>12. CASE CommandFails \/ CommandMismatch \/ MacroEnds \/ MacroFails
  BY <1>1, <1>12 DEF CommandFails, CommandMismatch, MacroEnds, MacroFails, Return
<1>13. CASE Poll \/ RunEnds
  BY <1>1, <1>13 DEF Poll, PollRetries, PollFails, RunEnds, BeginAttempt, Return
<1> QED
  BY <1>3, <1>4, <1>5, <1>6, <1>7, <1>8, <1>9, <1>10, <1>11, <1>12, <1>13
     DEF Next, Worker, Attempt, Command, Operation

LEMMA FreshSaveStep ==
  ASSUME DistinctSerials, Inv, TargetOK, GenOK, StoreStep, FreshOK, [Next]_vars
  PROVE  FreshSave' /\ FreshRead'
<1>0. /\ commands \in Seq(CommandTypes) /\ generation \in Nat /\ generation' \in Nat
      /\ generation <= generation' /\ generation <= generation
      /\ stored \in [Devices -> Settings] /\ session \in Devices \cup {None}
  BY DEF Inv, TypeOK, WorkerTypeOK, StoreStep
<1>1. SaveFrame
  BY SaveFrames
<1>2. ASSUME at' \in {"check", "write"}
      PROVE  /\ pendingSave'.gen <= generation'
             /\ Fresh(pendingSave'.gen, pendingSave'.rev, pendingSave'.base,
                      generation', target'.serial, stored')
  <2>1. CASE at \in {"check", "write"} /\ UNCHANGED pendingSave
    <3>1. pendingSave \in Saves /\ pendingSave.gen <= generation
      BY <2>1 DEF Inv, WorkerOK, FreshOK, FreshSave
    <3>2. pendingSave.rev \in 0..Revisions - 1 /\ pendingSave.gen \in Nat
      BY <3>1 DEF Saves
    <3>3. Fresh(pendingSave.gen, pendingSave.rev, pendingSave.base, generation, target.serial, stored)
      BY <2>1 DEF FreshOK, FreshSave
    <3>4. Fresh(pendingSave.gen, pendingSave.rev, pendingSave.base, generation', target'.serial, stored')
      BY <3>1, <3>2, <3>3, FreshStays
    <3>5. pendingSave.gen <= generation'
      BY <1>0, <3>1, <3>2
    <3> QED
      BY <2>1, <3>4, <3>5
  <2>2. CASE /\ commands # <<>> /\ Head(commands).cmd = "apply"
             /\ pendingSave' = Head(commands).arg
    <3>1. 1 \in DOMAIN commands /\ commands[1] = Head(commands)
      BY <1>0, <2>2, RestOf
    <3>2. FreshCommand(Head(commands), generation', target'.serial, stored')
      BY <3>1, WaitingStay
    <3> QED
      BY <2>2, <3>2 DEF FreshCommand
  <2> QED
    BY <1>1, <1>2, <2>1, <2>2 DEF SaveFrame
<1>3. ASSUME at' = "status"
      PROVE  Fresh(generation', snapshot'.rev, snapshot'.val, generation', target'.serial, stored')
  <2>1. \E s \in Settings :
          snapshot' = s /\ Fresh(generation, s.rev, s.val, generation, target.serial, stored)
    <3>1. CASE at = "status" /\ UNCHANGED snapshot
      BY <3>1 DEF Inv, WorkerOK, FreshOK, FreshRead
    <3>2. CASE session # None /\ snapshot' = stored[session]
      BY <1>0, <3>2, FreshStored
    <3> QED
      BY <1>1, <1>3, <3>1, <3>2 DEF SaveFrame
  <2>2. PICK s \in Settings :
          snapshot' = s /\ Fresh(generation, s.rev, s.val, generation, target.serial, stored)
    BY <2>1
  <2>3. s.rev \in 0..Revisions - 1
    BY DEF Settings
  <2>4. Fresh(generation, s.rev, s.val, generation', target'.serial, stored')
    BY <1>0, <2>2, <2>3, FreshStays
  <2>5. generation' = generation
    BY <1>1, <1>3 DEF SaveFrame
  <2> QED
    BY <2>2, <2>4, <2>5
<1> QED
  BY <1>2, <1>3 DEF FreshSave, FreshRead

LEMMA FreshStep ==
  ASSUME DistinctSerials, Inv, TargetOK, GenOK, AnnouncedOK, StoreStep, FreshOK, [Next]_vars
  PROVE  FreshOK'
<1>1. FreshEvents' /\ FreshCommands' /\ FreshWindow' /\ FreshSave' /\ FreshRead'
  BY FreshEventsStep, FreshCommandsStep, FreshWindowStep, FreshSaveStep
<1> QED
  BY <1>1 DEF FreshOK

LEMMA FreshInit == Init => CountOK /\ AnnouncedOK /\ FreshOK
<1> SUFFICES ASSUME Init
             PROVE  CountOK /\ AnnouncedOK /\ FreshOK
  OBVIOUS
<1>0. /\ commands = <<>> /\ events = <<>> /\ at = "idle" /\ session = None /\ revision = None
      /\ mishaps = 0 /\ clicks = 0 /\ MaxMishaps \in Nat
      /\ \A d \in Devices : stored[d].rev = Revisions - 1
  BY WorkerAssumption DEF Init, WorkerInit
<1>1. DOMAIN events = {} /\ DOMAIN commands = {} /\ Len(commands) = 0
  BY <1>0
<1>2. Saving = 0
  BY <1>0 DEF Saving
<1>3. \A d \in Devices : Count(stored[d].rev) = 0
  BY <1>0 DEF Count
<1>4. CountOK
  BY <1>0, <1>1, <1>2, <1>3 DEF CountOK
<1>5. AnnouncedOK
  BY <1>0, <1>1 DEF AnnouncedOK, AllHeard
<1>6. FreshOK
  BY <1>0, <1>1 DEF FreshOK, FreshEvents, FreshCommands, FreshWindow, FreshSave, FreshRead
<1> QED
  BY <1>4, <1>5, <1>6

\* Only the save in hand is newly held by a device, the session's.
LEMMA OneApplies ==
  ASSUME Inv, [Next]_vars, outcome' = "held", outcome # "held"
  PROVE  at = "write" /\ session # None /\ DeviceApplies
<1>1. CASE User \/ Signal \/ World \/ UNCHANGED vars
  <2>1. outcome' = outcome
    BY <1>1 DEF World, Move, Rival, Signal, OnDevices, OnConnection, OnSettings, OnProblem,
       OnMacro, Handle, User, Scan, Connect, Disconnect, ReadDevice, Apply, Edit, RequestMacro,
       StopMacro, Close, Request, Send, vars, workerVars, saveVars
  <2> QED
    BY <2>1
<1>2. CASE Attempt
  <2>1. outcome' \in {outcome, "none"}
    BY <1>2 DEF Attempt, SelectFails, SelectAmbiguous, Select, OpenFails, Open, ReadCancelled, Read,
       Status, AttemptFails, AttemptMismatch, Publish, Forget, saveVars
  <2> QED
    BY <2>1
<1>3. CASE Command \/ Poll \/ RunEnds
  <2>1. outcome' \in {outcome, "none"}
    BY <1>3 DEF Command, DoDisconnect, DoConnect, DoScan, Refuse, BeginRead, BeginMacro, BeginApply,
       Poll, PollRetries, PollFails, RunEnds, Forget, saveVars
  <2> QED
    BY <2>1
<1>4. CASE Operation
  <2>1. CASE SaveSends \/ SendFails
    BY <2>1 DEF SaveSends, SendFails, DeviceIgnores, saveVars, Inv, WorkerOK
  <2>2. CASE ~(SaveSends \/ SendFails)
    <3>1. outcome' \in {outcome, "none"}
      BY <1>4, <2>2 DEF Operation, Reread, SaveChecks, SaveConflicts, SaveVerified, SaveUnverified,
         CommandFails, CommandMismatch, MacroEnds, MacroFails, Forget, saveVars
    <3> QED
      BY <3>1
  <2> QED
    BY <2>1, <2>2
<1> QED
  BY <1>1, <1>2, <1>3, <1>4 DEF Next, Worker

\* NoLostUpdate for all devices, paths and values and every number of revisions
\* that the saves made do not exhaust: save_settings (worker.py) replaces the
\* settings of the session's device only, and in the connection that was shown
\* only those the window showed, whatever other applications save and however
\* often the connection is lost.
THEOREM NoUpdateIsLost ==
  ASSUME DistinctSerials, FewSaves PROVE Spec => NoLostUpdate
<1>1. Init => CountOK /\ AnnouncedOK /\ FreshOK
  BY FreshInit
<1>2. Inv /\ TargetOK /\ GenOK /\ WindowOK /\ CountOK /\ AnnouncedOK /\ FreshOK /\ [Next]_vars =>
        CountOK' /\ AnnouncedOK' /\ FreshOK'
  BY CountStep, AnnouncedStep, FreshStep
<1>3. ASSUME Inv, TargetOK, FreshOK, [Next]_vars, NEW d \in Devices,
             stored'[d] # stored[d], outcome' = "held", outcome # "held"
      PROVE  /\ d = session
             /\ pendingSave.gen = generation => stored[d].val = pendingSave.base
  <2>1. at = "write" /\ session # None /\ DeviceApplies
    BY <1>3, OneApplies
  <2>2. stored \in [Devices -> Settings] /\ session \in Devices
    BY <1>3, <2>1 DEF Inv, TypeOK, WorkerTypeOK
  <2>3. d = session
    BY <1>3, <2>1, <2>2 DEF DeviceApplies
  <2>4. stored[session].rev = pendingSave.rev /\ Serial[session] = target.serial
    BY <1>3, <2>1 DEF DeviceApplies, TargetOK, SessionIsTarget
  <2>5. ASSUME pendingSave.gen = generation
        PROVE  stored[session].val = pendingSave.base
    <3>1. Fresh(pendingSave.gen, pendingSave.rev, pendingSave.base, generation, target.serial, stored)
      BY <1>3, <2>1 DEF FreshOK, FreshSave
    <3>2. Good(pendingSave.rev, pendingSave.base, stored[session])
      BY <2>2, <2>4, <2>5, <3>1 DEF Fresh
    <3> QED
      BY <2>4, <3>2 DEF Good
  <2> QED
    BY <2>3, <2>5
<1>4. Inv /\ TargetOK /\ FreshOK /\ [Next]_vars =>
        \A d \in Devices :
          stored'[d] # stored[d] /\ outcome' = "held" /\ outcome # "held" =>
            /\ d = session
            /\ pendingSave.gen = generation => stored[d].val = pendingSave.base
  BY <1>3
<1> QED
  BY <1>1, <1>2, <1>4, WindowAlways, TargetAlways, PTL DEF Spec, NoLostUpdate

-----------------------------------------------------------------------------
(* What the user has edited.                                               *)

Operates == Serves \cup {"macro"}

Shows(st, e) == e.kind = "connection" /\ e.state = st

\* Settings the user has asked for.
Serving(e) == e.kind = "settings" /\ e.op \in {"read", "apply"}

\* What frees the controls of a window that shows READY.
Replies(e) == e.kind \in {"problem", "macro"} \/ Serving(e) \/ Shows("error", e)

One(cmds) == Len(commands) = 1 /\ Head(commands).cmd \in cmds

\* The worker rests for good after the last signal, number i.
Over(i) == i = Len(events) /\ commands = <<>> /\ at = "idle" /\ ~active

\* A read or a save is under way.
Pending ==
  \/ commands # <<>> /\ Head(commands).cmd \in {"read", "apply"}
  \/ at \in Serves
  \/ \E i \in DOMAIN events : Serving(events[i])

ErrorOK == \A i \in DOMAIN events : Shows("error", events[i]) => Over(i)

\* While READY is shown at most one request is under way, in one place, and
\* only its answer or the loss of the link can free the controls.
ReadyOK ==
  /\ at \in Operates \cup {"idle"}
  /\ ~busy => commands = <<>> /\ at = "idle"
  /\ commands # <<>> => One({"read", "apply", "macro"}) /\ at = "idle"
  /\ \A i \in DOMAIN events :
       /\ Replies(events[i]) \/ Shows("retry_wait", events[i])
       /\ Replies(events[i]) => busy /\ commands = <<>> /\ at = "idle"
  /\ \A i, j \in DOMAIN events : Replies(events[i]) /\ Replies(events[j]) => i = j
  /\ \A i \in DOMAIN events : Shows("retry_wait", events[i]) =>
       /\ session = None /\ at = "idle"
       /\ \A j \in DOMAIN events : j > i => events[j].kind \in {"problem", "macro"}
  /\ Pending => ~edited

\* READY is not shown: nothing the user has asked of a session is on its way,
\* and when READY is, only the loss of the link can follow.
UnreadyOK ==
  /\ at \notin Operates
  /\ \A i \in DOMAIN events : ~Serving(events[i])
  /\ \A i \in DOMAIN events : Shows("ready", events[i]) =>
       /\ commands = <<>> /\ at = "idle"
       /\ \A j \in DOMAIN events : j > i =>
            j = i + 1 /\ Shows("retry_wait", events[j]) /\ session = None

\* A request that the lost link has overtaken will be refused.
TryingOK ==
  commands # <<>> =>
    One({"read", "apply", "macro"}) /\ session = None /\ at = "idle" /\ events = <<>>

\* Disconnected or after an error: the worker rests unless it connects.
OffOK ==
  /\ commands # <<>> => One({"scan", "connect"}) /\ events = <<>>
  /\ commands # <<>> \/ events = <<>> => at = "idle" /\ ~active
  /\ ~busy => commands = <<>> /\ events = <<>>
  /\ events # <<>> =>
       \/ Shows("connecting", Head(events))
       \/ Len(events) = 1 /\ Head(events).kind = "devices" /\ at = "idle" /\ ~active

StayingOK ==
  /\ ~Asked(commands) /\ ~Soon(events) /\ ErrorOK
  /\ IF state = "ready" THEN ReadyOK ELSE UnreadyOK
  /\ state \in {"connecting", "reading", "retry_wait"} => TryingOK
  /\ state \in {"disconnected", "error"} => OffOK

\* The disconnect is the last command, and its signal the last one.
LeavingOK ==
  /\ \A i \in DOMAIN events : Leaves(events[i]) => Over(i)
  /\ \A i \in DOMAIN commands : commands[i].cmd = "disconnect" => i = Len(commands)

EditOK == ~hasty /\ ~stopping => IF leaving THEN LeavingOK ELSE StayingOK

\* A resting worker has nothing to do but wait for commands.
LEMMA WorkerRests ==
  ASSUME Inv, Worker, ~stopping, commands = <<>>, at = "idle"
  PROVE  active
<1>1. session # None => active
  BY DEF Inv, WorkerOK
<1> QED
  BY <1>1, WorkerKinds DEF LostStep, GivenUpStep, FatalStep, InnerStep, OpenStep, ReadyStep, AnswerStep,
     DisconnectStep, ConnectStep, ReplyStep, BeginStep, RetryStep, StoppedStep, Ends, Taken

\* The signals after one or two have joined them, and after one was taken.
LEMMA JoinedOne ==
  ASSUME events \in Seq(EventTypes), NEW e \in EventTypes, Says(e)
  PROVE  /\ Len(events) \in Nat /\ DOMAIN events = 1..Len(events)
         /\ Len(events') = Len(events) + 1 /\ DOMAIN events' = 1..Len(events) + 1
         /\ \A i \in 1..Len(events) : events'[i] = events[i]
         /\ events'[Len(events) + 1] = e /\ events' # <<>>
         /\ events' \in Seq(EventTypes)
         /\ Head(events') = IF events = <<>> THEN e ELSE Head(events)
<1> DEFINE q == events
           r == Append(q, e)
<1>1. q \in Seq(EventTypes) /\ events' = r
  BY DEF Says
<1> HIDE DEF q
<1>2. /\ Len(q) \in Nat /\ DOMAIN q = 1..Len(q) /\ Len(r) = Len(q) + 1 /\ DOMAIN r = 1..Len(q) + 1
      /\ \A i \in 1..Len(q) : r[i] = q[i]
      /\ r[Len(q) + 1] = e /\ r # <<>> /\ r \in Seq(EventTypes)
  BY <1>1, AppendProperties
<1>3. Head(r) = r[1]
  BY <1>2, HeadTailProperties
<1>4. Head(r) = IF q = <<>> THEN e ELSE Head(q)
  <2>1. CASE q = <<>>
    <3>1. Len(q) = 0
      BY <2>1
    <3> QED
      BY <1>2, <1>3, <2>1, <3>1
  <2>2. CASE q # <<>>
    <3>1. Head(q) = q[1] /\ Len(q) >= 1
      BY <1>1, <2>2, HeadTailProperties
    <3> QED
      BY <1>2, <1>3, <2>2, <3>1
  <2> QED
    BY <2>1, <2>2
<1> QED
  BY <1>1, <1>2, <1>4 DEF q

LEMMA JoinedBoth ==
  ASSUME events \in Seq(EventTypes), NEW d \in EventTypes, NEW e \in EventTypes, SaysBoth(d, e)
  PROVE  /\ Len(events) \in Nat /\ DOMAIN events = 1..Len(events)
         /\ Len(events') = Len(events) + 2 /\ DOMAIN events' = 1..Len(events) + 2
         /\ \A i \in 1..Len(events) : events'[i] = events[i]
         /\ events'[Len(events) + 1] = d /\ events'[Len(events) + 2] = e /\ events' # <<>>
         /\ Head(events') = IF events = <<>> THEN d ELSE Head(events)
<1> DEFINE q == Append(events, d)
           r == Append(q, e)
<1>1. /\ Len(events) \in Nat /\ DOMAIN events = 1..Len(events)
      /\ Len(q) = Len(events) + 1
      /\ \A i \in 1..Len(events) : q[i] = events[i]
      /\ q[Len(events) + 1] = d /\ q \in Seq(EventTypes)
  BY AppendProperties
<1>2. events' = r
  BY DEF SaysBoth
<1>3. Head(q) = IF events = <<>> THEN d ELSE Head(events)
  <2>1. Head(q) = q[1]
    BY <1>1, HeadTailProperties
  <2>2. CASE events = <<>>
    <3>1. Len(events) = 0
      BY <2>2
    <3> QED
      BY <1>1, <2>1, <2>2, <3>1
  <2>3. CASE events # <<>>
    <3>1. Head(events) = events[1] /\ Len(events) >= 1
      BY <2>3, HeadTailProperties
    <3> QED
      BY <1>1, <2>1, <2>3, <3>1
  <2> QED
    BY <2>2, <2>3
<1> HIDE DEF q
<1>4. /\ Len(r) = Len(q) + 1 /\ DOMAIN r = 1..Len(q) + 1
      /\ \A i \in 1..Len(q) : r[i] = q[i]
      /\ r[Len(q) + 1] = e /\ r \in Seq(EventTypes) /\ r # <<>>
  BY <1>1, AppendProperties
<1>5. Head(r) = r[1] /\ Head(q) = q[1]
  BY <1>1, <1>4, HeadTailProperties
<1>6. Head(r) = Head(q)
  BY <1>1, <1>4, <1>5
<1>7. \A i \in 1..Len(events) : r[i] = events[i]
  BY <1>1, <1>4
<1>8. Len(r) = Len(events) + 2 /\ DOMAIN r = 1..Len(events) + 2 /\ r[Len(events) + 2] = e
  BY <1>1, <1>4
<1>9. r[Len(events) + 1] = d
  BY <1>1, <1>4
<1> QED
  BY <1>1, <1>2, <1>3, <1>4, <1>6, <1>7, <1>8, <1>9

LEMMA TakenOne ==
  ASSUME events \in Seq(EventTypes), events # <<>>, events' = Tail(events)
  PROVE  /\ Len(events) \in Nat /\ Len(events) >= 1 /\ DOMAIN events = 1..Len(events)
         /\ Len(events') = Len(events) - 1 /\ DOMAIN events' = 1..Len(events) - 1
         /\ events[1] = Head(events)
         /\ \A i \in 1..Len(events) - 1 : events'[i] = events[i + 1]
         /\ Len(events) = 1 => events' = <<>>
<1> DEFINE q == events
           r == Tail(q)
<1>1. q \in Seq(EventTypes) /\ q # <<>> /\ events' = r
  OBVIOUS
<1> HIDE DEF q
<1>2. /\ Len(q) \in Nat /\ Len(q) >= 1 /\ DOMAIN q = 1..Len(q)
      /\ Len(r) = Len(q) - 1 /\ DOMAIN r = 1..Len(q) - 1 /\ r \in Seq(EventTypes)
      /\ q[1] = Head(q)
      /\ \A i \in 1..Len(q) - 1 : r[i] = q[i + 1]
  BY <1>1, HeadTailProperties
<1>3. Len(q) = 1 => r = <<>>
  BY <1>2, EmptySeq
<1> QED
  BY <1>1, <1>2, <1>3 DEF q

\* The only command is taken; a command is sent when there is none.
LEMMA OneCommand ==
  ASSUME commands \in Seq(CommandTypes)
  PROVE  /\ \A cmds : One(cmds) /\ commands' = Tail(commands) => commands' = <<>>
         /\ \A c \in CommandTypes :
              commands = <<>> /\ commands' = Append(commands, c) =>
                Len(commands') = 1 /\ Head(commands') = c /\ commands' # <<>>
<1>1. ASSUME NEW q \in Seq(CommandTypes), Len(q) = 1
      PROVE  Tail(q) = <<>>
  <2>1. q # <<>>
    BY <1>1, EmptySeq
  <2>2. Len(Tail(q)) = 0 /\ Tail(q) \in Seq(CommandTypes)
    BY <1>1, <2>1, HeadTailProperties
  <2> QED
    BY <2>2, EmptySeq
<1>2. ASSUME NEW c \in CommandTypes
      PROVE  Len(Append(<<>>, c)) = 1 /\ Head(Append(<<>>, c)) = c /\ Append(<<>>, c) # <<>>
  OBVIOUS
<1> QED
  BY <1>1, <1>2 DEF One

\* The steps of the worker while the user stays.
LEMMA StayingKinds ==
  ASSUME Inv, WindowOK, Worker, ~stopping, ~Asked(commands)
  PROVE  \/ ReplyStep
         \/ ~Cancelled /\ \/ LostStep \/ FatalStep \/ InnerStep \/ OpenStep \/ ReadyStep
                           \/ AnswerStep \/ ConnectStep \/ BeginStep \/ RetryStep
<1>1. ~DisconnectStep /\ ~StoppedStep
  <2>1. commands # <<>> => (Head(commands).cmd = "disconnect" => Asked(commands))
    BY AskedFacts DEF Inv, TypeOK, WorkerTypeOK
  <2> QED
    BY <2>1 DEF DisconnectStep, Taken, StoppedStep
<1>2. ASSUME cancel
      PROVE  ReplyStep
  <2>1. at = "idle" /\ ~active /\ Followed(commands)
    BY <1>2 DEF WindowOK, CancelOK
  <2>2. session = None
    BY <2>1 DEF Inv, WorkerOK
  <2>3. ~ConnectStep
    <3>1. ASSUME Taken({"connect"})
          PROVE  Asked(commands)
      BY <2>1, <3>1, TakenFacts DEF Taken
    <3> QED
      BY <3>1 DEF ConnectStep
  <2> QED
    BY <1>1, <2>1, <2>2, <2>3, WorkerKinds DEF LostStep, GivenUpStep, FatalStep, InnerStep, OpenStep,
       ReadyStep, AnswerStep, BeginStep, RetryStep, Ends
<1> QED
  BY <1>1, <1>2, WorkerKinds DEF GivenUpStep, Cancelled

\* While READY is shown.
LEMMA ReadyWorker ==
  ASSUME Inv, WindowOK, Worker, ~stopping, ~Asked(commands), state = "ready", ReadyOK,
         UNCHANGED <<state, busy, edited>>
  PROVE  ReadyOK'
<1>0. /\ events \in Seq(EventTypes) /\ commands \in Seq(CommandTypes)
      /\ at \in Operates \cup {"idle"} /\ "idle" \notin Operates
      /\ \A i \in DOMAIN events : events[i] \in EventTypes
  BY ElementOfSeq DEF Inv, TypeOK, WorkerTypeOK, ReadyOK, Operates, Serves
<1>1. ASSUME at \in Operates
      PROVE  /\ busy /\ commands = <<>> /\ DOMAIN events = {}
             /\ at \in Serves => ~edited
  BY <1>0, <1>1 DEF ReadyOK, Pending
<1>2. ASSUME at \in Operates, at' = "idle", UNCHANGED commands,
             NEW e \in EventTypes, Says(e),
             Shows("error", e) \/ e.kind \in {"problem", "macro"} \/ (Serving(e) /\ at \in Serves)
      PROVE  ReadyOK'
  <2>1. /\ DOMAIN events' = {1} /\ events'[1] = e
        /\ busy' /\ commands' = <<>>
    BY <1>0, <1>1, <1>2, JoinedOne
  <2>2. Replies(e) /\ ~Shows("retry_wait", e)
    BY <1>2 DEF Replies, Serving, Shows
  <2>3. Pending' => Serving(e)
    BY <1>2, <2>1 DEF Pending, Serves
  <2>4. Pending' => ~edited'
    BY <1>1, <1>2, <2>3 DEF Serving, Shows
  <2> QED
    BY <1>2, <2>1, <2>2, <2>4 DEF ReadyOK, Replies, Serving, Shows
<1>3. CASE LostStep
  <2>1. PICK e : /\ Plain(e, "retry_wait", generation)
                 /\ Says(e) \/ (at = "macro" /\ \E d : IsMacro(d) /\ SaysBoth(d, e))
    BY <1>3 DEF LostStep
  <2>2. /\ e \in EventTypes /\ Shows("retry_wait", e) /\ ~Replies(e) /\ ~Serving(e)
    BY <2>1 DEF Plain, Shows, Replies, Serving
  <2>3. at' = "idle" /\ UNCHANGED commands /\ session' = None
    BY <1>3 DEF LostStep
  <2>4. \A i \in DOMAIN events : Replies(events[i])
    BY <1>3 DEF LostStep, ReadyOK
  <2>5. CASE Says(e)
    <3>1. /\ Len(events) \in Nat /\ DOMAIN events = 1..Len(events)
          /\ DOMAIN events' = 1..Len(events) + 1
          /\ \A i \in 1..Len(events) : events'[i] = events[i]
          /\ events'[Len(events) + 1] = e
      BY <1>0, <2>2, <2>5, JoinedOne
    <3>2. \A i \in DOMAIN events' : (i \in DOMAIN events /\ events'[i] = events[i])
                                    \/ (i = Len(events) + 1 /\ events'[i] = e)
      BY <3>1
    <3>3. \A i, j \in DOMAIN events' : Shows("retry_wait", events'[i]) => ~(j > i)
      BY <2>2, <2>4, <3>1, <3>2 DEF Replies, Serving, Shows
    <3>4. \A i \in DOMAIN events' : Replies(events'[i]) => i \in DOMAIN events /\ events'[i] = events[i]
      BY <2>2, <3>2
    <3>5. \A i \in DOMAIN events' : Replies(events'[i]) \/ Shows("retry_wait", events'[i])
      BY <2>2, <2>4, <3>2
    <3>6. Pending' => Pending
      BY <2>2, <2>3, <3>2 DEF Pending, Serves, Serving
    <3> QED
      BY <2>3, <3>3, <3>4, <3>5, <3>6 DEF ReadyOK, One
  <2>6. CASE at = "macro" /\ \E d : IsMacro(d) /\ SaysBoth(d, e)
    <3>1. PICK d : IsMacro(d) /\ SaysBoth(d, e)
      BY <2>6
    <3>2. d \in EventTypes /\ Replies(d) /\ ~Serving(d) /\ ~Shows("retry_wait", d)
      BY <3>1 DEF IsMacro, Replies, Serving, Shows
    <3>3. at \in Operates
      BY <2>6 DEF Operates
    <3>4. Len(events) = 0
      BY <1>0, <1>1, <3>3
    <3>5. DOMAIN events' = {1, 2} /\ events'[1] = d /\ events'[2] = e
      BY <1>0, <2>2, <3>1, <3>2, <3>4, JoinedBoth
    <3> QED
      BY <1>1, <2>2, <2>3, <3>2, <3>3, <3>5 DEF ReadyOK, Pending, Serves
  <2> QED
    BY <2>1, <2>5, <2>6
<1>4. CASE FatalStep
  <2>1. PICK e : Plain(e, "error", generation) /\ Says(e)
    BY <1>4 DEF FatalStep
  <2>2. e \in EventTypes /\ Shows("error", e)
    BY <2>1 DEF Plain, Shows
  <2> QED
    BY <1>0, <1>2, <1>4, <2>1, <2>2 DEF FatalStep, Ends
<1>5. CASE InnerStep
  <2>1. /\ at \in Operates /\ at' \in Operates /\ UNCHANGED <<commands, session, events>>
        /\ at \in Serves <=> at' \in Serves
    BY <1>0, <1>5 DEF InnerStep, Operates
  <2>2. Pending' => Pending
    BY <2>1 DEF Pending, Serving
  <2> QED
    BY <1>1, <2>1, <2>2 DEF ReadyOK
<1>6. CASE AnswerStep /\ ~Cancelled
  <2>1. at \in Operates /\ at' = "idle" /\ UNCHANGED commands
    BY <1>0, <1>6 DEF AnswerStep, Ends
  <2>2. PICK e : /\ Reply(e) /\ e.kind # "devices" /\ Says(e)
                 /\ e.kind = "settings" => at \in Serves /\ e.op \in {"read", "apply"}
    BY <1>6 DEF AnswerStep
  <2>3. e \in EventTypes /\ (e.kind \in {"problem", "macro"} \/ (Serving(e) /\ at \in Serves))
    BY <2>2 DEF Reply, Serving
  <2> QED
    BY <1>2, <2>1, <2>2, <2>3
<1>7. ASSUME Taken({"scan", "read", "macro", "apply", "connect"})
      PROVE  /\ at = "idle" /\ busy /\ commands' = <<>>
             /\ Head(commands).cmd \in {"read", "apply", "macro"}
             /\ \A i \in DOMAIN events : Shows("retry_wait", events[i]) /\ ~Replies(events[i])
             /\ session = None \/ DOMAIN events = {}
  BY <1>0, <1>7, OneCommand DEF Taken, ReadyOK, One
<1>8. CASE ReplyStep
  <2>1. PICK e : Bare(e) /\ Says(e) /\ (e.kind = "devices" <=> Head(commands).cmd = "scan")
    BY <1>8 DEF ReplyStep
  <2>2. /\ at = "idle" /\ busy /\ commands' = <<>>
        /\ Head(commands).cmd \in {"read", "apply", "macro"}
        /\ \A i \in DOMAIN events : Shows("retry_wait", events[i]) /\ ~Replies(events[i])
    BY <1>7, <1>8 DEF ReplyStep, Taken
  <2>3. /\ e \in EventTypes /\ e.kind \in {"problem", "macro"} /\ Replies(e) /\ ~Serving(e)
        /\ ~Shows("retry_wait", e)
    BY <2>1, <2>2 DEF Bare, Reply, Replies, Serving, Shows
  <2>4. /\ Len(events) \in Nat /\ DOMAIN events = 1..Len(events)
        /\ DOMAIN events' = 1..Len(events) + 1
        /\ \A i \in 1..Len(events) : events'[i] = events[i]
        /\ events'[Len(events) + 1] = e
    BY <1>0, <2>1, <2>3, JoinedOne
  <2>5. \A i \in DOMAIN events' : (i \in DOMAIN events /\ events'[i] = events[i])
                                  \/ (i = Len(events) + 1 /\ events'[i] = e)
    BY <2>4
  <2>6. at' = "idle" /\ UNCHANGED session
    BY <1>8 DEF ReplyStep
  <2>7. ~Pending'
    BY <2>2, <2>3, <2>5, <2>6 DEF Pending, Serves, Serving, Shows
  <2>8. \A i \in DOMAIN events : Shows("retry_wait", events[i]) =>
          /\ session = None
          /\ \A j \in DOMAIN events : j > i => events[j].kind \in {"problem", "macro"}
    BY DEF ReadyOK
  <2>9. \A i \in DOMAIN events' : Shows("retry_wait", events'[i]) =>
          /\ session' = None
          /\ \A j \in DOMAIN events' : j > i => events'[j].kind \in {"problem", "macro"}
    BY <2>3, <2>4, <2>5, <2>6, <2>8
  <2>10. \A i \in DOMAIN events' : /\ Replies(events'[i]) \/ Shows("retry_wait", events'[i])
                                   /\ Replies(events'[i]) => i = Len(events) + 1
    BY <2>2, <2>3, <2>5
  <2> QED
    BY <2>2, <2>6, <2>7, <2>9, <2>10 DEF ReadyOK
<1>9. CASE BeginStep
  <2>1. /\ busy /\ commands' = <<>> /\ DOMAIN events = {}
        /\ Head(commands).cmd \in {"read", "apply", "macro"} /\ commands # <<>>
    BY <1>7, <1>9 DEF BeginStep, Taken
  <2>2. UNCHANGED <<session, events>> /\ at' \in Operates /\ at' # "idle"
    BY <1>9 DEF BeginStep, Operates, Serves
  <2>3. Pending' => Pending
    BY <1>9, <2>1, <2>2 DEF Pending, BeginStep, Serves
  <2> QED
    BY <2>1, <2>2, <2>3 DEF ReadyOK
<1>10. ~(OpenStep \/ ReadyStep \/ ConnectStep)
  <2>1. at \notin {"open", "read", "status"}
    BY <1>0 DEF Operates, Serves
  <2>2. ~Taken({"connect"})
    BY <1>7 DEF Taken
  <2> QED
    BY <2>1, <2>2 DEF OpenStep, ReadyStep, ConnectStep
<1>11. ~RetryStep
  <2>1. SettledAgree
    BY WindowSettles
  <2> QED
    BY <2>1 DEF SettledAgree, connected, RetryStep
<1> QED
  BY <1>3, <1>4, <1>5, <1>6, <1>8, <1>9, <1>10, <1>11, StayingKinds

\* While it is not.
LEMMA UnreadyWorker ==
  ASSUME Inv, WindowOK, Worker, ~stopping, ~Asked(commands), UnreadyOK,
         commands # <<>> => session = None /\ at = "idle" /\ events = <<>>
  PROVE  UnreadyOK'
<1>0. /\ events \in Seq(EventTypes) /\ at \in Steps
      /\ at \notin Operates
  BY DEF Inv, TypeOK, WorkerTypeOK, UnreadyOK
<1>1. ASSUME at' \notin Operates,
             NEW e \in EventTypes, Says(e), ~Serving(e), ~Shows("ready", e),
             \A i \in DOMAIN events : ~Shows("ready", events[i])
      PROVE  UnreadyOK'
  <2>1. /\ Len(events) \in Nat /\ DOMAIN events = 1..Len(events)
        /\ DOMAIN events' = 1..Len(events) + 1
        /\ \A i \in 1..Len(events) : events'[i] = events[i]
        /\ events'[Len(events) + 1] = e
    BY <1>0, <1>1, JoinedOne
  <2>2. \A i \in DOMAIN events' : (i \in DOMAIN events /\ events'[i] = events[i]) \/ events'[i] = e
    BY <2>1
  <2> QED
    BY <1>1, <2>2 DEF UnreadyOK
<1>2. ASSUME at # "idle"
      PROVE  commands = <<>> /\ \A i \in DOMAIN events : ~Shows("ready", events[i])
  BY <1>2 DEF UnreadyOK
<1>3. ASSUME commands # <<>>
      PROVE  \A i \in DOMAIN events : ~Shows("ready", events[i])
  <2>1. DOMAIN events = {}
    BY <1>3
  <2> QED
    BY <2>1
<1>4. CASE LostStep
  <2>1. PICK e : /\ Plain(e, "retry_wait", generation)
                 /\ Says(e) \/ (at = "macro" /\ \E d : IsMacro(d) /\ SaysBoth(d, e))
    BY <1>4 DEF LostStep
  <2>2. e \in EventTypes /\ Shows("retry_wait", e) /\ ~Shows("ready", e) /\ ~Serving(e) /\ Says(e)
    BY <1>0, <2>1 DEF Plain, Shows, Serving, Operates
  <2>3. at' = "idle" /\ UNCHANGED commands /\ session' = None /\ (at # "idle" \/ session # None)
    BY <1>4 DEF LostStep
  <2>4. /\ Len(events) \in Nat /\ DOMAIN events = 1..Len(events)
        /\ DOMAIN events' = 1..Len(events) + 1
        /\ \A i \in 1..Len(events) : events'[i] = events[i]
        /\ events'[Len(events) + 1] = e
    BY <1>0, <2>2, JoinedOne
  <2>5. \A i \in DOMAIN events' : (i \in DOMAIN events /\ events'[i] = events[i])
                                  \/ (i = Len(events) + 1 /\ events'[i] = e)
    BY <2>4
  <2>6. ASSUME NEW i \in DOMAIN events, Shows("ready", events[i])
        PROVE  i = Len(events) /\ commands = <<>>
    <3>1. commands = <<>> /\ at = "idle" /\ session # None
      BY <2>3, <2>6 DEF UnreadyOK
    <3>2. \A j \in DOMAIN events : ~(j > i)
      BY <2>6, <3>1 DEF UnreadyOK
    <3> QED
      BY <2>4, <3>1, <3>2
  <2>7. ASSUME NEW i \in DOMAIN events', Shows("ready", events'[i])
        PROVE  /\ commands' = <<>>
               /\ \A j \in DOMAIN events' : j > i =>
                    j = i + 1 /\ Shows("retry_wait", events'[j]) /\ session' = None
    <3>1. i \in DOMAIN events /\ events'[i] = events[i]
      BY <2>2, <2>5, <2>7
    <3>2. i = Len(events) /\ commands = <<>>
      BY <2>6, <2>7, <3>1
    <3>3. \A j \in DOMAIN events' : j > i => j = i + 1 /\ events'[j] = e
      BY <2>4, <3>2
    <3> QED
      BY <2>2, <2>3, <3>2, <3>3
  <2>8. \A i \in DOMAIN events' : ~Serving(events'[i])
    BY <2>2, <2>5 DEF UnreadyOK
  <2>9. at' \notin Operates
    BY <2>3 DEF Operates, Serves
  <2> QED
    BY <2>3, <2>7, <2>8, <2>9 DEF UnreadyOK
<1>5. CASE FatalStep \/ OpenStep \/ RetryStep
  <2>1. at' \notin Operates
    BY <1>5 DEF FatalStep, OpenStep, RetryStep, Ends, Operates, Serves
  <2>2. PICK e \in EventTypes : Says(e) /\ ~Serving(e) /\ ~Shows("ready", e)
    BY <1>5 DEF FatalStep, OpenStep, RetryStep, Plain, Serving, Shows
  <2>3. at # "idle" \/ events = <<>>
    BY <1>5 DEF FatalStep, OpenStep, RetryStep, Ends
  <2>4. \A i \in DOMAIN events : ~Shows("ready", events[i])
    <3>1. CASE events = <<>>
      <4>1. DOMAIN events = {}
        BY <3>1
      <4> QED
        BY <4>1
    <3> QED
      BY <1>2, <2>3, <3>1
  <2> QED
    BY <1>1, <2>1, <2>2, <2>4
<1>6. CASE InnerStep
  <2>1. at' \notin Operates /\ at # "idle" /\ UNCHANGED <<events, commands>>
    BY <1>0, <1>6 DEF InnerStep, Operates
  <2> QED
    BY <1>2, <2>1 DEF UnreadyOK
<1>7. CASE ReadyStep
  <2>1. PICK d, e : /\ d \in EventTypes /\ d.kind = "settings"
                    /\ d.op \in {"connect", "reconnect", "recover_save"}
                    /\ e \in EventTypes /\ e.kind = "connection" /\ e.state = "ready"
                    /\ SaysBoth(d, e)
    BY <1>7 DEF ReadyStep
  <2>2. ~Serving(d) /\ ~Serving(e) /\ ~Shows("ready", d)
    BY <2>1 DEF Serving, Shows
  <2>3. /\ Len(events) \in Nat /\ DOMAIN events = 1..Len(events)
        /\ DOMAIN events' = 1..Len(events) + 2
        /\ \A i \in 1..Len(events) : events'[i] = events[i]
        /\ events'[Len(events) + 1] = d /\ events'[Len(events) + 2] = e
    BY <1>0, <2>1, JoinedBoth
  <2>4. \A i \in DOMAIN events' : \/ i \in DOMAIN events /\ events'[i] = events[i]
                                  \/ events'[i] = d
                                  \/ i = Len(events) + 2 /\ events'[i] = e
    BY <2>3
  <2>5. at # "idle" /\ at' = "idle" /\ UNCHANGED commands
    BY <1>7 DEF ReadyStep, Ends
  <2>6. commands' = <<>> /\ \A i \in DOMAIN events : ~Shows("ready", events[i])
    BY <1>2, <2>5
  <2>7. \A i \in DOMAIN events' : ~Serving(events'[i])
    BY <2>2, <2>4 DEF UnreadyOK
  <2>8. \A i \in DOMAIN events' : Shows("ready", events'[i]) => i = Len(events) + 2
    BY <2>2, <2>4, <2>6
  <2>9. \A i \in DOMAIN events' : Shows("ready", events'[i]) => \A j \in DOMAIN events' : ~(j > i)
    BY <2>3, <2>8
  <2>10. at' \notin Operates
    BY <2>5 DEF Operates, Serves
  <2> QED
    BY <2>5, <2>6, <2>7, <2>9, <2>10 DEF UnreadyOK
<1>8. CASE ReplyStep
  <2>1. commands # <<>> /\ at' \notin Operates
    BY <1>8 DEF ReplyStep, Taken, Operates, Serves
  <2>2. PICK e \in EventTypes : Says(e) /\ ~Serving(e) /\ ~Shows("ready", e)
    BY <1>8 DEF ReplyStep, Bare, Reply, Serving, Shows
  <2> QED
    BY <1>1, <1>3, <2>1, <2>2
<1>9. CASE ConnectStep /\ ~Cancelled
  <2>1. commands # <<>> /\ at' \notin Operates
    BY <1>9 DEF ConnectStep, Taken, Operates, Serves
  <2>2. PICK e \in EventTypes : Says(e) /\ ~Serving(e) /\ ~Shows("ready", e)
    BY <1>9 DEF ConnectStep, Plain, Serving, Shows
  <2> QED
    BY <1>1, <1>3, <2>1, <2>2
<1>10. ~AnswerStep /\ ~BeginStep
  BY <1>0 DEF AnswerStep, Ends, BeginStep, Taken, Steps, Operates, Serves
<1> QED
  BY <1>4, <1>5, <1>6, <1>7, <1>8, <1>9, <1>10, StayingKinds

\* No command to disconnect, no such signal, and no error but the last.
LEMMA QuietWorker ==
  ASSUME Inv, WindowOK, Worker, ~stopping, ~Asked(commands), ~Soon(events), ErrorOK,
         commands # <<>> => at = "idle"
  PROVE  ~Asked(commands') /\ ~Soon(events') /\ ErrorOK'
<1>0. events \in Seq(EventTypes)
  BY DEF Inv, TypeOK, WorkerTypeOK
<1>1. \A i \in DOMAIN events : ~Leaves(events[i]) /\ ~Shows("error", events[i])
  BY WorkerRests DEF Soon, ErrorOK, Over
<1>2. ~Asked(commands')
  <2>1. ASSUME NEW cmds, Taken(cmds)
        PROVE  ~Asked(commands')
    BY <2>1, TakenFacts
  <2>2. UNCHANGED commands \/ \E cmds : Taken(cmds)
    BY StayingKinds DEF LostStep, FatalStep, InnerStep, OpenStep, ReadyStep, AnswerStep, ConnectStep,
       ReplyStep, BeginStep, RetryStep, Ends
  <2> QED
    BY <2>1, <2>2 DEF Asked
<1>3. ASSUME NEW e \in EventTypes, Says(e), ~Leaves(e),
             ~Shows("error", e) \/ (commands' = <<>> /\ at' = "idle" /\ ~active')
      PROVE  ~Soon(events') /\ ErrorOK'
  <2>1. /\ Len(events) \in Nat /\ DOMAIN events = 1..Len(events)
        /\ Len(events') = Len(events) + 1 /\ DOMAIN events' = 1..Len(events) + 1
        /\ \A i \in 1..Len(events) : events'[i] = events[i]
        /\ events'[Len(events) + 1] = e
    BY <1>0, <1>3, JoinedOne
  <2>2. \A i \in DOMAIN events' : (i \in DOMAIN events /\ events'[i] = events[i])
                                  \/ (i = Len(events') /\ events'[i] = e)
    BY <2>1
  <2>3. \A i \in DOMAIN events' : ~Leaves(events'[i])
    BY <1>1, <1>3, <2>2
  <2>4. \A i \in DOMAIN events' : Shows("error", events'[i]) =>
          i = Len(events') /\ commands' = <<>> /\ at' = "idle" /\ ~active'
    BY <1>1, <1>3, <2>2
  <2> QED
    BY <2>3, <2>4 DEF Soon, ErrorOK, Over
<1>4. ASSUME NEW d \in EventTypes, NEW e \in EventTypes, SaysBoth(d, e),
             ~Leaves(d), ~Leaves(e), ~Shows("error", d), ~Shows("error", e)
      PROVE  ~Soon(events') /\ ErrorOK'
  <2>1. /\ Len(events) \in Nat /\ DOMAIN events = 1..Len(events)
        /\ DOMAIN events' = 1..Len(events) + 2
        /\ \A i \in 1..Len(events) : events'[i] = events[i]
        /\ events'[Len(events) + 1] = d /\ events'[Len(events) + 2] = e
    BY <1>0, <1>4, JoinedBoth
  <2>2. \A i \in DOMAIN events' : \/ i \in DOMAIN events /\ events'[i] = events[i]
                                  \/ events'[i] = d \/ events'[i] = e
    BY <2>1
  <2>3. \A i \in DOMAIN events' : ~Leaves(events'[i]) /\ ~Shows("error", events'[i])
    BY <1>1, <1>4, <2>2
  <2> QED
    BY <2>3 DEF Soon, ErrorOK
<1>5. ASSUME UNCHANGED events
      PROVE  ~Soon(events') /\ ErrorOK'
  BY <1>1, <1>5 DEF Soon, ErrorOK
<1>6. CASE LostStep
  <2>1. PICK e : /\ Plain(e, "retry_wait", generation)
                 /\ Says(e) \/ (at = "macro" /\ \E d : IsMacro(d) /\ SaysBoth(d, e))
    BY <1>6 DEF LostStep
  <2> QED
    BY <1>2, <1>3, <1>4, <2>1 DEF Plain, IsMacro, Leaves, Shows
<1>7. CASE FatalStep
  <2>1. commands' = <<>> /\ at' = "idle" /\ ~active'
    BY <1>7 DEF FatalStep, Ends
  <2> QED
    BY <1>2, <1>3, <1>7, <2>1 DEF FatalStep, Plain, Leaves
<1>8. CASE ReadyStep
  BY <1>2, <1>4, <1>8 DEF ReadyStep, Leaves, Shows
<1>9. CASE OpenStep \/ RetryStep \/ (ConnectStep /\ ~Cancelled)
  BY <1>2, <1>3, <1>9 DEF OpenStep, RetryStep, ConnectStep, Plain, Leaves, Shows
<1>10. CASE (AnswerStep /\ ~Cancelled) \/ ReplyStep
  BY <1>2, <1>3, <1>10 DEF AnswerStep, ReplyStep, Bare, Reply, Leaves, Shows
<1>11. CASE InnerStep \/ BeginStep
  BY <1>2, <1>5, <1>11 DEF InnerStep, BeginStep
<1> QED
  BY <1>2, <1>6, <1>7, <1>8, <1>9, <1>10, <1>11, StayingKinds

\* While the link is sought.
LEMMA TryingWorker ==
  ASSUME Inv, WindowOK, Worker, ~stopping, ~Asked(commands), TryingOK
  PROVE  TryingOK'
<1>1. commands \in Seq(CommandTypes)
  BY DEF Inv, TypeOK, WorkerTypeOK
<1>2. ASSUME NEW cmds, Taken(cmds)
      PROVE  commands' = <<>>
  BY <1>1, <1>2, OneCommand DEF Taken, TryingOK
<1>3. ASSUME UNCHANGED commands, commands # <<>>
      PROVE  FALSE
  <2>1. at = "idle" /\ session = None
    BY <1>3 DEF TryingOK
  <2>2. Tail(commands) # commands
    BY <1>1, <1>3, HeadTailProperties
  <2> QED
    BY <1>3, <2>1, <2>2, StayingKinds DEF LostStep, FatalStep, InnerStep, OpenStep, ReadyStep, AnswerStep,
       ConnectStep, ReplyStep, BeginStep, RetryStep, Ends, Taken
<1>4. UNCHANGED commands \/ \E cmds : Taken(cmds)
  BY StayingKinds DEF LostStep, FatalStep, InnerStep, OpenStep, ReadyStep, AnswerStep, ConnectStep,
     ReplyStep, BeginStep, RetryStep, Ends
<1> QED
  BY <1>2, <1>3, <1>4 DEF TryingOK

\* While there is none.
LEMMA OffWorker ==
  ASSUME Inv, WindowOK, Worker, ~stopping, ~Asked(commands), OffOK, UNCHANGED busy
  PROVE  OffOK'
<1>0. commands \in Seq(CommandTypes) /\ events \in Seq(EventTypes)
  BY DEF Inv, TypeOK, WorkerTypeOK
<1>1. CASE commands # <<>>
  <2>1. /\ One({"scan", "connect"}) /\ events = <<>> /\ at = "idle" /\ ~active /\ busy
        /\ session = None
    BY <1>1 DEF OffOK, Inv, WorkerOK
  <2>2. ASSUME NEW cmds, Taken(cmds)
        PROVE  commands' = <<>>
    BY <1>0, <2>1, <2>2, OneCommand DEF Taken
  <2>3. CASE ReplyStep
    <3>1. commands' = <<>> /\ at' = "idle" /\ ~active' /\ Head(commands).cmd = "scan"
      BY <2>1, <2>2, <2>3 DEF ReplyStep, Taken, One
    <3>2. PICK e \in EventTypes : Says(e) /\ e.kind = "devices"
      BY <2>3, <3>1 DEF ReplyStep, Bare, Reply
    <3>3. Len(events) = 0
      BY <2>1
    <3>4. Len(events') = 1 /\ Head(events') = e /\ events' # <<>>
      BY <1>0, <2>1, <3>2, <3>3, JoinedOne
    <3> QED
      BY <2>1, <3>1, <3>2, <3>4 DEF OffOK
  <2>4. CASE ConnectStep /\ ~Cancelled
    <3>1. commands' = <<>>
      BY <2>2, <2>4 DEF ConnectStep
    <3>2. PICK e \in EventTypes : Says(e) /\ Shows("connecting", e)
      BY <2>4 DEF ConnectStep, Plain, Shows
    <3>3. Head(events') = e /\ events' # <<>>
      BY <1>0, <2>1, <3>2, JoinedOne
    <3> QED
      BY <2>1, <3>1, <3>2, <3>3 DEF OffOK
  <2> QED
    BY <2>1, <2>3, <2>4, StayingKinds DEF LostStep, FatalStep, InnerStep, OpenStep, ReadyStep, AnswerStep,
       BeginStep, RetryStep, Ends
<1>2. CASE commands = <<>>
  <2>1. ~(at = "idle" /\ ~active)
    BY <1>2, WorkerRests
  <2>2. events # <<>> /\ busy /\ Shows("connecting", Head(events))
    BY <1>2, <2>1 DEF OffOK
  <2>3. commands' = <<>>
    BY <1>2, StayingKinds DEF LostStep, FatalStep, InnerStep, OpenStep, ReadyStep, AnswerStep, ConnectStep,
       ReplyStep, BeginStep, RetryStep, Ends, Taken
  <2>4. events' # <<>> /\ Head(events') = Head(events)
    <3>1. ASSUME NEW e \in EventTypes, Says(e)
          PROVE  events' # <<>> /\ Head(events') = Head(events)
      BY <1>0, <2>2, <3>1, JoinedOne
    <3>2. ASSUME NEW d \in EventTypes, NEW e \in EventTypes, SaysBoth(d, e)
          PROVE  events' # <<>> /\ Head(events') = Head(events)
      BY <1>0, <2>2, <3>2, JoinedBoth
    <3>3. \/ UNCHANGED events
          \/ \E e \in EventTypes : Says(e)
          \/ \E d, e \in EventTypes : SaysBoth(d, e)
      BY StayingKinds DEF LostStep, FatalStep, InnerStep, OpenStep, ReadyStep, AnswerStep, ConnectStep,
         ReplyStep, BeginStep, RetryStep, Plain, IsMacro, Bare, Reply
    <3> QED
      BY <2>2, <3>1, <3>2, <3>3
  <2> QED
    BY <2>2, <2>3, <2>4 DEF OffOK
<1> QED
  BY <1>1, <1>2

\* While the user leaves.
LEMMA LeavingWorker ==
  ASSUME Inv, Worker, ~stopping, LeavingOK
  PROVE  LeavingOK'
<1>0. commands \in Seq(CommandTypes) /\ events \in Seq(EventTypes)
  BY DEF Inv, TypeOK, WorkerTypeOK
<1>1. \A i \in DOMAIN events : ~Leaves(events[i])
  BY WorkerRests DEF LeavingOK, Over
<1>2. \A i \in DOMAIN commands' : commands'[i].cmd = "disconnect" => i = Len(commands')
  <2>1. ASSUME commands # <<>>, commands' = Tail(commands)
        PROVE  \A i \in DOMAIN commands' : commands'[i].cmd = "disconnect" => i = Len(commands')
    <3> DEFINE q == commands
               r == Tail(q)
    <3>1. /\ Len(q) \in Nat /\ DOMAIN q = 1..Len(q)
          /\ Len(r) = Len(q) - 1 /\ DOMAIN r = 1..Len(q) - 1
          /\ \A i \in 1..Len(q) - 1 : r[i] = q[i + 1]
      BY <1>0, <2>1, HeadTailProperties
    <3>2. commands' = r /\ \A i \in DOMAIN q : q[i].cmd = "disconnect" => i = Len(q)
      BY <2>1 DEF LeavingOK
    <3> HIDE DEF q, r
    <3>3. \A i \in DOMAIN r : i + 1 \in DOMAIN q /\ r[i] = q[i + 1]
      BY <3>1
    <3>4. \A i \in DOMAIN r : r[i].cmd = "disconnect" => i = Len(r)
      BY <3>1, <3>2, <3>3
    <3> QED
      BY <3>2, <3>4
  <2>2. UNCHANGED commands \/ (commands # <<>> /\ commands' = Tail(commands))
    BY WorkerKinds DEF LostStep, GivenUpStep, FatalStep, InnerStep, OpenStep, ReadyStep, AnswerStep,
       DisconnectStep, ConnectStep, ReplyStep, BeginStep, RetryStep, StoppedStep, Ends, Taken
  <2> QED
    BY <2>1, <2>2 DEF LeavingOK
<1>3. ASSUME NEW e \in EventTypes, Says(e),
             ~Leaves(e) \/ (commands' = <<>> /\ at' = "idle" /\ ~active')
      PROVE  LeavingOK'
  <2>1. /\ Len(events) \in Nat /\ DOMAIN events = 1..Len(events)
        /\ Len(events') = Len(events) + 1 /\ DOMAIN events' = 1..Len(events) + 1
        /\ \A i \in 1..Len(events) : events'[i] = events[i]
        /\ events'[Len(events) + 1] = e
    BY <1>0, <1>3, JoinedOne
  <2>2. \A i \in DOMAIN events' : (i \in DOMAIN events /\ events'[i] = events[i])
                                  \/ (i = Len(events') /\ events'[i] = e)
    BY <2>1
  <2>3. \A i \in DOMAIN events' : Leaves(events'[i]) =>
          i = Len(events') /\ commands' = <<>> /\ at' = "idle" /\ ~active'
    BY <1>1, <1>3, <2>2
  <2> QED
    BY <1>2, <2>3 DEF LeavingOK, Over
<1>4. ASSUME NEW d \in EventTypes, NEW e \in EventTypes, SaysBoth(d, e), ~Leaves(d), ~Leaves(e)
      PROVE  LeavingOK'
  <2>1. /\ Len(events) \in Nat /\ DOMAIN events = 1..Len(events)
        /\ DOMAIN events' = 1..Len(events) + 2
        /\ \A i \in 1..Len(events) : events'[i] = events[i]
        /\ events'[Len(events) + 1] = d /\ events'[Len(events) + 2] = e
    BY <1>0, <1>4, JoinedBoth
  <2>2. \A i \in DOMAIN events' : \/ i \in DOMAIN events /\ events'[i] = events[i]
                                  \/ events'[i] = d \/ events'[i] = e
    BY <2>1
  <2>3. \A i \in DOMAIN events' : ~Leaves(events'[i])
    BY <1>1, <1>4, <2>2
  <2> QED
    BY <1>2, <2>3 DEF LeavingOK
<1>5. ASSUME UNCHANGED events
      PROVE  LeavingOK'
  BY <1>1, <1>2, <1>5 DEF LeavingOK
<1>6. CASE LostStep
  BY <1>3, <1>4, <1>6 DEF LostStep, Plain, IsMacro, Leaves
<1>7. CASE GivenUpStep
  BY <1>3, <1>5, <1>7 DEF GivenUpStep, IsMacro, Leaves
<1>8. CASE FatalStep \/ OpenStep \/ RetryStep
  BY <1>3, <1>8 DEF FatalStep, OpenStep, RetryStep, Plain, Leaves
<1>9. CASE ReadyStep
  BY <1>4, <1>9 DEF ReadyStep, Leaves
<1>10. CASE AnswerStep
  BY <1>3, <1>5, <1>10 DEF AnswerStep, Reply, Leaves
<1>11. CASE ReplyStep
  BY <1>3, <1>11 DEF ReplyStep, Bare, Reply, Leaves
<1>12. CASE ConnectStep
  BY <1>3, <1>5, <1>12 DEF ConnectStep, Plain, Leaves
<1>13. CASE InnerStep \/ BeginStep
  BY <1>5, <1>13 DEF InnerStep, BeginStep
<1>14. CASE DisconnectStep
  <2>1. /\ commands # <<>> /\ Head(commands).cmd = "disconnect" /\ commands' = Tail(commands)
        /\ at' = "idle" /\ ~active'
    BY <1>14 DEF DisconnectStep, Taken
  <2>2. 1 \in DOMAIN commands /\ commands[1] = Head(commands)
    BY <1>0, <2>1, RestOf
  <2>3. Len(commands) = 1
    BY <2>1, <2>2 DEF LeavingOK
  <2>4. commands' = <<>>
    BY <1>0, <2>1, <2>3, OneCommand DEF One
  <2> QED
    BY <1>3, <1>14, <2>1, <2>4 DEF DisconnectStep, Plain
<1>15. ~StoppedStep
  BY DEF StoppedStep
<1> QED
  BY <1>6, <1>7, <1>8, <1>9, <1>10, <1>11, <1>12, <1>13, <1>14, <1>15, WorkerKinds

\* The worker keeps what the user has edited.
LEMMA EditWorker ==
  ASSUME Inv, WindowOK, EditOK, Worker, UNCHANGED <<windowVars, userVars>>
  PROVE  EditOK'
<1>1. /\ UNCHANGED <<state, leaving, busy, hasty, edited, stopping>>
      /\ state \in States
  BY WorkerKinds DEF windowVars, userVars, Inv, TypeOK
<1>2. ASSUME ~hasty, ~stopping, leaving
      PROVE  LeavingOK'
  BY <1>2, LeavingWorker DEF EditOK
<1>3. ASSUME ~hasty, ~stopping, ~leaving
      PROVE  StayingOK'
  <2>1. StayingOK
    BY <1>3 DEF EditOK
  <2>2. state \in {"connecting", "reading", "retry_wait"} \/ state \in {"disconnected", "error"}
        \/ state = "ready"
    BY <1>1 DEF States
  <2>3. commands # <<>> => at = "idle"
    BY <2>1, <2>2 DEF StayingOK, ReadyOK, TryingOK, OffOK
  <2>4. ~Asked(commands') /\ ~Soon(events') /\ ErrorOK'
    BY <1>3, <2>1, <2>3, QuietWorker DEF StayingOK
  <2>5. ASSUME state = "ready"
        PROVE  ReadyOK'
    BY <1>1, <1>3, <2>1, <2>5, ReadyWorker DEF StayingOK
  <2>6. ASSUME state # "ready"
        PROVE  UnreadyOK'
    <3>1. ~active => session = None
      BY DEF Inv, WorkerOK
    <3>2. commands # <<>> => session = None /\ at = "idle" /\ events = <<>>
      BY <2>1, <2>2, <2>6, <3>1 DEF StayingOK, TryingOK, OffOK
    <3> QED
      BY <1>3, <2>1, <2>6, <3>2, UnreadyWorker DEF StayingOK
  <2>7. state \in {"connecting", "reading", "retry_wait"} => TryingOK'
    BY <1>3, <2>1, TryingWorker DEF StayingOK
  <2>8. state \in {"disconnected", "error"} => OffOK'
    BY <1>1, <1>3, <2>1, OffWorker DEF StayingOK
  <2> QED
    BY <1>1, <2>4, <2>5, <2>6, <2>7, <2>8 DEF StayingOK, Soon, Asked
<1> QED
  BY <1>1, <1>2, <1>3 DEF EditOK

\* What a signal that is taken leaves as it was.
LEMMA SignalFrame ==
  ASSUME Inv, Signal
  PROVE  /\ events \in Seq(EventTypes) /\ events # <<>> /\ events' = Tail(events) /\ ~stopping
         /\ UNCHANGED <<commands, stopping, at, active, session, hasty, edited>>
         /\ Len(events) \in Nat /\ Len(events) >= 1 /\ DOMAIN events = 1..Len(events)
         /\ Len(events') = Len(events) - 1 /\ DOMAIN events' = 1..Len(events) - 1
         /\ events[1] = Head(events) /\ 1 \in DOMAIN events
         /\ \A i \in DOMAIN events' : i \in Nat /\ i + 1 \in DOMAIN events /\ events'[i] = events[i + 1]
         /\ Len(events) = 1 => events' = <<>>
<1>1. /\ events \in Seq(EventTypes) /\ events # <<>> /\ events' = Tail(events) /\ ~stopping
      /\ UNCHANGED <<commands, stopping, at, active, session, hasty, edited>>
  BY DEF Inv, TypeOK, WorkerTypeOK, Signal, OnDevices, OnConnection, OnSettings, OnProblem, OnMacro,
     Handle, linkVars, handleVars, userVars
<1>2. /\ Len(events) \in Nat /\ Len(events) >= 1 /\ DOMAIN events = 1..Len(events)
      /\ Len(events') = Len(events) - 1 /\ DOMAIN events' = 1..Len(events) - 1
      /\ events[1] = Head(events)
      /\ \A i \in 1..Len(events) - 1 : events'[i] = events[i + 1]
      /\ Len(events) = 1 => events' = <<>>
  BY <1>1, TakenOne
<1>3. \A i \in DOMAIN events' : i \in Nat /\ i + 1 \in DOMAIN events /\ events'[i] = events[i + 1]
  BY <1>2
<1>4. 1 \in DOMAIN events
  BY <1>2
<1> QED
  BY <1>1, <1>2, <1>3, <1>4

\* The facts about the signals that hold of the rest of them.
LEMMA RestQuiet ==
  ASSUME Inv, Signal, ~Asked(commands), ~Soon(events), ErrorOK
  PROVE  /\ ~Asked(commands') /\ ~Soon(events') /\ ErrorOK'
         /\ ~Leaves(Head(events))
         /\ Shows("error", Head(events)) => /\ events' = <<>> /\ commands' = <<>>
                                            /\ at' = "idle" /\ ~active'
<1>1. ~Asked(commands')
  BY SignalFrame DEF Asked
<1>2. ~Soon(events') /\ ~Leaves(Head(events))
  BY SignalFrame DEF Soon
<1>3. ASSUME NEW i \in DOMAIN events', Shows("error", events'[i])
      PROVE  i = Len(events') /\ commands' = <<>> /\ at' = "idle" /\ ~active'
  <2>1. i \in Nat /\ i + 1 \in DOMAIN events /\ Shows("error", events[i + 1])
    BY <1>3, SignalFrame
  <2>2. i + 1 = Len(events) /\ commands = <<>> /\ at = "idle" /\ ~active
    BY <2>1 DEF ErrorOK, Over
  <2> QED
    BY <2>1, <2>2, SignalFrame
<1>4. ASSUME Shows("error", Head(events))
      PROVE  events' = <<>> /\ commands' = <<>> /\ at' = "idle" /\ ~active'
  <2>1. Over(1)
    BY <1>4, SignalFrame DEF ErrorOK
  <2> QED
    BY <2>1, SignalFrame DEF Over
<1> QED
  BY <1>1, <1>2, <1>3, <1>4 DEF ErrorOK, Over

LEMMA RestUnready ==
  ASSUME Inv, Signal, UnreadyOK
  PROVE  UnreadyOK'
<1>1. at' \notin Operates /\ \A i \in DOMAIN events' : ~Serving(events'[i])
  BY SignalFrame DEF UnreadyOK
<1>2. ASSUME NEW i \in DOMAIN events', Shows("ready", events'[i])
      PROVE  /\ commands' = <<>> /\ at' = "idle"
             /\ \A j \in DOMAIN events' : j > i =>
                  j = i + 1 /\ Shows("retry_wait", events'[j]) /\ session' = None
  <2>1. i \in Nat /\ i + 1 \in DOMAIN events /\ Shows("ready", events[i + 1])
    BY <1>2, SignalFrame
  <2>2. commands' = <<>> /\ at' = "idle"
    BY <2>1, SignalFrame DEF UnreadyOK
  <2>3. ASSUME NEW j \in DOMAIN events', j > i
        PROVE  j = i + 1 /\ Shows("retry_wait", events'[j]) /\ session' = None
    <3>1. j \in Nat /\ j + 1 \in DOMAIN events /\ events'[j] = events[j + 1]
      BY SignalFrame
    <3>2. j + 1 > i + 1
      BY <2>1, <2>3, <3>1
    <3>3. j + 1 = i + 1 + 1 /\ Shows("retry_wait", events[j + 1]) /\ session = None
      BY <2>1, <3>1, <3>2 DEF UnreadyOK
    <3> QED
      BY <2>1, <3>1, <3>3, SignalFrame
  <2> QED
    BY <2>2, <2>3
<1> QED
  BY <1>1, <1>2 DEF UnreadyOK

\* A signal the window takes while it shows READY.
LEMMA ReadySignal ==
  ASSUME Inv, GenOK, Signal, ~leaving, StayingOK, state = "ready"
  PROVE  StayingOK'
<1>0. /\ ReadyOK /\ ~Asked(commands') /\ ~Soon(events') /\ ErrorOK' /\ ~Leaves(Head(events))
      /\ Shows("error", Head(events)) => /\ events' = <<>> /\ commands' = <<>>
                                         /\ at' = "idle" /\ ~active'
  BY RestQuiet DEF StayingOK
<1>1. Replies(Head(events)) \/ Shows("retry_wait", Head(events))
  BY <1>0, SignalFrame DEF ReadyOK
<1>2. CASE OnConnection
  <2>1. /\ state' = Head(events).state /\ Head(events).kind = "connection"
        /\ busy' = (Head(events).state \in {"connecting", "reading"})
    BY <1>2, GenSignal DEF OnConnection, Handle, Outdated
  <2>2. CASE Shows("error", Head(events))
    <3>1. DOMAIN events' = {}
      BY <1>0, <2>2
    <3>2. UnreadyOK'
      BY <1>0, <2>2, <3>1 DEF UnreadyOK, Operates, Serves
    <3>3. OffOK'
      BY <1>0, <2>2 DEF OffOK
    <3> QED
      BY <1>0, <2>1, <2>2, <3>2, <3>3 DEF StayingOK, Shows
  <2>3. CASE Shows("retry_wait", Head(events))
    <3>1. /\ session = None /\ at = "idle"
          /\ \A j \in DOMAIN events : j > 1 => events[j].kind \in {"problem", "macro"}
      BY <1>0, <2>3, SignalFrame DEF ReadyOK
    <3>2. \A j \in DOMAIN events' : events'[j].kind \in {"problem", "macro"} /\ Replies(events'[j])
      <4>1. ASSUME NEW j \in DOMAIN events'
            PROVE  events'[j].kind \in {"problem", "macro"}
        <5>1. j + 1 \in DOMAIN events /\ events'[j] = events[j + 1] /\ j + 1 > 1
          BY SignalFrame
        <5> QED
          BY <3>1, <5>1
      <4> QED
        BY <4>1 DEF Replies
    <3>3. UnreadyOK'
      BY <3>1, <3>2, SignalFrame DEF UnreadyOK, Operates, Serves, Serving, Shows
    <3>4. commands # <<>> => DOMAIN events' = {}
      BY <1>0, <3>2, SignalFrame DEF ReadyOK
    <3>5. TryingOK'
      <4>1. commands # <<>> => events' = <<>>
        BY <3>4, SignalFrame
      <4> QED
        BY <1>0, <3>1, <4>1, SignalFrame DEF TryingOK, ReadyOK, One
    <3> QED
      BY <1>0, <2>1, <2>3, <3>3, <3>5 DEF StayingOK, Shows
  <2> QED
    BY <1>1, <2>1, <2>2, <2>3 DEF Replies, Serving, Shows
<1>3. CASE OnSettings \/ OnProblem \/ OnMacro
  <2>1. Replies(Head(events)) /\ busy' = FALSE /\ UNCHANGED state
    BY <1>1, <1>3 DEF OnSettings, OnProblem, OnMacro, Handle, Shows
  <2>2. commands' = <<>> /\ at' = "idle"
    BY <1>0, <2>1, SignalFrame DEF ReadyOK
  <2>3. \A i \in DOMAIN events' : ~Replies(events'[i])
    <3>1. ASSUME NEW i \in DOMAIN events', Replies(events'[i])
          PROVE  FALSE
      <4>1. i \in Nat /\ i + 1 \in DOMAIN events /\ Replies(events[i + 1]) /\ 1 <= i
        BY <3>1, SignalFrame
      <4>2. i + 1 = 1
        BY <1>0, <2>1, <4>1, SignalFrame DEF ReadyOK
      <4> QED
        BY <4>1, <4>2
    <3> QED
      BY <3>1
  <2>4. ~Pending'
    BY <2>2, <2>3 DEF Pending, Serves, Replies, Serving
  <2>5. ASSUME NEW i \in DOMAIN events', Shows("retry_wait", events'[i])
        PROVE  /\ session' = None
               /\ \A j \in DOMAIN events' : j > i => events'[j].kind \in {"problem", "macro"}
    <3>1. i \in Nat /\ i + 1 \in DOMAIN events /\ Shows("retry_wait", events[i + 1])
      BY <2>5, SignalFrame
    <3>2. /\ session = None
          /\ \A j \in DOMAIN events : j > i + 1 => events[j].kind \in {"problem", "macro"}
      BY <1>0, <3>1 DEF ReadyOK
    <3>3. ASSUME NEW j \in DOMAIN events', j > i
          PROVE  events'[j].kind \in {"problem", "macro"}
      <4>1. j \in Nat /\ j + 1 \in DOMAIN events /\ events'[j] = events[j + 1]
        BY SignalFrame
      <4>2. j + 1 > i + 1
        BY <3>1, <3>3, <4>1
      <4> QED
        BY <3>2, <4>1, <4>2
    <3> QED
      BY <3>2, <3>3, SignalFrame
  <2>6. \A i \in DOMAIN events' : Replies(events'[i]) \/ Shows("retry_wait", events'[i])
    BY <1>0, SignalFrame DEF ReadyOK
  <2>7. ReadyOK'
    BY <2>1, <2>2, <2>3, <2>4, <2>5, <2>6 DEF ReadyOK
  <2> QED
    BY <1>0, <2>1, <2>7 DEF StayingOK
<1>4. ~OnDevices
  BY <1>1 DEF OnDevices, Handle, Replies, Serving, Shows
<1> QED
  BY <1>2, <1>3, <1>4 DEF Signal

\* An error ends the connection: the worker rests, and so do the signals.
LEMMA ErrorSignal ==
  ASSUME events' = <<>>, commands' = <<>>, at' = "idle", ~active'
  PROVE  UnreadyOK' /\ OffOK'
<1>1. DOMAIN events' = {}
  OBVIOUS
<1> QED
  BY <1>1 DEF UnreadyOK, OffOK, Operates, Serves

\* A signal the window takes while it does not show READY.
LEMMA TryingSignal ==
  ASSUME Inv, GenOK, Signal, ~leaving, StayingOK, state \in {"connecting", "reading", "retry_wait"}
  PROVE  StayingOK'
<1>0. /\ UnreadyOK /\ TryingOK /\ ~Asked(commands') /\ ~Soon(events') /\ ErrorOK'
      /\ ~Leaves(Head(events))
      /\ Shows("error", Head(events)) => /\ events' = <<>> /\ commands' = <<>>
                                         /\ at' = "idle" /\ ~active'
      /\ UnreadyOK'
  BY RestQuiet, RestUnready DEF StayingOK
<1>1. commands' = <<>>
  BY <1>0, SignalFrame DEF TryingOK
<1>2. TryingOK'
  BY <1>1 DEF TryingOK
<1>3. CASE OnConnection
  <2>1. /\ state' = Head(events).state /\ Head(events).kind = "connection"
        /\ busy' = (Head(events).state \in {"connecting", "reading"})
    BY <1>3, GenSignal DEF OnConnection, Handle, Outdated
  <2>2. CASE Shows("ready", Head(events))
    <3>1. /\ at = "idle"
          /\ \A j \in DOMAIN events : j > 1 =>
               j = 1 + 1 /\ Shows("retry_wait", events[j]) /\ session = None
      BY <1>0, <2>2, SignalFrame DEF UnreadyOK
    <3>2. \A i \in DOMAIN events' : i = 1 /\ Shows("retry_wait", events'[i]) /\ session = None
      <4>1. ASSUME NEW i \in DOMAIN events'
            PROVE  i = 1 /\ Shows("retry_wait", events'[i]) /\ session = None
        <5>1. i \in Nat /\ i + 1 \in DOMAIN events /\ events'[i] = events[i + 1] /\ i + 1 > 1
          BY SignalFrame
        <5>2. i + 1 = 1 + 1 /\ Shows("retry_wait", events[i + 1]) /\ session = None
          BY <3>1, <5>1
        <5> QED
          BY <5>1, <5>2
      <4> QED
        BY <4>1
    <3>3. \A i \in DOMAIN events' : ~Replies(events'[i]) /\ ~Serving(events'[i])
      BY <3>2 DEF Replies, Serving, Shows
    <3>4. \A i, j \in DOMAIN events' : ~(j > i)
      BY <3>2
    <3>5. ~Pending'
      BY <1>1, <3>1, <3>3, SignalFrame DEF Pending, Serves
    <3>6. ReadyOK'
      BY <1>1, <3>1, <3>2, <3>3, <3>4, <3>5, SignalFrame DEF ReadyOK
    <3> QED
      BY <1>0, <2>1, <2>2, <3>6 DEF StayingOK, Shows
  <2>3. CASE Shows("error", Head(events))
    <3>1. UnreadyOK' /\ OffOK'
      BY <1>0, <2>3, ErrorSignal
    <3> QED
      BY <1>0, <2>1, <2>3, <3>1 DEF StayingOK, Shows
  <2>4. CASE Head(events).state \in {"connecting", "reading", "retry_wait"}
    BY <1>0, <1>2, <2>1, <2>4 DEF StayingOK
  <2>5. Head(events).state \in States /\ Head(events).state # "disconnected"
    <3>1. Head(events) \in EventTypes
      BY <1>3, HandleType DEF OnConnection
    <3> QED
      BY <1>0, <2>1, <3>1, EventFields DEF Leaves
  <2> QED
    BY <2>1, <2>2, <2>3, <2>4, <2>5 DEF Shows, States
<1>4. CASE ~OnConnection
  <2>1. UNCHANGED state
    BY <1>4 DEF Signal, OnDevices, OnSettings, OnProblem, OnMacro, windowVars
  <2> QED
    BY <1>0, <1>2, <2>1 DEF StayingOK
<1> QED
  BY <1>3, <1>4

LEMMA OffSignal ==
  ASSUME Inv, GenOK, Signal, ~leaving, StayingOK, state \in {"disconnected", "error"}
  PROVE  StayingOK'
<1>0. /\ UnreadyOK /\ OffOK /\ ~Asked(commands') /\ ~Soon(events') /\ ErrorOK' /\ UnreadyOK'
  BY RestQuiet, RestUnready DEF StayingOK
<1>1. events # <<>> /\ commands' = <<>>
  BY <1>0, SignalFrame DEF OffOK
<1>2. CASE Shows("connecting", Head(events))
  <2>1. OnConnection
    BY <1>2 DEF Shows, Signal, OnDevices, OnSettings, OnProblem, OnMacro, Handle
  <2>2. state' = "connecting"
    BY <1>2, <2>1, GenSignal DEF OnConnection, Outdated, Shows
  <2>3. TryingOK'
    BY <1>1 DEF TryingOK
  <2> QED
    BY <1>0, <2>2, <2>3 DEF StayingOK
<1>3. CASE Len(events) = 1 /\ Head(events).kind = "devices" /\ at = "idle" /\ ~active
  <2>1. OnDevices
    BY <1>3 DEF Signal, OnConnection, OnSettings, OnProblem, OnMacro, Handle
  <2>2. UNCHANGED state /\ events' = <<>> /\ at' = "idle" /\ ~active'
    BY <1>3, <2>1, SignalFrame DEF OnDevices
  <2>3. OffOK'
    BY <1>1, <2>2 DEF OffOK
  <2> QED
    BY <1>0, <2>2, <2>3 DEF StayingOK
<1> QED
  BY <1>0, <1>1, <1>2, <1>3 DEF OffOK

\* A signal the window takes while the user leaves.
LEMMA LeavingSignal ==
  ASSUME Inv, GenOK, Signal, leaving, LeavingOK
  PROVE  IF leaving' THEN LeavingOK' ELSE StayingOK'
<1>1. CASE Leaves(Head(events))
  <2>1. Over(1)
    BY <1>1, SignalFrame DEF LeavingOK
  <2>2. events' = <<>> /\ commands' = <<>> /\ at' = "idle" /\ ~active'
    BY <2>1, SignalFrame DEF Over
  <2>3. OnConnection
    BY <1>1 DEF Leaves, Signal, OnDevices, OnSettings, OnProblem, OnMacro, Handle
  <2>4. state' = "disconnected" /\ ~leaving'
    BY <1>1, <2>3, GenSignal DEF OnConnection, Outdated, Leaves
  <2>5. UnreadyOK' /\ OffOK'
    BY <2>2, ErrorSignal
  <2>6. ~Asked(commands') /\ ~Soon(events') /\ ErrorOK'
    BY <2>2 DEF Asked, Soon, ErrorOK
  <2> QED
    BY <2>4, <2>5, <2>6 DEF StayingOK
<1>2. CASE ~Leaves(Head(events))
  <2>1. leaving'
    BY <1>2, GenSignal DEF Leaves, Signal, OnDevices, OnConnection, OnSettings, OnProblem, OnMacro,
       Handle, Outdated, windowVars
  <2>2. ASSUME NEW i \in DOMAIN events', Leaves(events'[i])
        PROVE  i = Len(events') /\ commands' = <<>> /\ at' = "idle" /\ ~active'
    <3>1. i \in Nat /\ i + 1 \in DOMAIN events /\ Leaves(events[i + 1])
      BY <2>2, SignalFrame
    <3>2. i + 1 = Len(events) /\ commands = <<>> /\ at = "idle" /\ ~active
      BY <3>1 DEF LeavingOK, Over
    <3> QED
      BY <3>1, <3>2, SignalFrame
  <2>3. LeavingOK'
    BY <2>2, SignalFrame DEF LeavingOK, Over
  <2> QED
    BY <2>1, <2>3
<1> QED
  BY <1>1, <1>2

\* The window keeps what the user has edited.
LEMMA EditSignal ==
  ASSUME Inv, GenOK, EditOK, Signal
  PROVE  EditOK'
<1>1. UNCHANGED <<hasty, stopping>> /\ state \in States
  BY SignalFrame DEF Inv, TypeOK
<1>2. ASSUME ~hasty, ~stopping, ~leaving
      PROVE  StayingOK' /\ ~leaving'
  <2>1. StayingOK
    BY <1>2 DEF EditOK
  <2>2. StayingOK'
    BY <1>1, <1>2, <2>1, ReadySignal, TryingSignal, OffSignal DEF States
  <2>3. ~leaving'
    BY <1>2 DEF Signal, OnDevices, OnConnection, OnSettings, OnProblem, OnMacro, windowVars
  <2> QED
    BY <2>2, <2>3
<1> QED
  BY <1>1, <1>2, LeavingSignal DEF EditOK

\* A user who is leaving and waits can only edit; others send one command when
\* there is none, or the disconnect.
LEMMA EditUser ==
  ASSUME Inv, EditOK, User
  PROVE  EditOK'
<1>1. commands \in Seq(CommandTypes) /\ events \in Seq(EventTypes)
  BY DEF Inv, TypeOK, WorkerTypeOK
<1>2. SUFFICES ASSUME ~hasty', ~stopping'
               PROVE  IF leaving' THEN LeavingOK' ELSE StayingOK'
  BY DEF EditOK
<1>3. ~hasty /\ ~stopping
  <2>1. CASE Scan \/ Connect \/ Disconnect \/ ReadDevice \/ Apply \/ RequestMacro
    BY <1>2, <2>1 DEF Scan, Connect, Disconnect, ReadDevice, Apply, RequestMacro, Request
  <2>2. CASE Edit \/ StopMacro \/ Close
    BY <1>2, <2>2 DEF Edit, StopMacro, Close, workerVars, queueVars
  <2> QED
    BY <2>1, <2>2 DEF User
<1>4. ASSUME NEW cmd, NEW arg, [cmd |-> cmd, arg |-> arg] \in CommandTypes, Send(cmd, arg)
      PROVE  \E c \in CommandTypes :
               c.cmd = cmd /\ commands' = Append(commands, c)
               /\ UNCHANGED <<events, at, active, session>>
  BY <1>4 DEF Send, linkVars, handleVars
<1>5. CASE Edit
  <2>1. /\ UNCHANGED <<commands, events, at, active, session, state, leaving, busy>> /\ ~busy
    BY <1>5 DEF Edit, workerVars, queueVars, linkVars, handleVars
  <2>2. CASE leaving
    BY <1>3, <2>1, <2>2 DEF EditOK, LeavingOK, Over
  <2>3. CASE ~leaving
    <3>1. StayingOK
      BY <1>3, <2>3 DEF EditOK
    <3>2. ~Asked(commands') /\ ~Soon(events') /\ ErrorOK'
      BY <2>1, <3>1 DEF StayingOK, Asked, Soon, ErrorOK, Over
    <3>3. state = "ready" => ReadyOK'
      <4>1. SUFFICES ASSUME state = "ready"
                     PROVE  ReadyOK'
        OBVIOUS
      <4>2. ReadyOK /\ ~Pending
        BY <2>1, <3>1, <4>1 DEF StayingOK, ReadyOK, Pending, Replies, Serves
      <4>3. ~Pending'
        BY <2>1, <4>2 DEF Pending
      <4> QED
        BY <2>1, <4>2, <4>3 DEF ReadyOK, One
    <3>4. state # "ready" => UnreadyOK'
      BY <2>1, <3>1 DEF StayingOK, UnreadyOK
    <3>5. state \in {"connecting", "reading", "retry_wait"} => TryingOK'
      BY <2>1, <3>1 DEF StayingOK, TryingOK, One
    <3>6. state \in {"disconnected", "error"} => OffOK'
      BY <2>1, <3>1 DEF StayingOK, OffOK, One
    <3> QED
      BY <2>1, <2>3, <3>2, <3>3, <3>4, <3>5, <3>6 DEF StayingOK
  <2> QED
    BY <2>2, <2>3
<1>6. CASE (Scan \/ Connect) /\ ~leaving
  <2>1. state \in {"disconnected", "error"} /\ ~busy /\ UNCHANGED state /\ ~leaving' /\ busy'
    BY <1>6 DEF Scan, Connect, Request
  <2>2. StayingOK
    BY <1>3, <1>6 DEF EditOK
  <2>3. commands = <<>> /\ events = <<>> /\ at = "idle" /\ ~active
    BY <2>1, <2>2 DEF StayingOK, OffOK
  <2>4. PICK c \in CommandTypes :
          /\ c.cmd \in {"scan", "connect"} /\ commands' = Append(commands, c)
          /\ UNCHANGED <<events, at, active, session>>
    <3>1. CASE Scan
      BY <1>4, <3>1, CommandMade DEF Scan, Request
    <3>2. CASE Connect
      <4>1. PICK p \in paths : Request("connect", p)
        BY <3>2 DEF Connect
      <4>2. p \in Paths /\ Send("connect", p)
        BY <4>1 DEF Request, Inv, TypeOK
      <4> QED
        BY <1>4, <4>2, CommandMade
    <3> QED
      BY <1>6, <3>1, <3>2
  <2>5. Len(commands') = 1 /\ Head(commands') = c /\ commands' # <<>>
    BY <1>1, <2>3, <2>4, OneCommand
  <2>6. ~Asked(Append(commands, c))
    BY <1>1, <2>2, <2>4, AskedFacts DEF StayingOK
  <2>7. DOMAIN events' = {} /\ events' = <<>>
    BY <2>3, <2>4
  <2>8. ~Asked(commands') /\ ~Soon(events') /\ ErrorOK'
    BY <2>4, <2>6, <2>7 DEF Asked, Soon, ErrorOK
  <2>9. UnreadyOK'
    BY <2>3, <2>4, <2>7 DEF UnreadyOK, Operates, Serves
  <2>10. OffOK'
    BY <2>1, <2>3, <2>4, <2>5, <2>7 DEF OffOK, One
  <2> QED
    BY <2>1, <2>8, <2>9, <2>10 DEF StayingOK
<1>7. CASE (ReadDevice \/ Apply \/ RequestMacro) /\ ~leaving
  <2>1. state = "ready" /\ ~busy /\ UNCHANGED state /\ ~leaving' /\ busy'
    BY <1>7 DEF ReadDevice, Apply, RequestMacro, Request, connected
  <2>2. StayingOK /\ ReadyOK
    BY <1>3, <1>7, <2>1 DEF EditOK, StayingOK
  <2>3. commands = <<>> /\ at = "idle"
    BY <2>1, <2>2 DEF ReadyOK
  <2>4. PICK c \in CommandTypes :
          /\ c.cmd \in {"read", "apply", "macro"} /\ commands' = Append(commands, c)
          /\ UNCHANGED <<events, at, active, session>>
          /\ c.cmd = "macro" \/ ~edited'
    <3>1. CASE RequestMacro
      BY <1>4, <3>1, CommandMade DEF RequestMacro, Request
    <3>2. CASE ReadDevice
      BY <1>4, <3>2, CommandMade DEF ReadDevice, Request
    <3>3. CASE Apply
      <4> DEFINE save == [rev |-> revision, val |-> draft, base |-> baseline, gen |-> shown]
      <4>1. save \in Saves
        BY <3>3 DEF Apply, Saves, Inv, TypeOK
      <4>2. Send("apply", save) /\ ~edited'
        BY <3>3 DEF Apply, Request
      <4> HIDE DEF save
      <4>3. [cmd |-> "apply", arg |-> save] \in CommandTypes
        BY <4>1, CommandMade
      <4> QED
        BY <1>4, <4>2, <4>3
    <3> QED
      BY <1>7, <3>1, <3>2, <3>3
  <2>5. Len(commands') = 1 /\ Head(commands') = c /\ commands' # <<>>
    BY <1>1, <2>3, <2>4, OneCommand
  <2>6. ~Asked(Append(commands, c))
    BY <1>1, <2>2, <2>4, AskedFacts DEF StayingOK
  <2>7. ~Asked(commands') /\ ~Soon(events') /\ ErrorOK'
    <3>1. ErrorOK'
      <4>1. \A i \in DOMAIN events : ~Shows("error", events[i])
        BY <2>1, <2>2 DEF ReadyOK, Replies
      <4> QED
        BY <2>4, <4>1 DEF ErrorOK
    <3> QED
      BY <2>2, <2>4, <2>6, <3>1 DEF StayingOK, Asked, Soon
  <2>8. \A i \in DOMAIN events : ~Replies(events[i])
    BY <2>1, <2>2 DEF ReadyOK
  <2>9. Pending' => ~edited'
    <3>1. \A i \in DOMAIN events' : ~Serving(events'[i])
      BY <2>4, <2>8 DEF Replies
    <3> QED
      BY <2>3, <2>4, <2>5, <3>1 DEF Pending, Serves
  <2>10. One({"read", "apply", "macro"})'
    BY <2>4, <2>5 DEF One
  <2>11. ReadyOK'
    BY <2>1, <2>2, <2>3, <2>4, <2>8, <2>9, <2>10 DEF ReadyOK
  <2> QED
    BY <2>1, <2>7, <2>11 DEF StayingOK
<1>8. CASE Disconnect /\ ~leaving
  <2>1. leaving' /\ Send("disconnect", None)
    BY <1>8 DEF Disconnect
  <2>2. StayingOK
    BY <1>3, <1>8 DEF EditOK
  <2>3. PICK c \in CommandTypes :
          /\ c.cmd = "disconnect" /\ commands' = Append(commands, c)
          /\ UNCHANGED <<events, at, active, session>>
    BY <1>4, <2>1, CommandMade
  <2>4. \A i \in DOMAIN events' : ~Leaves(events'[i])
    BY <2>2, <2>3 DEF StayingOK, Soon
  <2>5. \A i \in DOMAIN commands : commands[i].cmd # "disconnect"
    BY <2>2 DEF StayingOK, Asked
  <2>6. \A i \in DOMAIN commands' : commands'[i].cmd = "disconnect" => i = Len(commands')
    <3> DEFINE q == commands
               r == Append(q, c)
    <3>1. /\ DOMAIN q = 1..Len(q) /\ Len(q) \in Nat
          /\ Len(r) = Len(q) + 1 /\ DOMAIN r = 1..Len(q) + 1
          /\ \A i \in 1..Len(q) : r[i] = q[i]
      BY <1>1, AppendProperties
    <3>2. ASSUME NEW i \in DOMAIN r, r[i].cmd = "disconnect"
          PROVE  i = Len(r)
      BY <2>5, <3>1, <3>2
    <3> QED
      BY <2>3, <3>2
  <2> QED
    BY <2>1, <2>4, <2>6 DEF LeavingOK
<1>9. ~Close /\ ~StopMacro
  BY <1>2 DEF Close, StopMacro
<1>10. CASE leaving /\ ~Edit
  <2>1. hasty'
    BY <1>9, <1>10 DEF User, Scan, Connect, Disconnect, ReadDevice, Apply, RequestMacro, Request
  <2> QED
    BY <1>2, <2>1
<1> QED
  BY <1>5, <1>6, <1>7, <1>8, <1>9, <1>10 DEF User

\* Every step keeps what has been edited from being overwritten.
LEMMA EditStep == Inv /\ GenOK /\ WindowOK /\ EditOK /\ [Next]_vars => EditOK'
<1> SUFFICES ASSUME Inv, GenOK, WindowOK, EditOK, [Next]_vars
             PROVE  EditOK'
  OBVIOUS
<1>1. ASSUME UNCHANGED <<commands, events, stopping, at, active, session, windowVars, userVars>>
      PROVE  EditOK'
  <2>1. UNCHANGED <<state, leaving, busy, hasty, edited>>
    BY <1>1 DEF windowVars, userVars
  <2>2. LeavingOK => LeavingOK'
    BY <1>1 DEF LeavingOK, Over
  <2>3. ErrorOK => ErrorOK'
    BY <1>1 DEF ErrorOK, Over
  <2>4. ReadyOK => ReadyOK'
    BY <1>1, <2>1 DEF ReadyOK, Pending, One
  <2>5. UnreadyOK => UnreadyOK'
    BY <1>1 DEF UnreadyOK
  <2>6. (TryingOK => TryingOK') /\ (OffOK => OffOK')
    BY <1>1, <2>1 DEF TryingOK, OffOK, One
  <2>7. StayingOK => StayingOK'
    BY <1>1, <2>1, <2>3, <2>4, <2>5, <2>6 DEF StayingOK, Asked, Soon
  <2> QED
    BY <1>1, <2>1, <2>2, <2>7 DEF EditOK
<1>2. CASE User
  BY <1>2, EditUser
<1>3. CASE Signal
  BY <1>3, EditSignal
<1>4. CASE Worker /\ UNCHANGED <<windowVars, userVars>>
  BY <1>4, EditWorker
<1>5. CASE World /\ UNCHANGED <<windowVars, userVars>>
  BY <1>1, <1>5 DEF World, Move, Rival, queueVars, linkVars, handleVars
<1>6. CASE UNCHANGED vars
  BY <1>1, <1>6 DEF vars, workerVars, queueVars, linkVars, handleVars
<1> QED
  BY <1>2, <1>3, <1>4, <1>5, <1>6 DEF Next

\* NoEditLost for all devices, paths and values and every bound: of a user who
\* waits for a disconnect to end, on_settings (app.py) overwrites no draft
\* edited since the last request, in however many connections.
THEOREM NoEditIsLost == Spec => NoEditLost
<1>1. Init => EditOK
  BY DEF Init, WorkerInit, EditOK, StayingOK, ErrorOK, UnreadyOK, OffOK, Operates, Serves, Asked, Soon
<1>2. Inv /\ GenOK /\ WindowOK /\ EditOK /\ [Next]_vars => EditOK'
  BY EditStep
<1>3. ASSUME Inv, EditOK, [Next]_vars, ~hasty, edited, dirty, draft' # draft
      PROVE  edited' /\ events' = events
  <2>1. CASE Edit
    BY <2>1 DEF Edit, workerVars, queueVars
  <2>2. CASE OnSettings
    <3>1. /\ 1 \in DOMAIN events /\ Head(events) = events[1] /\ ~stopping
          /\ Head(events) \in EventTypes
      <4>1. /\ 1 \in DOMAIN events /\ Head(events) = events[1] /\ ~stopping
            /\ events \in Seq(EventTypes)
        BY <1>3, <2>2, SignalFrame DEF Signal
      <4> QED
        BY <4>1
    <3>2. Head(events).kind = "settings" /\ ~leaving
      BY <1>3, <2>2 DEF OnSettings, Handle, windowVars
    <3>3. Head(events).op \notin {"connect", "reconnect", "recover_save"}
      BY <1>3, <2>2, <3>2 DEF OnSettings, Preserved
    <3>4. Serving(events[1])
      BY <3>1, <3>2, <3>3 DEF Serving, EventTypes
    <3>5. StayingOK
      BY <1>3, <3>1, <3>2 DEF EditOK
    <3>6. Pending
      BY <3>1, <3>4 DEF Pending
    <3>7. ReadyOK
      BY <3>1, <3>4, <3>5 DEF StayingOK, UnreadyOK
    <3> QED
      BY <1>3, <3>6, <3>7 DEF ReadyOK
  <2>3. CASE ~Edit /\ ~OnSettings
    BY <1>3, <2>3 DEF Next, User, Scan, Connect, Disconnect, ReadDevice, Apply, RequestMacro, StopMacro,
       Close, Request, Send, Signal, OnDevices, OnConnection, OnProblem, OnMacro, windowVars, vars
  <2> QED
    BY <2>1, <2>2, <2>3
<1>4. Inv /\ EditOK /\ [Next]_vars =>
        (~hasty /\ edited /\ dirty /\ draft' # draft => edited' /\ events' = events)
  BY <1>3
<1> QED
  BY <1>1, <1>2, <1>4, WindowAlways, PTL DEF Spec, NoEditLost

=============================================================================
