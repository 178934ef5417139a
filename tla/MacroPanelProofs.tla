-------------------------- MODULE MacroPanelProofs --------------------------
(***************************************************************************)
(* Theorems of MacroPanel: types, that no draft is lost, and that no save  *)
(* replaces a macro the user has not seen, for any number of slots,        *)
(* macros, revisions, mishaps and clicks.                                  *)
(*                                                                         *)
(* The drafts of the slots that are not on the screen change only when the *)
(* user leaves or enters a slot.  The one on the screen is the answers'    *)
(* business: a read that was begun to keep it must not come in as one that *)
(* replaces it, and a save must come in with the macro it was begun with.  *)
(* So the invariant, Orderly, follows the one request that may be under    *)
(* way from the commands by the worker to the events: it is of the slot on *)
(* the screen, and of the draft there, as long as the panel waits for it.  *)
(* The stop button sends a second request, and all of it is said of        *)
(* behaviours without one.                                                 *)
(*                                                                         *)
(* A save names the revision the panel showed, which the device compares   *)
(* with its own; revisions wrap.  So the second invariant, SaveInv, says   *)
(* of every revision under way, in a command, a signal or the panel, what  *)
(* macro it stands for, and how many saves may come before it is used.     *)
(***************************************************************************)
EXTENDS MacroPanel, SequenceTheorems, TLAPS

\* What ends a request, and what says that a session has come.
Replies(e) == e.kind \in {"read", "save", "problem"}

Opens(e) == e.kind \in {"connecting", "ready"}

Nothing ==
  commands = <<>> /\ at = None /\ \A i \in DOMAIN events : ~Replies(events[i])

\* A draft put aside differs from what the device had.
AsideOK ==
  \A s \in Slots : panel.drafts[s] # None =>
    panel.drafts[s].val # panel.drafts[s].base

\* Nobody has clicked on the stop button.
Unstopped ==
  /\ ~stopFlag
  /\ commands # <<>> => Head(commands).cmd # "stop"
  /\ at # None => at.cmd # "stop"
  /\ \A i \in DOMAIN events : events[i].kind # "stop"

\* At most one request is under way, in one place.
OneOK ==
  /\ Len(commands) <= 1
  /\ commands # <<>> => at = None
  /\ \A i \in DOMAIN events : Replies(events[i]) => commands = <<>> /\ at = None
  /\ \A i, j \in DOMAIN events : Replies(events[i]) /\ Replies(events[j]) => i = j

\* A session is announced when no request is under way; one is open, or its
\* loss is still to be handled, while the window is connected.
LinkOK ==
  /\ \A i \in DOMAIN events : Opens(events[i]) => ~connected /\ Nothing
  /\ \A i, j \in DOMAIN events :
       events[i].kind = "ready" /\ Opens(events[j]) => j <= i
  /\ connected => session \/ \E i \in DOMAIN events : events[i].kind = "lost"
  /\ \A i \in DOMAIN events : events[i].kind = "ready" =>
       session \/ \E j \in DOMAIN events : j > i /\ events[j].kind = "lost"

\* A read that is under way keeps the draft, or there is none, or the user
\* agreed to lose it.
Spares == panel.preserve_read \/ ~dirty \/ discard = panel.slot

\* The request under way is what the panel waits for, and is of its slot.
Wanted(c) ==
  /\ panel.pending /\ c.slot = panel.slot
  /\ c.cmd = "read" => Spares
  /\ c.cmd = "save" => c.val = panel.value

WaitOK ==
  /\ panel.pending => connected /\ busy
  /\ connected =>
       /\ commands # <<>> => Wanted(Head(commands))
       /\ at # None => Wanted(at)
       /\ \A i \in DOMAIN events : Replies(events[i]) => panel.pending
       /\ \A i \in DOMAIN events : events[i].kind \in {"read", "save"} =>
            events[i].slot = panel.slot
       /\ \A i \in DOMAIN events : events[i].kind = "read" => Spares
       /\ \A i \in DOMAIN events : events[i].kind = "save" =>
            events[i].is.val = panel.value

Orderly == Unstopped /\ OneOK /\ LinkOK /\ WaitOK

Inv == TypeOK /\ stops \in Nat /\ AsideOK /\ (stops = 0 => Orderly)

-----------------------------------------------------------------------------
(* Types.                                                                  *)

LEMMA SeqFacts ==
  ASSUME NEW S, NEW q \in Seq(S)
  PROVE  /\ \A e \in S : /\ Append(q, e) \in Seq(S)
                         /\ q \o <<e>> \in Seq(S)
         /\ \A d, e \in S : q \o (<<d>> \o <<e>>) \in Seq(S)
         /\ q # <<>> => Head(q) \in S /\ Tail(q) \in Seq(S)
  BY AppendProperties, ConcatProperties, HeadTailProperties

LEMMA SignalType ==
  /\ \A k \in {"connecting", "ready", "lost", "problem", "stop"} : [kind |-> k] \in Events
  /\ \A k \in {"read", "save"}, s \in Slots, is \in Stored :
       [kind |-> k, slot |-> s, is |-> is] \in Events
  BY DEF Events

LEMMA CommandType ==
  /\ \A k \in {"read", "stop"}, s \in Slots : [cmd |-> k, slot |-> s] \in Commands
  /\ \A s \in Slots, r \in 0..Revisions - 1, v \in Macros, b \in Macros, t \in BOOLEAN :
       [cmd |-> "save", slot |-> s, rev |-> r, val |-> v, base |-> b, sent |-> t] \in Commands
  BY DEF Commands

\* What a command and a signal are made of.
LEMMA Parts ==
  /\ \A c \in Commands :
       /\ c.cmd \in {"read", "stop", "save"} /\ c.slot \in Slots
       /\ c.cmd = "save" =>
            /\ c.rev \in 0..Revisions - 1 /\ c.val \in Macros
            /\ [c EXCEPT !.sent = TRUE] \in Commands
            /\ [c EXCEPT !.sent = TRUE].cmd = c.cmd
            /\ [c EXCEPT !.sent = TRUE].slot = c.slot
            /\ [c EXCEPT !.sent = TRUE].val = c.val
  /\ \A e \in Events :
       /\ e.kind \in {"connecting", "ready", "lost", "problem", "stop", "read", "save"}
       /\ e.kind \in {"read", "save"} =>
            e.slot \in Slots /\ e.is.rev \in 0..Revisions - 1 /\ e.is.val \in Macros
  BY DEF Commands, Events, Stored

\* Receiving, failing and showing leave a well typed panel.
LEMMA ShowsType ==
  ASSUME NEW p \in Panel, NEW con \in BOOLEAN, NEW bus \in BOOLEAN,
         deferred \in BOOLEAN, Shows(p, con, bus)
  PROVE  panel' \in Panel /\ connected' \in BOOLEAN /\ busy' \in BOOLEAN /\ deferred' \in BOOLEAN
<1>1. panel' \in Panel
  BY DEF Shows, Panel
<1>2. panel'.needs_read \in BOOLEAN
  BY <1>1 DEF Panel
<1> QED
  BY <1>1, <1>2 DEF Shows

LEMMA StartType ==
  ASSUME TypeOK, NEW p \in Panel, NEW preserve \in BOOLEAN, StartRead(p, preserve)
  PROVE  /\ panel' \in Panel /\ commands' \in Seq(Commands) /\ busy' \in BOOLEAN
         /\ UNCHANGED <<stored, session, at, stopFlag, events, budgets, connected>>
<1>1. panel' \in Panel
  BY DEF StartRead, Panel
<1>2. [cmd |-> "read", slot |-> p.slot] \in Commands
  BY CommandType DEF Panel
<1>3. commands' \in Seq(Commands)
  BY <1>2, SeqFacts DEF StartRead, Ask, TypeOK
<1> QED
  BY <1>1, <1>3 DEF StartRead, Ask

LEMMA SwitchedType ==
  ASSUME TypeOK, NEW s \in Slots
  PROVE  Switched(s) \in Panel
<1> DEFINE d == panel.drafts[s]
           mine == IF dirty THEN [val |-> panel.value, base |-> panel.baseline] ELSE None
           v == IF d = None THEN Blank ELSE d.val
           b == IF d = None THEN Blank ELSE d.base
<1>1. panel \in Panel /\ panel.drafts \in [Slots -> Drafts \cup {None}] /\ d \in Drafts \cup {None}
  BY DEF TypeOK, Panel
<1>2. v \in Macros /\ b \in Macros
  BY <1>1, PanelAssumption DEF Drafts
<1>3. mine \in Drafts \cup {None}
  BY <1>1 DEF Panel, Drafts
<1>4. [panel.drafts EXCEPT ![panel.slot] = mine] \in [Slots -> Drafts \cup {None}]
  BY <1>1, <1>3
<1>5. Switched(s) = [panel EXCEPT !.drafts = [panel.drafts EXCEPT ![panel.slot] = mine],
                       !.slot = s, !.revision = None, !.read_error = FALSE, !.needs_read = TRUE,
                       !.value = v, !.baseline = b]
  BY DEF Switched
<1> HIDE DEF mine, v, b
<1> QED
  BY <1>1, <1>2, <1>4, <1>5 DEF Panel

LEMMA UserType ==
  ASSUME TypeOK, User
  PROVE  TypeOK'
<1> USE DEF TypeOK
<1>1. CASE ChangeTarget
  <2>1. PICK s \in Slots :
          IF connected /\ ~panel.pending
          THEN StartRead(Switched(s), TRUE)
          ELSE panel' = Switched(s) /\ UNCHANGED <<worker, connected, busy>>
    BY <1>1 DEF ChangeTarget
  <2>2. Switched(s) \in Panel
    BY SwitchedType
  <2>3. /\ panel' \in Panel /\ commands' \in Seq(Commands) /\ busy' \in BOOLEAN
        /\ UNCHANGED <<stored, session, at, stopFlag, events, connected>>
    BY <2>1, <2>2, StartType DEF worker
  <2> QED
    BY <1>1, <2>3 DEF ChangeTarget
<1>2. CASE Edit
  <2>1. panel' \in Panel
    BY <1>2 DEF Edit, Panel
  <2> QED
    BY <1>2, <2>1 DEF Edit, worker
<1>3. CASE Retry \/ Restore
  <2>1. panel \in Panel /\ panel.slot \in Slots
    BY DEF Panel
  <2>2. /\ panel' \in Panel /\ commands' \in Seq(Commands) /\ busy' \in BOOLEAN
        /\ UNCHANGED <<stored, session, at, stopFlag, events, connected>>
    BY <1>3, <2>1, StartType DEF Retry, Restore
  <2> QED
    BY <1>3, <2>1, <2>2 DEF Retry, Restore
<1>4. CASE Save
  <2>1. panel' \in Panel
    BY <1>4 DEF Save, Panel
  <2> DEFINE c == [cmd |-> "save", slot |-> panel.slot, rev |-> panel.revision,
                   val |-> panel.value, base |-> panel.baseline, sent |-> FALSE]
  <2>2. c \in Commands
    <3>1. /\ panel.slot \in Slots /\ panel.revision \in 0..Revisions - 1
          /\ panel.value \in Macros /\ panel.baseline \in Macros
      BY <1>4 DEF Save, Panel
    <3> QED
      BY <3>1, CommandType
  <2>3. Ask(c)
    BY <1>4 DEF Save
  <2> HIDE DEF c
  <2>4. commands' \in Seq(Commands)
    BY <2>2, <2>3, SeqFacts DEF Ask
  <2> QED
    BY <1>4, <2>1, <2>3, <2>4 DEF Save, Ask
<1>5. CASE Stop
  <2>1. [cmd |-> "stop", slot |-> panel.slot] \in Commands
    BY CommandType DEF Panel
  <2>2. commands' \in Seq(Commands)
    BY <1>5, <2>1, SeqFacts DEF Stop
  <2> QED
    BY <1>5, <2>2 DEF Stop, window
<1> QED
  BY <1>1, <1>2, <1>3, <1>4, <1>5 DEF User

\* What the panel becomes of an answer.
LEMMA ReceivedType ==
  ASSUME TypeOK, OnResult
  PROVE  /\ Received \in Panel /\ events # <<>> /\ Head(events) \in Events
         /\ Head(events).kind \in {"read", "save"}
<1>1. /\ Head(events) \in Events /\ Head(events).kind \in {"read", "save"} /\ events # <<>>
  BY SeqFacts DEF OnResult, Handle, TypeOK
<1>2. Head(events).is.rev \in 0..Revisions - 1 /\ Head(events).is.val \in Macros
  BY <1>1, Parts
<1>3. Answered \in Panel
  BY <1>2 DEF Answered, TypeOK, Panel
<1>4. [Answered EXCEPT !.baseline = Head(events).is.val, !.preserve_read = FALSE] \in Panel
  BY <1>2, <1>3 DEF Panel
<1>5. [Answered EXCEPT !.value = Head(events).is.val, !.baseline = Head(events).is.val,
                       !.drafts[panel.slot] = None] \in Panel
  <2>1. [Answered.drafts EXCEPT ![panel.slot] = None] \in [Slots -> Drafts \cup {None}]
    BY <1>3 DEF Panel
  <2>2. [Answered EXCEPT !.value = Head(events).is.val, !.baseline = Head(events).is.val,
                         !.drafts[panel.slot] = None]
          = [Answered EXCEPT !.value = Head(events).is.val, !.baseline = Head(events).is.val,
                             !.drafts = [Answered.drafts EXCEPT ![panel.slot] = None]]
    BY <1>3 DEF Panel
  <2> QED
    BY <1>2, <1>3, <2>1, <2>2 DEF Panel
<1> QED
  BY <1>1, <1>4, <1>5 DEF Received

LEMMA WindowType ==
  ASSUME TypeOK, Window
  PROVE  TypeOK'
<1>1. ASSUME NEW kind, Handle(kind)
      PROVE  /\ events' \in Seq(Events) /\ Head(events) \in Events /\ Head(events).kind = kind
             /\ UNCHANGED <<stored, session, commands, at, stopFlag>>
  BY <1>1, SeqFacts DEF Handle, TypeOK
<1>2. ASSUME NEW p \in Panel, NEW con \in BOOLEAN, NEW bus \in BOOLEAN, Shows(p, con, bus)
      PROVE  panel' \in Panel /\ connected' \in BOOLEAN /\ busy' \in BOOLEAN /\ deferred' \in BOOLEAN
  BY <1>2, ShowsType DEF TypeOK
<1>3. panel \in Panel /\ connected \in BOOLEAN /\ discard \in Slots \cup {None} /\ deferred \in BOOLEAN
  BY DEF TypeOK
<1>4. CASE OnConnection
  BY <1>1, <1>2, <1>3, <1>4 DEF OnConnection, TypeOK
<1>5. CASE OnResult
  <2>1. PICK kind \in {"read", "save"} : Handle(kind)
    BY <1>5 DEF OnResult
  <2>2. /\ Head(events) \in Events /\ Head(events).kind \in {"read", "save"}
        /\ events' \in Seq(Events) /\ UNCHANGED <<stored, session, commands, at, stopFlag>>
    BY <1>1, <2>1
  <2>3. Received \in Panel
    BY <1>5, ReceivedType
  <2>4. /\ panel' \in Panel /\ connected' \in BOOLEAN /\ busy' \in BOOLEAN /\ deferred' \in BOOLEAN
        /\ discard' \in Slots \cup {None}
    BY <1>2, <1>3, <1>5, <2>3 DEF OnResult
  <2> QED
    BY <2>2, <2>4 DEF TypeOK
<1>6. CASE OnStopped
  BY <1>1, <1>2, <1>3, <1>6 DEF OnStopped, TypeOK
<1>7. CASE OnProblem
  <2>1. Failed \in Panel
    BY <1>3 DEF Failed, Panel
  <2> QED
    BY <1>1, <1>2, <1>3, <1>7, <2>1 DEF OnProblem, TypeOK
<1>8. CASE EnsureRead
  <2>1. CASE panel.needs_read /\ connected /\ idle
    BY <1>3, <1>8, <2>1, StartType DEF EnsureRead, TypeOK
  <2>2. CASE ~(panel.needs_read /\ connected /\ idle)
    BY <1>8, <2>2 DEF EnsureRead, TypeOK, worker
  <2> QED
    BY <2>1, <2>2
<1> QED
  BY <1>4, <1>5, <1>6, <1>7, <1>8 DEF Window

LEMMA WorkerType ==
  ASSUME TypeOK, Worker \/ Rival
  PROVE  TypeOK'
<1>1. /\ events \in Seq(Events) /\ commands \in Seq(Commands) /\ at \in Commands \cup {None}
      /\ stored \in [Slots -> Stored] /\ stopFlag \in BOOLEAN
  BY DEF TypeOK
<1>2. \A k \in {"connecting", "ready", "lost", "problem", "stop"} :
        events \o Signal(k) \in Seq(Events)
  BY <1>1, SignalType, SeqFacts DEF Signal
<1>3. ASSUME NEW j \in {"connecting", "problem"}, NEW k \in {"ready", "lost"}
      PROVE  events \o (Signal(j) \o Signal(k)) \in Seq(Events)
  BY <1>1, SignalType, SeqFacts DEF Signal
<1>4. commands # <<>> => Head(commands) \in Commands /\ Tail(commands) \in Seq(Commands)
  BY <1>1, SeqFacts
<1>5. CASE Refuse
  BY <1>2, <1>4, <1>5 DEF Refuse, Emit, TypeOK, window
<1>6. CASE Begin
  BY <1>4, <1>6 DEF Begin, FlagAtStart, TypeOK, window
<1>7. CASE Succeed
  <2>1. at \in Commands
    BY <1>1, <1>7 DEF Succeed
  <2>2. stored[at.slot] \in Stored /\ at.slot \in Slots
    BY <1>1, <2>1, Parts
  <2>3. \A k \in {"read", "save"} :
          events \o <<[kind |-> k, slot |-> at.slot, is |-> stored[at.slot]]>> \in Seq(Events)
    BY <1>1, <2>2, SignalType, SeqFacts
  <2>4. events' \in Seq(Events)
    BY <1>2, <1>7, <2>3 DEF Succeed, Emit
  <2> QED
    BY <1>7, <2>4 DEF Succeed, Done, TypeOK, window
<1>8. CASE Commit
  <2>1. at \in Commands /\ at.cmd = "save"
    BY <1>1, <1>8 DEF Commit
  <2>2. /\ at.slot \in Slots /\ at.val \in Macros /\ [at EXCEPT !.sent = TRUE] \in Commands
    BY <2>1, Parts
  <2>3. Next16(stored[at.slot].rev) \in 0..Revisions - 1
    BY <1>1, <2>2, PanelAssumption DEF Next16, Stored
  <2>4. stored' \in [Slots -> Stored]
    BY <1>1, <1>8, <2>2, <2>3 DEF Commit, Stored
  <2> QED
    BY <1>8, <2>2, <2>4 DEF Commit, TypeOK, window
<1>9. CASE Cancel \/ Reject
  BY <1>2, <1>9 DEF Cancel, Reject, Emit, Done, TypeOK, window
<1>10. CASE Break
  <2>1. events' \in Seq(Events)
    <3>1. Signal("problem") \o <<>> = Signal("problem")
      BY DEF Signal
    <3> QED
      BY <1>2, <1>3, <1>10, <3>1 DEF Break, Emit
  <2> QED
    BY <1>1, <1>10, <2>1 DEF Break, Done, TypeOK, window
<1>11. CASE Lose
  BY <1>2, <1>11 DEF Lose, Emit, TypeOK, window
<1>12. CASE Connect
  BY <1>3, <1>12 DEF Connect, Emit, TypeOK, window
<1>13. CASE Rival
  <2>1. PICK s \in Slots, v \in Macros :
          stored' = [stored EXCEPT ![s] = [rev |-> Next16(@.rev), val |-> v]]
    BY <1>13 DEF Rival
  <2>2. Next16(stored[s].rev) \in 0..Revisions - 1
    BY <1>1, PanelAssumption DEF Next16, Stored
  <2>3. stored' \in [Slots -> Stored]
    BY <1>1, <2>1, <2>2 DEF Stored
  <2> QED
    BY <1>13, <2>3 DEF Rival, TypeOK, window
<1> QED
  BY <1>5, <1>6, <1>7, <1>8, <1>9, <1>10, <1>11, <1>12, <1>13 DEF Worker

LEMMA InitType == Init => TypeOK
<1> SUFFICES ASSUME Init PROVE TypeOK
  OBVIOUS
<1>1. Revisions - 1 \in 0..Revisions - 1
  BY PanelAssumption
<1>2. stored \in [Slots -> Stored]
  BY <1>1, PanelAssumption DEF Init, Stored
<1>3. panel \in Panel
  BY PanelAssumption DEF Init, Panel
<1>4. <<>> \in Seq(Commands) /\ <<>> \in Seq(Events)
  OBVIOUS
<1> QED
  BY <1>2, <1>3, <1>4 DEF Init, TypeOK

-----------------------------------------------------------------------------
(* The drafts.                                                             *)

Keeps == UNCHANGED <<panel.slot, panel.value, panel.baseline, panel.drafts>>

\* The draft of the slot that is left, as it is put aside.
Mine == IF dirty THEN [val |-> panel.value, base |-> panel.baseline] ELSE None

Switches(s) ==
  /\ panel'.slot = s /\ panel'.drafts = [panel.drafts EXCEPT ![panel.slot] = Mine]
  /\ panel'.value = IF panel.drafts[s] = None THEN Blank ELSE panel.drafts[s].val
  /\ panel'.baseline = IF panel.drafts[s] = None THEN Blank ELSE panel.drafts[s].base

\* An answer for the slot on the screen, which keeps the draft or replaces it.
Receives ==
  /\ OnResult /\ ForPanel /\ panel'.slot = panel.slot
  /\ panel'.baseline = Head(events).is.val
  /\ \/ /\ Head(events).kind = "read" /\ panel.preserve_read
        /\ UNCHANGED <<panel.value, panel.drafts>>
     \/ /\ ~(Head(events).kind = "read" /\ panel.preserve_read)
        /\ panel'.value = Head(events).is.val
        /\ panel'.drafts = [panel.drafts EXCEPT ![panel.slot] = None]

LEMMA ShowsKeep ==
  ASSUME NEW p \in Panel, NEW con, NEW bus, Shows(p, con, bus)
  PROVE  /\ panel'.slot = p.slot /\ panel'.value = p.value
         /\ panel'.baseline = p.baseline /\ panel'.drafts = p.drafts
         /\ con \/ ~connected => panel' = p
         /\ connected /\ ~con => ~panel'.pending
         /\ connected' = con /\ busy' = bus
  BY DEF Shows, Panel

LEMMA StartKeep ==
  ASSUME NEW p \in Panel, NEW preserve, StartRead(p, preserve)
  PROVE  /\ panel'.slot = p.slot /\ panel'.value = p.value
         /\ panel'.baseline = p.baseline /\ panel'.drafts = p.drafts
         /\ panel'.pending /\ panel'.preserve_read = (preserve /\ p.value # p.baseline)
         /\ Ask([cmd |-> "read", slot |-> p.slot])
  BY DEF StartRead, Panel

LEMMA SwitchedKeep ==
  ASSUME TypeOK, NEW s \in Slots
  PROVE  /\ Switched(s).slot = s /\ Switched(s).pending = panel.pending
         /\ Switched(s).drafts = [panel.drafts EXCEPT ![panel.slot] = Mine]
         /\ Switched(s).value = IF panel.drafts[s] = None THEN Blank ELSE panel.drafts[s].val
         /\ Switched(s).baseline = IF panel.drafts[s] = None THEN Blank ELSE panel.drafts[s].base
  BY DEF Switched, Mine, TypeOK, Panel

LEMMA ReceivedKeep ==
  ASSUME TypeOK
  PROVE  /\ Received.slot = panel.slot /\ ~Received.pending
         /\ Received.baseline = Head(events).is.val
         /\ IF Head(events).kind = "read" /\ panel.preserve_read
            THEN Received.value = panel.value /\ Received.drafts = panel.drafts
            ELSE /\ Received.value = Head(events).is.val
                 /\ Received.drafts = [panel.drafts EXCEPT ![panel.slot] = None]
  BY DEF Received, Answered, TypeOK, Panel

LEMMA FailedKeep ==
  ASSUME TypeOK
  PROVE  /\ Failed \in Panel /\ ~Failed.pending /\ Failed.slot = panel.slot
         /\ Failed.value = panel.value /\ Failed.baseline = panel.baseline
         /\ Failed.drafts = panel.drafts
  BY DEF Failed, TypeOK, Panel

\* What a step does to the drafts.
LEMMA DraftSteps ==
  ASSUME TypeOK, [Next]_vars
  PROVE  \/ Keeps \/ Receives
         \/ \E s \in Slots \ {panel.slot} : Switches(s)
         \/ Edit /\ UNCHANGED <<panel.slot, panel.drafts>>
<1>0. panel \in Panel
  BY DEF TypeOK
<1>1. CASE ChangeTarget
  <2>1. PICK s \in Slots \ {panel.slot} :
          IF connected /\ ~panel.pending
          THEN StartRead(Switched(s), TRUE)
          ELSE panel' = Switched(s)
    BY <1>1 DEF ChangeTarget
  <2>2. Switched(s) \in Panel
    BY SwitchedType
  <2>3. /\ panel'.slot = Switched(s).slot /\ panel'.value = Switched(s).value
        /\ panel'.baseline = Switched(s).baseline /\ panel'.drafts = Switched(s).drafts
    BY <2>1, <2>2, StartKeep
  <2>4. Switches(s)
    BY <2>3, SwitchedKeep DEF Switches
  <2> QED
    BY <2>4
<1>2. CASE Edit
  BY <1>0, <1>2 DEF Edit, Panel
<1>3. CASE Retry \/ Restore
  BY <1>0, <1>3, StartKeep DEF Retry, Restore, Keeps
<1>4. CASE Save
  BY <1>0, <1>4 DEF Save, Keeps, Panel
<1>5. CASE Stop \/ Worker \/ Rival \/ UNCHANGED vars
  <2>1. panel' = panel
    BY <1>5 DEF Stop, Worker, Refuse, Begin, Succeed, Commit, Cancel, Reject, Break, Lose, Connect, Done,
       Rival, window, vars
  <2> QED
    BY <2>1 DEF Keeps
<1>6. CASE OnConnection \/ OnStopped
  BY <1>0, <1>6, ShowsKeep DEF OnConnection, OnStopped, Keeps
<1>7. CASE OnProblem
  BY <1>7, FailedKeep, ShowsKeep DEF OnProblem, Keeps
<1>8. CASE OnResult
  <2>1. CASE ForPanel
    <3>1. /\ panel'.slot = Received.slot /\ panel'.value = Received.value
          /\ panel'.baseline = Received.baseline /\ panel'.drafts = Received.drafts
      BY <1>8, <2>1, ReceivedType, ShowsKeep DEF OnResult
    <3> QED
      BY <1>8, <2>1, <3>1, ReceivedKeep DEF Receives
  <2>2. CASE ~ForPanel
    BY <1>0, <1>8, <2>2, ShowsKeep DEF OnResult, Keeps
  <2> QED
    BY <2>1, <2>2
<1>9. CASE EnsureRead
  BY <1>0, <1>9, StartKeep DEF EnsureRead, Keeps
<1> QED
  BY <1>1, <1>2, <1>3, <1>4, <1>5, <1>6, <1>7, <1>8, <1>9 DEF Next, User, Window

LEMMA AsideStep ==
  ASSUME TypeOK, AsideOK, [Next]_vars
  PROVE  AsideOK'
<1>0. panel.drafts \in [Slots -> Drafts \cup {None}] /\ panel.slot \in Slots
  BY DEF TypeOK, Panel
<1>1. CASE panel'.drafts = panel.drafts
  BY <1>1 DEF AsideOK
<1>2. CASE panel'.drafts = [panel.drafts EXCEPT ![panel.slot] = Mine]
  <2>1. Mine # None => Mine.val # Mine.base
    BY DEF Mine, dirty
  <2> QED
    BY <1>0, <1>2, <2>1 DEF AsideOK
<1>3. CASE panel'.drafts = [panel.drafts EXCEPT ![panel.slot] = None]
  BY <1>0, <1>3 DEF AsideOK
<1> QED
  BY <1>1, <1>2, <1>3, DraftSteps DEF Keeps, Receives, Switches

-----------------------------------------------------------------------------
(* One request at a time, while nobody clicks on the stop button.          *)

\* The panel waits for nothing if nothing is under way, and the other way.
LEMMA WaitFacts ==
  /\ Orderly /\ connected /\ ~panel.pending =>
       Nothing /\ \A i \in DOMAIN events : ~Opens(events[i])
  /\ Orderly /\ ~connected => ~panel.pending
  /\ Nothing => WaitOK \/ panel.pending
  /\ ~connected /\ ~panel.pending => WaitOK
  BY DEF Orderly, LinkOK, WaitOK, Wanted, Nothing, Replies

\* A request of a panel that waits for nothing.
LEMMA AskOrderly ==
  ASSUME TypeOK, Orderly, connected, ~panel.pending,
         NEW c \in Commands, Ask(c), c.cmd # "stop", Wanted(c)'
  PROVE  Orderly'
<1>1. /\ commands = <<>> /\ at = None
      /\ \A i \in DOMAIN events : ~Replies(events[i]) /\ ~Opens(events[i])
  BY WaitFacts DEF Nothing
<1>2. /\ commands' = Append(commands, c) /\ busy'
      /\ UNCHANGED <<session, at, stopFlag, events, connected>>
  BY DEF Ask
<1>3. commands' # <<>> /\ Head(commands') = c /\ Len(commands') = 1
  BY <1>1, <1>2
<1>4. Unstopped'
  BY <1>1, <1>2, <1>3 DEF Orderly, Unstopped
<1>5. OneOK'
  BY <1>1, <1>2, <1>3 DEF OneOK
<1>6. LinkOK'
  BY <1>1, <1>2 DEF Orderly, LinkOK, Opens
<1>7. WaitOK'
  BY <1>1, <1>2, <1>3 DEF WaitOK, Replies
<1> QED
  BY <1>4, <1>5, <1>6, <1>7 DEF Orderly

\* A panel that waits keeps what it waits with.
LEMMA StillOrderly ==
  ASSUME Orderly, UNCHANGED <<commands, at, stopFlag, events, session, connected, busy>>,
         panel'.pending = panel.pending, panel.pending => UNCHANGED <<panel, discard>>
  PROVE  Orderly'
<1>1. Unstopped' /\ OneOK'
  BY DEF Orderly, Unstopped, OneOK
<1>2. LinkOK'
  BY DEF Orderly, LinkOK, Nothing
<1>3. WaitOK'
  <2>1. CASE panel.pending
    <3>1. \A c : Wanted(c) => Wanted(c)'
      BY <2>1 DEF Wanted, Spares, dirty
    <3>2. Spares' <=> Spares
      BY <2>1 DEF Spares, dirty
    <3> QED
      BY <2>1, <3>1, <3>2 DEF Orderly, WaitOK
  <2>2. CASE ~panel.pending /\ connected
    <3>1. Nothing'
      BY <2>2, WaitFacts DEF Nothing
    <3> QED
      BY <2>2, <3>1 DEF WaitOK, Nothing, Replies
  <2>3. CASE ~panel.pending /\ ~connected
    BY <2>3 DEF WaitOK
  <2> QED
    BY <2>1, <2>2, <2>3
<1> QED
  BY <1>1, <1>2, <1>3 DEF Orderly

\* A read begins, of panel p.
LEMMA StartOrderly ==
  ASSUME TypeOK, Orderly, connected, ~panel.pending, NEW p \in Panel, NEW preserve \in BOOLEAN,
         StartRead(p, preserve), preserve \/ discard' = p.slot
  PROVE  Orderly'
<1>1. PICK c \in Commands : c = [cmd |-> "read", slot |-> p.slot]
  BY CommandType DEF Panel
<1>2. /\ panel'.slot = c.slot /\ panel'.pending /\ Ask(c) /\ c.cmd = "read"
      /\ panel'.value = p.value /\ panel'.baseline = p.baseline
      /\ panel'.preserve_read = (preserve /\ p.value # p.baseline)
      /\ p.slot = c.slot
  BY <1>1, StartKeep
<1>3. Spares'
  BY <1>2 DEF Spares, dirty
<1>4. Wanted(c)'
  BY <1>2, <1>3 DEF Wanted
<1> QED
  BY <1>2, <1>4, AskOrderly

LEMMA UserOrderly ==
  ASSUME TypeOK, Orderly,
         ChangeTarget \/ Edit \/ Retry \/ Restore \/ Save \/ EnsureRead
  PROVE  Orderly'
<1>0. panel \in Panel
  BY DEF TypeOK
<1>1. CASE ChangeTarget
  <2>1. PICK s \in Slots \ {panel.slot} :
          IF connected /\ ~panel.pending
          THEN StartRead(Switched(s), TRUE)
          ELSE panel' = Switched(s) /\ UNCHANGED <<worker, connected, busy>>
    BY <1>1 DEF ChangeTarget
  <2>2. CASE connected /\ ~panel.pending
    <3>1. Switched(s) \in Panel
      BY SwitchedType
    <3> QED
      BY <2>1, <2>2, <3>1, StartOrderly
  <2>3. CASE ~(connected /\ ~panel.pending)
    <3>1. ~panel.pending
      BY <1>1, <2>3 DEF ChangeTarget, Orderly, WaitOK
    <3>2. panel'.pending = panel.pending
      BY <2>1, <2>3, SwitchedKeep
    <3> QED
      BY <2>1, <2>3, <3>1, <3>2, StillOrderly DEF worker
  <2> QED
    BY <2>2, <2>3
<1>2. CASE Edit
  <2>1. panel'.pending = panel.pending /\ ~panel.pending
    BY <1>0, <1>2 DEF Edit, idle, Panel
  <2> QED
    BY <1>2, <2>1, StillOrderly DEF Edit, worker
<1>3. CASE Retry \/ Restore
  BY <1>0, <1>3, StartOrderly DEF Retry, Restore, idle
<1>4. CASE Save
  <2>1. PICK c \in Commands :
          c = [cmd |-> "save", slot |-> panel.slot, rev |-> panel.revision,
               val |-> panel.value, base |-> panel.baseline, sent |-> FALSE]
    <3>1. /\ panel.slot \in Slots /\ panel.revision \in 0..Revisions - 1
          /\ panel.value \in Macros /\ panel.baseline \in Macros
      BY <1>0, <1>4 DEF Save, Panel
    <3> QED
      BY <3>1, CommandType
  <2>2. /\ Ask(c) /\ connected /\ ~panel.pending
        /\ panel'.pending /\ panel'.slot = panel.slot /\ panel'.value = panel.value
    BY <1>0, <1>4, <2>1 DEF Save, idle, Panel
  <2>3. c.slot = panel.slot /\ c.val = panel.value /\ c.cmd = "save"
    BY <2>1
  <2>4. Wanted(c)'
    BY <2>2, <2>3 DEF Wanted
  <2> QED
    BY <2>2, <2>3, <2>4, AskOrderly
<1>5. CASE EnsureRead
  <2>1. CASE panel.needs_read /\ connected /\ idle
    BY <1>0, <1>5, <2>1, StartOrderly DEF EnsureRead, idle
  <2>2. CASE ~(panel.needs_read /\ connected /\ idle)
    BY <1>5, <2>2, StillOrderly DEF EnsureRead, worker
  <2> QED
    BY <2>1, <2>2
<1> QED
  BY <1>1, <1>2, <1>3, <1>4, <1>5

\* The signals after one was taken.
LEMMA TakeFacts ==
  ASSUME TypeOK, NEW kind, Handle(kind)
  PROVE  /\ 1 \in DOMAIN events /\ events[1] = Head(events) /\ events[1].kind = kind
         /\ Head(events) \in Events
         /\ \A i \in DOMAIN events' :
              i \in Nat /\ i + 1 \in DOMAIN events /\ events'[i] = events[i + 1]
         /\ \A i \in DOMAIN events :
              i \in Nat /\ (i = 1 \/ (i - 1 \in DOMAIN events' /\ events'[i - 1] = events[i]))
         /\ UNCHANGED <<session, commands, at, stopFlag>>
<1> DEFINE q == events
           r == Tail(q)
<1>1. q \in Seq(Events) /\ q # <<>> /\ events' = r /\ Head(q).kind = kind
  BY DEF TypeOK, Handle
<1> HIDE DEF q
<1>2. /\ Len(q) \in Nat /\ Len(q) >= 1 /\ DOMAIN q = 1..Len(q)
      /\ Len(r) = Len(q) - 1 /\ DOMAIN r = 1..Len(q) - 1
      /\ q[1] = Head(q) /\ Head(q) \in Events
      /\ \A i \in 1..Len(q) - 1 : r[i] = q[i + 1]
  BY <1>1, HeadTailProperties
<1>3. \A i \in DOMAIN r : i \in Nat /\ i + 1 \in DOMAIN q /\ r[i] = q[i + 1]
  BY <1>2
<1>4. \A i \in DOMAIN q : i \in Nat /\ (i = 1 \/ (i - 1 \in DOMAIN r /\ r[i - 1] = q[i]))
  BY <1>2
<1>5. 1 \in DOMAIN q
  BY <1>2
<1> QED
  BY <1>1, <1>2, <1>3, <1>4, <1>5 DEF q, Handle

\* What is left to show when a signal is taken.
LEMMA TakeOrderly ==
  ASSUME TypeOK, Orderly, NEW kind, Handle(kind), WaitOK',
         kind # "ready" /\ connected' => connected /\ kind # "lost"
  PROVE  Orderly'
<1>1. Unstopped'
  BY TakeFacts DEF Orderly, Unstopped
<1>2. OneOK'
  <2>1. \A i, j \in DOMAIN events' : Replies(events'[i]) /\ Replies(events'[j]) => i = j
    <3>1. ASSUME NEW i \in DOMAIN events', NEW j \in DOMAIN events',
                 Replies(events'[i]), Replies(events'[j])
          PROVE  i = j
      <4>1. i + 1 = j + 1 /\ i \in Nat /\ j \in Nat
        BY <3>1, TakeFacts DEF Orderly, OneOK
      <4> QED
        BY <4>1
    <3> QED
      BY <3>1
  <2> QED
    BY <2>1, TakeFacts DEF Orderly, OneOK
<1>3. ASSUME NEW i \in DOMAIN events', Opens(events'[i])
      PROVE  ~connected' /\ Nothing'
  <2>1. i \in Nat /\ i + 1 \in DOMAIN events /\ Opens(events[i + 1]) /\ 1 \in DOMAIN events
    BY <1>3, TakeFacts
  <2>2. ~connected /\ Nothing
    BY <2>1 DEF Orderly, LinkOK
  <2>3. Nothing'
    BY <2>2, TakeFacts DEF Nothing
  <2>4. kind # "ready"
    <3>1. kind = "ready" => i + 1 <= 1
      BY <2>1, TakeFacts DEF Orderly, LinkOK
    <3>2. ~(i + 1 <= 1)
      <4>1. i # 0
        BY <1>3, TakeFacts DEF TypeOK, Handle
      <4> QED
        BY <2>1, <4>1
    <3> QED
      BY <3>1, <3>2
  <2> QED
    BY <2>2, <2>3, <2>4
<1>4. ASSUME NEW i \in DOMAIN events', NEW j \in DOMAIN events',
             events'[i].kind = "ready", Opens(events'[j])
      PROVE  j <= i
  <2>1. i \in Nat /\ j \in Nat /\ j + 1 <= i + 1
    BY <1>4, TakeFacts DEF Orderly, LinkOK
  <2> QED
    BY <2>1
<1>5. ASSUME NEW i \in DOMAIN events, i > 1, events[i].kind = "lost"
      PROVE  i - 1 \in DOMAIN events' /\ events'[i - 1].kind = "lost"
  BY <1>5, TakeFacts
<1>6. connected' => session' \/ \E i \in DOMAIN events' : events'[i].kind = "lost"
  <2>1. CASE kind = "ready"
    <3>1. session \/ \E j \in DOMAIN events : j > 1 /\ events[j].kind = "lost"
      BY <2>1, TakeFacts DEF Orderly, LinkOK
    <3> QED
      BY <1>5, <3>1, TakeFacts
  <2>2. CASE kind # "ready"
    <3>1. SUFFICES ASSUME connected'
                   PROVE  session' \/ \E i \in DOMAIN events' : events'[i].kind = "lost"
      OBVIOUS
    <3>2. connected /\ kind # "lost"
      BY <2>2, <3>1
    <3>3. session \/ \E j \in DOMAIN events : j # 1 /\ events[j].kind = "lost"
      BY <3>2, TakeFacts DEF Orderly, LinkOK
    <3> QED
      BY <3>3, TakeFacts
  <2> QED
    BY <2>1, <2>2
<1>7. ASSUME NEW i \in DOMAIN events', events'[i].kind = "ready"
      PROVE  session' \/ \E j \in DOMAIN events' : j > i /\ events'[j].kind = "lost"
  <2>1. i \in Nat /\ i + 1 \in DOMAIN events /\ events[i + 1].kind = "ready"
    BY <1>7, TakeFacts
  <2>2. session \/ \E j \in DOMAIN events : j > i + 1 /\ events[j].kind = "lost"
    BY <2>1 DEF Orderly, LinkOK
  <2>3. ASSUME NEW j \in DOMAIN events, j > i + 1, events[j].kind = "lost"
        PROVE  j - 1 \in DOMAIN events' /\ j - 1 > i /\ events'[j - 1].kind = "lost"
    <3>1. j \in Nat /\ j # 1
      BY <2>1, <2>3, TakeFacts
    <3>2. j - 1 \in DOMAIN events' /\ events'[j - 1] = events[j]
      BY <3>1, TakeFacts
    <3> QED
      BY <2>1, <2>3, <3>1, <3>2
  <2> QED
    BY <2>2, <2>3, TakeFacts
<1>8. LinkOK'
  BY <1>3, <1>4, <1>6, <1>7 DEF LinkOK
<1> QED
  BY <1>1, <1>2, <1>8 DEF Orderly

\* After the only answer nothing is under way.
LEMMA LastReply ==
  ASSUME TypeOK, Orderly, NEW kind, Handle(kind), kind \in {"read", "save", "problem"}
  PROVE  Nothing'
<1>1. commands' = <<>> /\ at' = None
  BY TakeFacts DEF Orderly, OneOK, Replies
<1>2. ASSUME NEW i \in DOMAIN events', Replies(events'[i])
      PROVE  FALSE
  <2>1. i \in Nat /\ i + 1 = 1
    BY <1>2, TakeFacts DEF Orderly, OneOK, Replies
  <2>2. i # 0
    BY <1>2, TakeFacts DEF TypeOK, Handle
  <2> QED
    BY <2>1, <2>2
<1> QED
  BY <1>1, <1>2 DEF Nothing

LEMMA WindowOrderly ==
  ASSUME TypeOK, Orderly, Window
  PROVE  Orderly'
<1>0. panel \in Panel /\ connected \in BOOLEAN
  BY DEF TypeOK
<1>1. Nothing' /\ ~panel'.pending => WaitOK'
  BY DEF WaitOK, Nothing, Replies
<1>2. ~connected' /\ ~panel'.pending => WaitOK'
  BY DEF WaitOK
<1>3. ~connected => ~panel.pending
  BY WaitFacts
<1>4. CASE OnConnection
  <2>1. CASE Handle("ready") /\ Shows(panel, TRUE, FALSE)
    <3>1. ~connected /\ Nothing
      BY <2>1, TakeFacts DEF Orderly, LinkOK, Opens
    <3>2. Nothing'
      BY <2>1, <3>1, TakeFacts DEF Nothing
    <3>3. ~panel'.pending
      BY <1>0, <1>3, <2>1, <3>1, ShowsKeep
    <3> QED
      BY <1>1, <2>1, <3>2, <3>3, TakeOrderly
  <2>2. ASSUME NEW kind \in {"connecting", "lost"}, NEW bus, Handle(kind), Shows(panel, FALSE, bus)
        PROVE  Orderly'
    <3>1. ~connected' /\ ~panel'.pending
      BY <1>0, <1>3, <2>2, ShowsKeep
    <3> QED
      BY <1>2, <2>2, <3>1, TakeOrderly
  <2> QED
    BY <1>4, <2>1, <2>2 DEF OnConnection
<1>5. CASE OnResult
  <2>1. PICK kind \in {"read", "save"} : Handle(kind)
    BY <1>5 DEF OnResult
  <2>2. connected' = connected
    BY <1>0, <1>5, ReceivedType, ShowsKeep DEF OnResult
  <2>3. ~panel'.pending
    <3>1. CASE connected
      <4>1. ForPanel
        BY <2>1, <3>1, TakeFacts DEF ForPanel, Orderly, WaitOK
      <4>2. panel' = Received
        BY <1>5, <3>1, <4>1, ReceivedType, ShowsKeep DEF OnResult
      <4> QED
        BY <4>2, ReceivedKeep
    <3>2. CASE ~connected
      BY <1>0, <1>3, <1>5, <3>2, ShowsKeep DEF OnResult, ForPanel
    <3> QED
      BY <3>1, <3>2
  <2>4. Nothing'
    BY <2>1, LastReply
  <2> QED
    BY <1>1, <2>1, <2>2, <2>3, <2>4, TakeOrderly
<1>6. CASE OnStopped
  BY <1>6, TakeFacts DEF OnStopped, Orderly, Unstopped
<1>7. CASE OnProblem
  <2>1. Handle("problem") /\ Shows(Failed, connected, FALSE)
    BY <1>7 DEF OnProblem
  <2>2. connected' = connected /\ panel' = Failed
    BY <1>0, <2>1, FailedKeep, ShowsKeep
  <2>3. ~panel'.pending
    BY <2>2, FailedKeep
  <2>4. Nothing'
    BY <2>1, LastReply
  <2> QED
    BY <1>1, <2>1, <2>2, <2>3, <2>4, TakeOrderly
<1>8. CASE EnsureRead
  BY <1>8, UserOrderly
<1> QED
  BY <1>4, <1>5, <1>6, <1>7, <1>8 DEF Window

\* The signals after others, r, have joined them.
LEMMA JoinFacts ==
  ASSUME TypeOK, NEW r \in Seq(Events), events' = events \o r
  PROVE  /\ Len(events) \in Nat /\ DOMAIN events = 1..Len(events)
         /\ \A i \in DOMAIN events : i \in DOMAIN events' /\ events'[i] = events[i]
         /\ \A i \in DOMAIN events' :
              \/ i \in DOMAIN events /\ events'[i] = events[i]
              \/ /\ i \in Nat /\ i > Len(events) /\ i - Len(events) \in DOMAIN r
                 /\ events'[i] = r[i - Len(events)]
         /\ \A k \in DOMAIN r : /\ k + Len(events) \in DOMAIN events'
                               /\ events'[k + Len(events)] = r[k]
<1> DEFINE q == events
           t == q \o r
<1>1. q \in Seq(Events) /\ events' = t
  BY DEF TypeOK
<1> HIDE DEF q
<1>2. /\ Len(q) \in Nat /\ Len(r) \in Nat /\ DOMAIN q = 1..Len(q) /\ DOMAIN r = 1..Len(r)
      /\ DOMAIN t = 1..Len(q) + Len(r)
      /\ \A i \in 1..Len(q) + Len(r) : t[i] = IF i <= Len(q) THEN q[i] ELSE r[i - Len(q)]
  BY <1>1, ConcatProperties
<1>3. \A i \in DOMAIN q : i \in DOMAIN t /\ t[i] = q[i]
  BY <1>2
<1>4. \A i \in DOMAIN t :
        \/ i \in DOMAIN q /\ t[i] = q[i]
        \/ i \in Nat /\ i > Len(q) /\ i - Len(q) \in DOMAIN r /\ t[i] = r[i - Len(q)]
  BY <1>2
<1>5. \A k \in DOMAIN r : k + Len(q) \in DOMAIN t /\ t[k + Len(q)] = r[k]
  BY <1>2
<1> QED
  BY <1>1, <1>2, <1>3, <1>4, <1>5 DEF q

LEMMA TwoSignals ==
  ASSUME NEW d \in Events, NEW e \in Events
  PROVE  /\ <<d>> \o <<e>> \in Seq(Events) /\ DOMAIN (<<d>> \o <<e>>) = {1, 2}
         /\ (<<d>> \o <<e>>)[1] = d /\ (<<d>> \o <<e>>)[2] = e
<1> DEFINE q == <<d>>
           r == <<e>>
<1>1. q \in Seq(Events) /\ r \in Seq(Events) /\ Len(q) = 1 /\ Len(r) = 1 /\ q[1] = d /\ r[1] = e
  OBVIOUS
<1> HIDE DEF q, r
<1>2. /\ q \o r \in Seq(Events) /\ Len(q \o r) = 2
      /\ \A i \in 1..2 : (q \o r)[i] = IF i <= 1 THEN q[i] ELSE r[i - 1]
  BY <1>1, ConcatProperties
<1>3. DOMAIN (q \o r) = 1..2 /\ 1..2 = {1, 2}
  BY <1>2
<1>4. (q \o r)[1] = d /\ (q \o r)[2] = e
  BY <1>1, <1>2
<1> QED
  BY <1>2, <1>3, <1>4 DEF q, r

\* A session or its loss is announced.
LEMMA JoinLink ==
  ASSUME TypeOK, LinkOK, NEW r \in Seq(Events), events' = events \o r,
         \A k \in DOMAIN r : ~Opens(r[k]),
         UNCHANGED connected, session' = session \/ \E k \in DOMAIN r : r[k].kind = "lost",
         (\A i \in DOMAIN events : ~Opens(events[i])) \/ Nothing'
  PROVE  LinkOK'
<1>1. ASSUME NEW i \in DOMAIN events', Opens(events'[i])
      PROVE  i \in DOMAIN events /\ events'[i] = events[i]
  BY <1>1, JoinFacts
<1>2. \A i \in DOMAIN events' : Opens(events'[i]) => ~connected' /\ Nothing'
  BY <1>1 DEF LinkOK
<1>3. \A i, j \in DOMAIN events' : events'[i].kind = "ready" /\ Opens(events'[j]) => j <= i
  <2>1. ASSUME NEW i \in DOMAIN events', NEW j \in DOMAIN events',
               events'[i].kind = "ready", Opens(events'[j])
        PROVE  j <= i
    <3>1. Opens(events'[i])
      BY <2>1 DEF Opens
    <3> QED
      BY <1>1, <2>1, <3>1 DEF LinkOK
  <2> QED
    BY <2>1
<1>4. connected' => session' \/ \E i \in DOMAIN events' : events'[i].kind = "lost"
  BY JoinFacts DEF LinkOK
<1>5. ASSUME NEW i \in DOMAIN events', events'[i].kind = "ready"
      PROVE  session' \/ \E j \in DOMAIN events' : j > i /\ events'[j].kind = "lost"
  <2>1. i \in DOMAIN events /\ events[i].kind = "ready"
    BY <1>1, <1>5 DEF Opens
  <2>2. session \/ \E j \in DOMAIN events : j > i /\ events[j].kind = "lost"
    BY <2>1 DEF LinkOK
  <2>3. ASSUME NEW k \in DOMAIN r
        PROVE  k + Len(events) > i
    <3>1. k \in Nat /\ k > 0 /\ i \in Nat /\ i <= Len(events) /\ Len(events) \in Nat
      BY <2>1, JoinFacts
    <3> QED
      BY <3>1
  <2>4. CASE session' = session
    <3>1. \A j \in DOMAIN events : j \in DOMAIN events' /\ events'[j] = events[j]
      BY JoinFacts
    <3> QED
      BY <2>2, <2>4, <3>1
  <2>5. CASE \E k \in DOMAIN r : r[k].kind = "lost"
    <3>1. PICK k \in DOMAIN r : r[k].kind = "lost"
      BY <2>5
    <3>2. k + Len(events) \in DOMAIN events' /\ events'[k + Len(events)].kind = "lost"
      BY <3>1, JoinFacts
    <3> QED
      BY <2>3, <3>2
  <2> QED
    BY <2>4, <2>5
<1> QED
  BY <1>2, <1>3, <1>4, <1>5 DEF LinkOK

\* The request under way is answered, and the session may end.
LEMMA AnswerOrderly ==
  ASSUME TypeOK, Orderly, at # None \/ commands # <<>>,
         commands' = <<>>, at' = None, UNCHANGED <<stopFlag, connected, busy, panel, discard>>,
         NEW e \in Events, Replies(e),
         \/ events' = events \o <<e>> /\ session' = session
         \/ events' = events \o (<<e>> \o Signal("lost")),
         connected =>
           /\ e.kind \in {"read", "save"} => e.slot = panel.slot
           /\ e.kind = "read" => Spares
           /\ e.kind = "save" => e.is.val = panel.value
  PROVE  Orderly'
<1>1. PICK r \in Seq(Events) :
        /\ events' = events \o r /\ 1 \in DOMAIN r /\ r[1] = e
        /\ \A k \in DOMAIN r : k \in Nat /\ (k = 1 \/ r[k].kind = "lost")
        /\ session' = session \/ \E k \in DOMAIN r : r[k].kind = "lost"
  <2>1. CASE events' = events \o <<e>> /\ session' = session
    <3> DEFINE r == <<e>>
    <3>1. r \in Seq(Events) /\ DOMAIN r = {1} /\ r[1] = e /\ events' = events \o r
      BY <2>1
    <3> HIDE DEF r
    <3> QED
      BY <2>1, <3>1
  <2>2. CASE events' = events \o (<<e>> \o Signal("lost"))
    <3>1. PICK l \in Events : l.kind = "lost" /\ Signal("lost") = <<l>>
      BY SignalType DEF Signal
    <3> DEFINE r == <<e>> \o <<l>>
    <3>2. r \in Seq(Events) /\ DOMAIN r = {1, 2} /\ r[1] = e /\ r[2] = l
      BY TwoSignals
    <3>3. events' = events \o r
      BY <2>2, <3>1
    <3> HIDE DEF r
    <3>4. /\ \A k \in DOMAIN r : k \in Nat /\ (k = 1 \/ r[k].kind = "lost")
          /\ 1 \in DOMAIN r /\ \E k \in DOMAIN r : r[k].kind = "lost"
      BY <3>1, <3>2
    <3> QED
      BY <3>2, <3>3, <3>4
  <2> QED
    BY <2>1, <2>2
<1>2. \A i \in DOMAIN events : ~Replies(events[i]) /\ ~Opens(events[i])
  BY DEF Orderly, OneOK, LinkOK, Nothing
<1>3. connected => panel.pending
  BY DEF Orderly, WaitOK, Wanted
<1>4. \A k \in DOMAIN r :
        /\ ~Opens(r[k]) /\ r[k].kind # "stop"
        /\ r[k].kind = "lost" \/ (k = 1 /\ r[k] = e)
  <2>1. ~Opens(e) /\ e.kind # "stop"
    BY DEF Replies, Opens
  <2> QED
    BY <1>1, <2>1 DEF Opens
<1>5. \A i \in DOMAIN events' :
         \/ i \in DOMAIN events /\ events'[i] = events[i]
         \/ /\ i \in Nat /\ Len(events) \in Nat /\ i - Len(events) \in DOMAIN r
            /\ events'[i] = r[i - Len(events)]
  BY <1>1, JoinFacts
<1>6. ASSUME NEW i \in DOMAIN events', Replies(events'[i])
      PROVE  i = Len(events) + 1 /\ events'[i] = e
  <2>1. /\ i \in Nat /\ Len(events) \in Nat /\ i - Len(events) \in DOMAIN r
        /\ events'[i] = r[i - Len(events)]
    BY <1>2, <1>6, <1>5
  <2>2. i - Len(events) = 1
    BY <1>4, <1>6, <2>1 DEF Replies
  <2> QED
    BY <1>1, <2>1, <2>2
<1>7. Unstopped'
  <2>1. \A i \in DOMAIN events' : events'[i].kind # "stop"
    BY <1>4, <1>5 DEF Orderly, Unstopped
  <2> QED
    BY <2>1 DEF Orderly, Unstopped
<1>8. OneOK'
  <2>1. Len(commands') <= 1
    OBVIOUS
  <2>2. \A i, j \in DOMAIN events' : Replies(events'[i]) /\ Replies(events'[j]) => i = j
    BY <1>6
  <2> QED
    BY <2>1, <2>2 DEF OneOK
<1>9. LinkOK'
  <2>1. \A k \in DOMAIN r : ~Opens(r[k])
    BY <1>4
  <2>2. LinkOK /\ UNCHANGED connected
    BY DEF Orderly
  <2> QED
    BY <1>1, <1>2, <2>1, <2>2, JoinLink
<1>10. WaitOK'
  <2>1. Spares' <=> Spares
    BY DEF Spares, dirty
  <2>2. ASSUME NEW i \in DOMAIN events', connected'
        PROVE  /\ Replies(events'[i]) => panel'.pending
               /\ events'[i].kind \in {"read", "save"} => events'[i].slot = panel'.slot
               /\ events'[i].kind = "read" => Spares'
               /\ events'[i].kind = "save" => events'[i].is.val = panel'.value
    BY <1>3, <1>6, <2>1, <2>2 DEF Replies
  <2>3. panel'.pending => connected' /\ busy'
    BY DEF Orderly, WaitOK
  <2> QED
    BY <2>2, <2>3 DEF WaitOK
<1> QED
  BY <1>7, <1>8, <1>9, <1>10 DEF Orderly

LEMMA WorkerOrderly ==
  ASSUME TypeOK, Orderly, Worker \/ Rival
  PROVE  Orderly'
<1>0. /\ commands \in Seq(Commands) /\ at \in Commands \cup {None}
      /\ UNCHANGED <<connected, busy, panel, discard>>
  BY DEF TypeOK, Worker, Refuse, Begin, Succeed, Commit, Cancel, Reject, Break, Lose, Connect, Done, Rival,
     window
<1>1. commands # <<>> => Tail(commands) = <<>> /\ Head(commands) \in Commands
  <2>1. ASSUME commands # <<>> PROVE Tail(commands) = <<>> /\ Head(commands) \in Commands
    <3>1. /\ Len(commands) \in Nat /\ Len(commands) >= 1 /\ Len(Tail(commands)) = Len(commands) - 1
          /\ Tail(commands) \in Seq(Commands) /\ Head(commands) \in Commands
      BY <1>0, <2>1, HeadTailProperties
    <3>2. Len(commands) <= 1
      BY DEF Orderly, OneOK
    <3>3. Len(Tail(commands)) = 0
      BY <3>1, <3>2
    <3> QED
      BY <3>1, <3>3, EmptySeq
  <2> QED
    BY <2>1
<1>2. at # None => commands = <<>>
  BY DEF Orderly, OneOK
<1>3. Spares' <=> Spares
  BY <1>0 DEF Spares, dirty
<1>4. PICK p \in Events : p.kind = "problem" /\ Signal("problem") = <<p>> /\ Replies(p)
  BY SignalType DEF Signal, Replies
<1>5. CASE Refuse
  BY <1>0, <1>1, <1>4, <1>5, AnswerOrderly DEF Refuse, Emit, Orderly, OneOK
<1>6. CASE Begin
  <2>1. /\ commands # <<>> /\ commands' = <<>> /\ at' = Head(commands) /\ ~stopFlag'
        /\ UNCHANGED <<events, session>> /\ at = None
    BY <1>1, <1>6 DEF Begin, FlagAtStart, Orderly, Unstopped
  <2>2. \A i \in DOMAIN events : ~Replies(events[i]) /\ ~Opens(events[i])
    BY <2>1 DEF Orderly, OneOK, LinkOK, Nothing
  <2>3. Unstopped'
    BY <2>1 DEF Orderly, Unstopped
  <2>4. OneOK'
    BY <2>1, <2>2 DEF OneOK
  <2>5. LinkOK'
    BY <1>0, <2>1, <2>2 DEF Orderly, LinkOK, Opens
  <2>6. WaitOK'
    <3>1. connected => Wanted(at)'
      BY <1>0, <1>3, <2>1 DEF Orderly, WaitOK, Wanted
    <3> QED
      BY <1>0, <2>1, <2>2, <3>1 DEF Orderly, WaitOK, Replies
  <2> QED
    BY <2>3, <2>4, <2>5, <2>6 DEF Orderly
<1>7. CASE Succeed
  <2>1. at \in Commands /\ at.cmd # "stop" /\ at # None
    BY <1>0, <1>7 DEF Succeed, Orderly, Unstopped
  <2>2. connected => Wanted(at)
    BY <2>1 DEF Orderly, WaitOK
  <2>3. stored[at.slot] \in Stored /\ at.slot \in Slots
    BY <2>1, Parts DEF TypeOK
  <2>4. PICK e \in Events :
          /\ e.kind \in {"read", "save"} /\ e.kind = at.cmd /\ e.slot = at.slot
          /\ e.kind = "save" => e.is.val = at.val
          /\ events' = events \o <<e>>
    <3>1. CASE at.cmd = "read"
      <4> DEFINE e == [kind |-> "read", slot |-> at.slot, is |-> stored[at.slot]]
      <4>1. e \in Events /\ events' = events \o <<e>>
        BY <1>7, <2>1, <2>3, <3>1, SignalType DEF Succeed, Emit
      <4> QED
        BY <3>1, <4>1
    <3>2. CASE at.cmd = "save"
      <4> DEFINE e == [kind |-> "save", slot |-> at.slot, is |-> stored[at.slot]]
      <4>1. e \in Events /\ events' = events \o <<e>> /\ e.is.val = at.val
        BY <1>7, <2>1, <2>3, <3>2, SignalType DEF Succeed, Emit, ReadsBack
      <4> QED
        BY <3>2, <4>1
    <3> QED
      BY <1>7, <2>1, <3>1, <3>2 DEF Succeed
  <2>5. connected =>
          /\ e.kind \in {"read", "save"} => e.slot = panel.slot
          /\ e.kind = "read" => Spares
          /\ e.kind = "save" => e.is.val = panel.value
    BY <2>2, <2>4 DEF Wanted
  <2>6. commands' = <<>> /\ at' = None /\ UNCHANGED <<stopFlag, session>>
    BY <1>2, <1>7, <2>1 DEF Succeed, Done
  <2>7. Replies(e)
    BY <2>4 DEF Replies
  <2> QED
    BY <1>0, <2>1, <2>4, <2>5, <2>6, <2>7, AnswerOrderly
<1>8. CASE Commit
  <2>1. /\ at \in Commands /\ at.cmd = "save" /\ at # None /\ at' = [at EXCEPT !.sent = TRUE]
        /\ UNCHANGED <<session, commands, stopFlag, events>>
    BY <1>0, <1>8 DEF Commit
  <2>2. at'.cmd = at.cmd /\ at'.slot = at.slot /\ at'.val = at.val
    BY <2>1, Parts
  <2>3. \A i \in DOMAIN events : ~Replies(events[i]) /\ ~Opens(events[i])
    BY <2>1 DEF Orderly, OneOK, LinkOK, Nothing
  <2>4. Unstopped'
    BY <2>1, <2>2 DEF Orderly, Unstopped
  <2>5. OneOK'
    BY <1>2, <2>1, <2>3 DEF OneOK
  <2>6. LinkOK'
    BY <1>0, <2>1, <2>3 DEF Orderly, LinkOK, Opens
  <2>7. WaitOK'
    <3>1. connected => Wanted(at)'
      BY <1>0, <1>3, <2>1, <2>2 DEF Orderly, WaitOK, Wanted
    <3> QED
      BY <1>0, <1>2, <2>1, <2>3, <3>1 DEF Orderly, WaitOK, Replies
  <2> QED
    BY <2>4, <2>5, <2>6, <2>7 DEF Orderly
<1>9. CASE Cancel
  BY <1>9 DEF Cancel, Orderly, Unstopped
<1>10. CASE Reject
  BY <1>0, <1>2, <1>4, <1>10, AnswerOrderly DEF Reject, Emit, Done
<1>11. CASE Break
  <2>1. ~stopFlag
    BY DEF Orderly, Unstopped
  <2>2. /\ at # None /\ events' = events \o (<<p>> \o Signal("lost")) /\ at' = None
        /\ UNCHANGED <<commands, stopFlag>>
    BY <1>4, <1>11, <2>1 DEF Break, Emit, Done
  <2> QED
    BY <1>0, <1>2, <1>4, <2>2, AnswerOrderly
<1>12. CASE Lose
  <2>1. PICK l \in Events : l.kind = "lost" /\ Signal("lost") = <<l>>
    BY SignalType DEF Signal
  <2> DEFINE r == <<l>>
  <2>2. r \in Seq(Events) /\ DOMAIN r = {1} /\ r[1] = l
    OBVIOUS
  <2>3. events' = events \o r /\ UNCHANGED <<commands, at, stopFlag>>
    BY <1>12, <2>1 DEF Lose, Emit
  <2> HIDE DEF r
  <2>4. ~Opens(l) /\ ~Replies(l) /\ l.kind \notin {"stop", "read", "save"}
    BY <2>1 DEF Opens, Replies
  <2>5. \A i \in DOMAIN events' :
          \/ i \in DOMAIN events /\ events'[i] = events[i]
          \/ events'[i] = l
    <3>1. \A i \in DOMAIN events' :
            \/ i \in DOMAIN events /\ events'[i] = events[i]
            \/ \E k \in DOMAIN r : events'[i] = r[k]
      BY <2>2, <2>3, JoinFacts
    <3> QED
      BY <2>2, <3>1
  <2>6. Unstopped'
    BY <2>3, <2>4, <2>5 DEF Orderly, Unstopped
  <2>7. OneOK'
    BY <2>3, <2>4, <2>5 DEF Orderly, OneOK
  <2>8. Nothing => Nothing'
    BY <2>3, <2>4, <2>5 DEF Nothing
  <2>9. LinkOK'
    BY <1>0, <2>1, <2>2, <2>3, <2>4, <2>8, JoinLink DEF Orderly, LinkOK
  <2>10. WaitOK'
    <3>1. \A c : Wanted(c) => Wanted(c)'
      BY <1>0, <1>3 DEF Wanted
    <3> QED
      BY <1>0, <1>3, <2>3, <2>4, <2>5, <3>1 DEF Orderly, WaitOK
  <2> QED
    BY <2>6, <2>7, <2>9, <2>10 DEF Orderly
<1>13. CASE Connect
  <2>1. /\ events = <<>> /\ commands = <<>> /\ at = None /\ session'
        /\ UNCHANGED <<commands, at, stopFlag>>
        /\ events' = <<>> \o (Signal("connecting") \o Signal("ready")) /\ ~session
    BY <1>13 DEF Connect, Emit
  <2>2. ~connected
    BY <2>1 DEF Orderly, LinkOK
  <2>3. ~panel.pending
    BY <2>2, WaitFacts
  <2>4. PICK c \in Events, y \in Events :
          /\ c.kind = "connecting" /\ Signal("connecting") = <<c>>
          /\ y.kind = "ready" /\ Signal("ready") = <<y>>
    BY SignalType DEF Signal
  <2>5. <<c>> \o <<y>> \in Seq(Events) /\ <<>> \o (<<c>> \o <<y>>) = <<c>> \o <<y>>
    BY TwoSignals, ConcatEmptySeq
  <2>6. events' = <<c>> \o <<y>>
    BY <2>1, <2>4, <2>5
  <2>7. DOMAIN events' = {1, 2} /\ events'[1] = c /\ events'[2] = y
    BY <2>6, TwoSignals
  <2>8. \A i \in DOMAIN events' : ~Replies(events'[i]) /\ events'[i].kind # "stop"
    BY <2>4, <2>7 DEF Replies
  <2>9. Nothing' /\ Unstopped' /\ OneOK'
    BY <2>1, <2>8 DEF Nothing, Orderly, Unstopped, OneOK
  <2>10. LinkOK'
    BY <1>0, <2>1, <2>2, <2>4, <2>7, <2>9 DEF LinkOK
  <2>11. WaitOK'
    BY <1>0, <2>2, <2>3 DEF WaitOK
  <2> QED
    BY <2>9, <2>10, <2>11 DEF Orderly
<1>14. CASE Rival
  BY <1>0, <1>14, StillOrderly DEF Rival
<1> QED
  BY <1>5, <1>6, <1>7, <1>8, <1>9, <1>10, <1>11, <1>12, <1>13, <1>14 DEF Worker

-----------------------------------------------------------------------------
(* What is known of a macro on the device, and how old it may be.          *)

\* The revisions of a slot do not come round while something is under way.
FewMishaps ==
  /\ MaxStops \in Nat /\ MaxMishaps \in Nat
  /\ MaxStops + MaxMishaps + 4 < Revisions

Limit == MaxStops + MaxMishaps + 4

\* How many saves lead from revision a to revision b.
Steps(a, b) == IF b >= a THEN b - a ELSE b - a + Revisions

\* Revision r with content v was on the device, and is that of d if d is of
\* this revision; there may be w saves more.
Fits(r, v, d, w) == Steps(r, d.rev) + w <= Limit /\ (r = d.rev => v = d.val)

Room == (MaxStops - stops) + (MaxMishaps - mishaps)

Free == IF busy THEN 0 ELSE 1

Asks == IF panel.pending THEN 0 ELSE 1

\* The worker has a command that may yet save.
Undone == IF at # None /\ ~(at.cmd = "save" /\ at.sent) THEN 1 ELSE 0

Work == Len(commands) + Undone

\* An answer is shown after those before it, each of which lets the user ask.
EventsKnown ==
  \A j \in DOMAIN events : events[j].kind \in {"read", "save"} =>
    Fits(events[j].is.rev, events[j].is.val, stored[events[j].slot], Room + Work + j + Free)

PanelKnown ==
  panel.revision # None =>
    Fits(panel.revision, panel.baseline, stored[panel.slot],
         Room + Work + Asks)

\* The commands before a save may save.
CommandsKnown ==
  \A i \in DOMAIN commands : commands[i].cmd = "save" =>
    /\ ~commands[i].sent
    /\ Fits(commands[i].rev, commands[i].base, stored[commands[i].slot], Room + Undone + i - 1)

AtKnown ==
  at # None /\ at.cmd = "save" /\ ~at.sent =>
    Fits(at.rev, at.base, stored[at.slot], Room)

\* What is under way at a time: not more than the stop button has added to
\* what a new session brings.
Held == IF at = None THEN 0 ELSE 1

Live == IF session THEN 1 ELSE 0

CountOK ==
  /\ Len(commands) + Held + Len(events) + Free + Live <= 4 + stops
  /\ at # None => session

SaveInv ==
  /\ TypeOK /\ stops \in 0..MaxStops /\ mishaps \in 0..MaxMishaps
  /\ CountOK /\ EventsKnown /\ PanelKnown /\ CommandsKnown /\ AtKnown

\* What is known stays known if there is room for c more saves.
Pays(c) ==
  \A s \in Slots, r \in 0..Revisions - 1, v \in Macros, w \in Nat, x \in Nat :
    Fits(r, v, stored[s], w) /\ x + c <= w => Fits(r, v, stored'[s], x)

LEMMA OneSave ==
  ASSUME FewMishaps, NEW r \in 0..Revisions - 1, NEW a \in 0..Revisions - 1,
         NEW w \in Nat, Steps(r, a) + w + 1 <= Limit
  PROVE  Steps(r, Next16(a)) = Steps(r, a) + 1 /\ r # Next16(a)
<1> QED
  BY PanelAssumption DEF FewMishaps, Limit, Steps, Next16

LEMMA SameDevice ==
  ASSUME TypeOK, FewMishaps, UNCHANGED stored
  PROVE  Pays(0)
<1>1. ASSUME NEW s \in Slots, NEW r \in 0..Revisions - 1, NEW v \in Macros, NEW w \in Nat, NEW x \in Nat,
             Fits(r, v, stored[s], w), x + 0 <= w
      PROVE  Fits(r, v, stored'[s], x)
  <2>1. stored[s].rev \in 0..Revisions - 1
    BY DEF TypeOK, Stored
  <2>2. Steps(r, stored[s].rev) \in Int /\ Limit \in Int
    BY <2>1, PanelAssumption DEF Steps, Limit, FewMishaps
  <2> QED
    BY <1>1, <2>2 DEF Fits
<1> QED
  BY <1>1 DEF Pays

LEMMA SavedDevice ==
  ASSUME TypeOK, FewMishaps,
         \A s \in Slots : stored'[s] = stored[s] \/ stored'[s].rev = Next16(stored[s].rev)
  PROVE  Pays(1)
<1>1. ASSUME NEW s \in Slots, NEW r \in 0..Revisions - 1, NEW v \in Macros, NEW w \in Nat, NEW x \in Nat,
             Fits(r, v, stored[s], w), x + 1 <= w
      PROVE  Fits(r, v, stored'[s], x)
  <2>1. stored[s].rev \in 0..Revisions - 1
    BY DEF TypeOK, Stored
  <2>2. Steps(r, stored[s].rev) \in Int /\ Limit \in Int
    BY <2>1, PanelAssumption DEF Steps, Limit, FewMishaps
  <2>3. CASE stored'[s] = stored[s]
    BY <1>1, <2>2, <2>3 DEF Fits
  <2>4. CASE stored'[s].rev = Next16(stored[s].rev)
    <3>1. Steps(r, stored[s].rev) + x + 1 <= Limit
      BY <1>1, <2>2 DEF Fits
    <3>2. Steps(r, stored'[s].rev) = Steps(r, stored[s].rev) + 1 /\ r # stored'[s].rev
      BY <2>1, <2>4, <3>1, OneSave
    <3> QED
      BY <2>2, <3>1, <3>2 DEF Fits
  <2> QED
    BY <1>1, <2>3, <2>4
<1> QED
  BY <1>1 DEF Pays

\* The numbers these speak of.
LEMMA Numbers ==
  ASSUME TypeOK, FewMishaps, stops \in 0..MaxStops, mishaps \in 0..MaxMishaps
  PROVE  /\ Room \in Nat /\ Free \in {0, 1} /\ Undone \in {0, 1}
         /\ Len(commands) \in Nat /\ Len(events) \in Nat /\ Work \in Nat
         /\ DOMAIN commands = 1..Len(commands) /\ DOMAIN events = 1..Len(events)
         /\ \A i \in DOMAIN commands : commands[i] \in Commands
         /\ \A i \in DOMAIN events : events[i] \in Events
         /\ panel.slot \in Slots /\ panel.baseline \in Macros
         /\ panel.revision # None => panel.revision \in 0..Revisions - 1
<1>1. commands \in Seq(Commands) /\ events \in Seq(Events)
  BY DEF TypeOK
<1>2. Len(commands) \in Nat /\ Len(events) \in Nat
  BY <1>1
<1>3. Room \in Nat /\ Free \in {0, 1} /\ Undone \in {0, 1}
  BY DEF Room, Free, Undone, FewMishaps
<1> QED
  BY <1>1, <1>2, <1>3 DEF Work, TypeOK, Panel

LEMMA Left ==
  ASSUME NEW n \in Nat, NEW m \in 0..n
  PROVE  n - m \in Nat
  OBVIOUS

\* Sums, for the numbers of a state and the next.
LEMMA Sums ==
  ASSUME NEW a \in Nat, NEW b \in Nat, NEW x \in Nat, NEW y \in Nat, NEW c \in Nat,
         a + b + c <= x + y
  PROVE  \A j \in Nat : a + b + j + c <= x + y + j
  OBVIOUS

LEMMA SumsTo ==
  ASSUME NEW a \in Nat, NEW b \in Nat, NEW x \in Nat, NEW y \in Nat, a + b + 1 <= x + y
  PROVE  /\ \A j \in Nat : a + (j + b) + 1 <= x + (j + y)
         /\ b = y => a + 1 <= x
  OBVIOUS

LEMMA Regroup ==
  ASSUME NEW a \in Nat, NEW b \in Nat, NEW c \in Nat, NEW d \in Nat, NEW f \in Nat,
         NEW x \in Nat, NEW y \in Nat, b + d = x + y
  PROVE  a + 0 + (c + y) + f + x = a + b + c + f + d
  OBVIOUS

LEMMA Smaller ==
  ASSUME NEW a \in Nat, NEW x \in Nat, NEW y \in Nat, a <= x
  PROVE  a + 0 + 0 <= x + y
  OBVIOUS

LEMMA LessLeft ==
  ASSUME NEW n \in Nat, NEW m \in Nat, NEW s \in 0..n, NEW p \in 0..m, NEW q \in 0..m, q >= p
  PROVE  (n - s) + (m - q) <= (n - s) + (m - p)
  OBVIOUS

LEMMA NumbersNext ==
  ASSUME TypeOK', FewMishaps, stops' \in 0..MaxStops, mishaps' \in 0..MaxMishaps
  PROVE  /\ Room' \in Nat /\ Free' \in {0, 1} /\ Asks' \in {0, 1} /\ Undone' \in {0, 1}
         /\ Work' \in Nat /\ DOMAIN commands' \subseteq Nat \ {0} /\ DOMAIN events' \subseteq Nat \ {0}
<1>1. commands' \in Seq(Commands) /\ events' \in Seq(Events)
  BY DEF TypeOK
<1>2. Len(commands') \in Nat
  BY <1>1
<1>3. Room' \in Nat
  <2>1. MaxStops - stops' \in Nat /\ MaxMishaps - mishaps' \in Nat
    BY Left DEF FewMishaps
  <2> QED
    BY <2>1 DEF Room
<1>4. Free' \in {0, 1}
  BY DEF Free
<1>5. Asks' \in {0, 1}
  BY DEF Asks
<1>6. Undone' \in {0, 1}
  BY DEF Undone
<1>7. Work' \in Nat
  BY <1>2, <1>6 DEF Work
<1> QED
  BY <1>1, <1>3, <1>4, <1>5, <1>6, <1>7

\* Events that were on their way are no further from the window than before,
\* counting what may be saved in between; new ones tell what the device has.
LEMMA EventsStay ==
  ASSUME SaveInv, FewMishaps, TypeOK', stops' \in 0..MaxStops, mishaps' \in 0..MaxMishaps,
         NEW c \in {0, 1}, Pays(c),
         \A j \in DOMAIN events' : events'[j].kind \in {"read", "save"} =>
           \/ \E i \in DOMAIN events :
                /\ events'[j] = events[i]
                /\ Room' + Work' + j + Free' + c <= Room + Work + i + Free
           \/ Fits(events'[j].is.rev, events'[j].is.val, stored'[events'[j].slot],
                   Room' + Work' + j + Free')
  PROVE  EventsKnown'
<1> SUFFICES ASSUME NEW j \in DOMAIN events', events'[j].kind \in {"read", "save"},
                    NEW i \in DOMAIN events, events'[j] = events[i],
                    Room' + Work' + j + Free' + c <= Room + Work + i + Free
             PROVE  Fits(events[i].is.rev, events[i].is.val, stored'[events[i].slot],
                         Room' + Work' + j + Free')
  BY DEF EventsKnown
<1>1. /\ Room + Work + i + Free \in Nat /\ events[i] \in Events
  BY Numbers DEF SaveInv
<1>2. Room' + Work' + j + Free' \in Nat 
  BY NumbersNext
<1>3. /\ events[i].slot \in Slots /\ events[i].is.rev \in 0..Revisions - 1
      /\ events[i].is.val \in Macros
  BY <1>1, Parts
<1>4. Fits(events[i].is.rev, events[i].is.val, stored[events[i].slot], Room + Work + i + Free)
  BY DEF SaveInv, EventsKnown
<1> QED
  BY <1>1, <1>2, <1>3, <1>4 DEF Pays

LEMMA PanelStays ==
  ASSUME SaveInv, FewMishaps, TypeOK', stops' \in 0..MaxStops, mishaps' \in 0..MaxMishaps,
         NEW c \in {0, 1}, Pays(c),
         \/ panel'.revision = None
         \/ /\ UNCHANGED <<panel.slot, panel.revision, panel.baseline>>
            /\ Room' + Work' + Asks' + c <= Room + Work + Asks
  PROVE  PanelKnown'
<1> SUFFICES ASSUME panel.revision # None, UNCHANGED <<panel.slot, panel.revision, panel.baseline>>,
                    Room' + Work' + Asks' + c <= Room + Work + Asks
             PROVE  Fits(panel.revision, panel.baseline, stored'[panel.slot], Room' + Work' + Asks')
  BY DEF PanelKnown
<1>1. /\ panel.slot \in Slots /\ panel.baseline \in Macros /\ panel.revision \in 0..Revisions - 1
      /\ Room + Work + Asks \in Nat
  BY Numbers DEF SaveInv, Asks
<1>2. Room' + Work' + Asks' \in Nat
  BY NumbersNext
<1>3. Fits(panel.revision, panel.baseline, stored[panel.slot], Room + Work + Asks)
  BY DEF SaveInv, PanelKnown
<1> QED
  BY <1>1, <1>2, <1>3 DEF Pays

LEMMA CommandsStay ==
  ASSUME SaveInv, FewMishaps, TypeOK', stops' \in 0..MaxStops, mishaps' \in 0..MaxMishaps,
         NEW c \in {0, 1}, Pays(c),
         \A j \in DOMAIN commands' : commands'[j].cmd = "save" =>
           \/ \E i \in DOMAIN commands :
                /\ commands'[j] = commands[i]
                /\ Room' + Undone' + j + c <= Room + Undone + i
           \/ /\ ~commands'[j].sent
              /\ Fits(commands'[j].rev, commands'[j].base, stored'[commands'[j].slot],
                      Room' + Undone' + j - 1)
  PROVE  CommandsKnown'
<1> SUFFICES ASSUME NEW j \in DOMAIN commands', commands'[j].cmd = "save",
                    NEW i \in DOMAIN commands, commands'[j] = commands[i],
                    Room' + Undone' + j + c <= Room + Undone + i
             PROVE  /\ ~commands[i].sent
                    /\ Fits(commands[i].rev, commands[i].base, stored'[commands[i].slot],
                            Room' + Undone' + j - 1)
  BY DEF CommandsKnown
<1>1. Room + Undone + i - 1 \in Nat /\ commands[i] \in Commands
  BY Numbers DEF SaveInv
<1>2. Room' + Undone' + j - 1 \in Nat /\ j \in Nat
  BY NumbersNext
<1>3. /\ commands[i].slot \in Slots /\ commands[i].rev \in 0..Revisions - 1
      /\ commands[i].base \in Macros
  BY <1>1 DEF Commands
<1>4. /\ ~commands[i].sent
      /\ Fits(commands[i].rev, commands[i].base, stored[commands[i].slot], Room + Undone + i - 1)
  BY DEF SaveInv, CommandsKnown
<1>5. Room' + Undone' + j - 1 + c <= Room + Undone + i - 1
  <2>1. Room \in Nat /\ Undone \in Nat /\ i \in Nat
    BY Numbers DEF SaveInv
  <2>2. Room' \in Nat /\ Undone' \in Nat /\ j \in Nat
    BY NumbersNext
  <2> QED
    BY <2>1, <2>2
<1> QED
  BY <1>1, <1>2, <1>3, <1>4, <1>5 DEF Pays

LEMMA AppendFacts ==
  ASSUME NEW q \in Seq(Commands), NEW k \in Commands
  PROVE  /\ Len(Append(q, k)) = Len(q) + 1 /\ DOMAIN Append(q, k) = 1..Len(q) + 1
         /\ \A i \in DOMAIN Append(q, k) :
              \/ i \in DOMAIN q /\ Append(q, k)[i] = q[i]
              \/ i = Len(q) + 1 /\ Append(q, k)[i] = k
  BY AppendProperties

\* A read, or the save of what the panel shows.
LEMMA AskKnown ==
  ASSUME SaveInv, FewMishaps, TypeOK', NEW k \in Commands, Ask(k), ~busy,
         k.cmd = "save" => ~k.sent /\ Fits(k.rev, k.base, stored[k.slot], Room + Work),
         \/ panel'.revision = None
         \/ /\ UNCHANGED <<panel.slot, panel.revision, panel.baseline>>
            /\ ~panel.pending /\ panel'.pending
  PROVE  EventsKnown' /\ PanelKnown' /\ CommandsKnown' /\ AtKnown'
<1>1. /\ commands' = Append(commands, k) /\ busy'
      /\ UNCHANGED <<stored, session, at, stopFlag, events, stops, mishaps, connected>>
  BY DEF Ask, budgets
<1>2. Pays(0)
  BY <1>1, SameDevice DEF SaveInv
<1>3. stops' \in 0..MaxStops /\ mishaps' \in 0..MaxMishaps
  BY <1>1 DEF SaveInv
<1>4. commands \in Seq(Commands) /\ Len(commands) \in Nat
  BY DEF SaveInv, TypeOK
<1>5. /\ Len(commands') = Len(commands) + 1 /\ DOMAIN commands' = 1..Len(commands) + 1
      /\ \A i \in DOMAIN commands' :
           \/ i \in DOMAIN commands /\ commands'[i] = commands[i]
           \/ i = Len(commands) + 1 /\ commands'[i] = k
  BY <1>1, <1>4, AppendFacts
<1>6. /\ Undone' = Undone /\ Room' = Room /\ Free = 1 /\ Free' = 0
      /\ Room \in Nat /\ Undone \in Nat /\ Work \in Nat
  BY <1>1, Numbers DEF SaveInv, Undone, Room, Free
<1>7. Work' = Work + 1
  BY <1>4, <1>5, <1>6 DEF Work
<1>8. EventsKnown'
  <2>1. ASSUME NEW j \in DOMAIN events'
        PROVE  /\ j \in DOMAIN events /\ events'[j] = events[j]
               /\ Room' + Work' + j + Free' + 0 <= Room + Work + j + Free
    <3>1. j \in DOMAIN events /\ events'[j] = events[j] /\ j \in Nat
      BY <1>1, Numbers DEF SaveInv
    <3> QED
      BY <1>6, <1>7, <3>1
  <2> QED
    BY <1>2, <1>3, <2>1, EventsStay
<1>9. PanelKnown'
  <2>1. ~panel.pending /\ panel'.pending => Room' + Work' + Asks' + 0 <= Room + Work + Asks
    BY <1>6, <1>7 DEF Asks
  <2> QED
    BY <1>2, <1>3, <2>1, PanelStays
<1>10. CommandsKnown'
  <2>1. ASSUME NEW j \in DOMAIN commands', commands'[j].cmd = "save"
        PROVE  \/ \E i \in DOMAIN commands :
                    /\ commands'[j] = commands[i]
                    /\ Room' + Undone' + j + 0 <= Room + Undone + i
               \/ /\ ~commands'[j].sent
                  /\ Fits(commands'[j].rev, commands'[j].base, stored'[commands'[j].slot],
                          Room' + Undone' + j - 1)
    <3>1. CASE j \in DOMAIN commands /\ commands'[j] = commands[j]
      <4>1. Room' + Undone' + j + 0 <= Room + Undone + j
        BY <1>5, <1>6
      <4> QED
        BY <3>1, <4>1
    <3>2. CASE j = Len(commands) + 1 /\ commands'[j] = k
      <4>1. Room' + Undone' + j - 1 = Room + Work
        BY <1>4, <1>6, <3>2 DEF Work
      <4> QED
        BY <1>1, <2>1, <3>2, <4>1
    <3> QED
      BY <1>5, <3>1, <3>2
  <2> QED
    BY <1>2, <1>3, <2>1, CommandsStay
<1>11. AtKnown'
  BY <1>1, <1>6 DEF SaveInv, AtKnown
<1> QED
  BY <1>8, <1>9, <1>10, <1>11

\* The stop button costs one of its budget.
LEMMA StopKnown ==
  ASSUME SaveInv, FewMishaps, TypeOK', Stop
  PROVE  /\ EventsKnown' /\ PanelKnown' /\ CommandsKnown' /\ AtKnown'
         /\ stops' \in 0..MaxStops /\ mishaps' \in 0..MaxMishaps
<1> DEFINE k == [cmd |-> "stop", slot |-> panel.slot]
<1>1. /\ commands' = Append(commands, k) /\ stops' = stops + 1 /\ stops < MaxStops
      /\ UNCHANGED <<stored, session, at, events, mishaps>>
      /\ UNCHANGED <<connected, busy, panel, deferred, discard>>
  BY DEF Stop, window
<1>2. k \in Commands /\ k.cmd = "stop"
  BY CommandType DEF SaveInv, TypeOK, Panel
<1> HIDE DEF k
<1>3. Pays(0)
  BY <1>1, SameDevice DEF SaveInv
<1>4. stops' \in 0..MaxStops /\ mishaps' \in 0..MaxMishaps
  BY <1>1 DEF SaveInv, FewMishaps
<1>5. commands \in Seq(Commands) /\ Len(commands) \in Nat
  BY DEF SaveInv, TypeOK
<1>6. /\ Len(commands') = Len(commands) + 1 /\ DOMAIN commands' = 1..Len(commands) + 1
      /\ \A i \in DOMAIN commands' :
           \/ i \in DOMAIN commands /\ commands'[i] = commands[i]
           \/ i = Len(commands) + 1 /\ commands'[i] = k
  BY <1>1, <1>2, <1>5, AppendFacts
<1>7. Undone' = Undone /\ Free' = Free /\ Asks' = Asks
  BY <1>1 DEF Undone, Free, Asks
<1>8. /\ Room \in Nat /\ Undone \in Nat /\ Work \in Nat /\ Free \in Nat /\ Asks \in Nat
      /\ Room' \in Nat
  BY <1>4, Numbers, NumbersNext DEF SaveInv, Asks
<1>9. Room' = Room - 1
  BY <1>1 DEF Room, SaveInv, FewMishaps
<1>10. Work' = Work + 1
  BY <1>5, <1>6, <1>7, <1>8 DEF Work
<1>11. EventsKnown'
  <2>1. ASSUME NEW j \in DOMAIN events'
        PROVE  /\ j \in DOMAIN events /\ events'[j] = events[j]
               /\ Room' + Work' + j + Free' + 0 <= Room + Work + j + Free
    <3>1. j \in DOMAIN events /\ events'[j] = events[j] /\ j \in Nat
      BY <1>1, Numbers DEF SaveInv
    <3> QED
      BY <1>7, <1>8, <1>9, <1>10, <3>1
  <2> QED
    BY <1>3, <1>4, <2>1, EventsStay
<1>12. PanelKnown'
  <2>1. Room' + Work' + Asks' + 0 <= Room + Work + Asks
    BY <1>7, <1>8, <1>9, <1>10
  <2> QED
    BY <1>1, <1>3, <1>4, <2>1, PanelStays
<1>13. CommandsKnown'
  <2>1. ASSUME NEW j \in DOMAIN commands', commands'[j].cmd = "save"
        PROVE  \E i \in DOMAIN commands :
                 /\ commands'[j] = commands[i]
                 /\ Room' + Undone' + j + 0 <= Room + Undone + i
    <3>1. j \in DOMAIN commands /\ commands'[j] = commands[j]
      BY <1>2, <1>6, <2>1
    <3>2. Room' + Undone' + j + 0 <= Room + Undone + j
      BY <1>6, <1>7, <1>8, <1>9
    <3> QED
      BY <3>1, <3>2
  <2> QED
    BY <1>3, <1>4, <2>1, CommandsStay
<1>14. AtKnown'
  <2>1. ASSUME at # None, at.cmd = "save", ~at.sent
        PROVE  Fits(at.rev, at.base, stored[at.slot], Room - 1)
    <3>1. Fits(at.rev, at.base, stored[at.slot], Room)
      BY <2>1 DEF SaveInv, AtKnown
    <3>2. /\ at.slot \in Slots /\ at.rev \in 0..Revisions - 1 /\ at.base \in Macros
      BY <2>1 DEF SaveInv, TypeOK, Commands
    <3> QED
      BY <1>1, <1>3, <1>8, <1>9, <3>1, <3>2 DEF Pays
  <2> QED
    BY <1>1, <1>9, <2>1 DEF AtKnown
<1> QED
  BY <1>4, <1>11, <1>12, <1>13, <1>14

\* A signal is handled.
LEMMA TakeKnown ==
  ASSUME SaveInv, FewMishaps, TypeOK', NEW kind, Handle(kind),
         \/ panel'.revision = None
         \/ UNCHANGED <<panel.slot, panel.revision, panel.baseline, panel.pending>>
         \/ /\ kind \in {"read", "save"} /\ Head(events).slot = panel'.slot /\ ~panel'.pending
            /\ panel'.revision = Head(events).is.rev /\ panel'.baseline = Head(events).is.val
  PROVE  EventsKnown' /\ PanelKnown' /\ CommandsKnown' /\ AtKnown'
<1>1. UNCHANGED <<stored, session, commands, at, stopFlag, stops, mishaps>>
  BY DEF Handle, budgets
<1>2. Pays(0)
  BY <1>1, SameDevice DEF SaveInv
<1>3. stops' \in 0..MaxStops /\ mishaps' \in 0..MaxMishaps
  BY <1>1 DEF SaveInv
<1>4. /\ 1 \in DOMAIN events /\ events[1] = Head(events) /\ events[1].kind = kind
      /\ Head(events) \in Events
      /\ \A i \in DOMAIN events' :
           i \in Nat /\ i + 1 \in DOMAIN events /\ events'[i] = events[i + 1]
  BY TakeFacts DEF SaveInv
<1>5. /\ Undone' = Undone /\ Room' = Room /\ Work' = Work
      /\ Room \in Nat /\ Undone \in Nat /\ Work \in Nat
      /\ Free \in {0, 1} /\ Free' \in {0, 1}
  BY <1>1, <1>3, Numbers, NumbersNext DEF SaveInv, Undone, Room, Work
<1>6. EventsKnown'
  <2>1. ASSUME NEW j \in DOMAIN events'
        PROVE  /\ j + 1 \in DOMAIN events /\ events'[j] = events[j + 1]
               /\ Room' + Work' + j + Free' + 0 <= Room + Work + (j + 1) + Free
    BY <1>4, <1>5
  <2> QED
    BY <1>2, <1>3, <2>1, EventsStay
<1>7. PanelKnown'
  <2>1. CASE panel'.revision = None
    BY <2>1 DEF PanelKnown
  <2>2. CASE UNCHANGED <<panel.slot, panel.revision, panel.baseline, panel.pending>>
    <3>1. Asks' = Asks /\ Asks \in Nat
      BY <2>2 DEF Asks
    <3>2. Room' + Work' + Asks' + 0 <= Room + Work + Asks
      BY <1>5, <3>1
    <3> QED
      BY <1>2, <1>3, <2>2, <3>2, PanelStays
  <2>3. CASE /\ kind \in {"read", "save"} /\ Head(events).slot = panel'.slot /\ ~panel'.pending
             /\ panel'.revision = Head(events).is.rev /\ panel'.baseline = Head(events).is.val
    <3> DEFINE e == Head(events)
    <3>1. Fits(e.is.rev, e.is.val, stored[e.slot], Room + Work + 1 + Free)
      BY <1>4, <2>3 DEF SaveInv, EventsKnown
    <3>2. e.slot \in Slots /\ e.is.rev \in 0..Revisions - 1 /\ e.is.val \in Macros
      BY <1>4, <2>3, Parts
    <3>3. /\ Room + Work + 1 + Free \in Nat /\ Room + Work + 1 \in Nat
          /\ Room + Work + 1 + 0 <= Room + Work + 1 + Free
      BY <1>5
    <3>4. Fits(e.is.rev, e.is.val, stored'[e.slot], Room + Work + 1)
      BY <1>2, <3>1, <3>2, <3>3 DEF Pays
    <3>5. Asks' = 1
      BY <2>3 DEF Asks
    <3> QED
      BY <1>5, <2>3, <3>4, <3>5 DEF PanelKnown
  <2> QED
    BY <2>1, <2>2, <2>3
<1>8. CommandsKnown' /\ AtKnown'
  BY <1>1, <1>5 DEF SaveInv, CommandsKnown, AtKnown
<1> QED
  BY <1>6, <1>7, <1>8

\* What goes on behind the window leaves it what it knows.
LEMMA PassKnown ==
  ASSUME SaveInv, FewMishaps, TypeOK', stops' \in 0..MaxStops, mishaps' \in 0..MaxMishaps,
         NEW c \in {0, 1}, Pays(c), UNCHANGED <<busy, panel>>,
         Room' + Work' + c <= Room + Work,
         NEW r \in Seq(Events), events' = events \o r,
         \A k \in DOMAIN r : r[k].kind \in {"read", "save"} =>
           Fits(r[k].is.rev, r[k].is.val, stored'[r[k].slot],
                Room' + Work' + (k + Len(events)) + Free')
  PROVE  EventsKnown' /\ PanelKnown'
<1>1. /\ Len(events) \in Nat
      /\ \A i \in DOMAIN events' :
           \/ i \in DOMAIN events /\ events'[i] = events[i]
           \/ /\ i \in Nat /\ i > Len(events) /\ i - Len(events) \in DOMAIN r
              /\ events'[i] = r[i - Len(events)]
  BY JoinFacts DEF SaveInv
<1>2. /\ Room \in Nat /\ Work \in Nat /\ Free \in Nat /\ Room' \in Nat /\ Work' \in Nat
      /\ Asks' \in Nat
  BY Numbers, NumbersNext DEF SaveInv
<1>3. Free' = Free /\ Asks' = Asks
  BY DEF Free, Asks
<1>4. ASSUME NEW j \in DOMAIN events', events'[j].kind \in {"read", "save"}
      PROVE  \/ \E i \in DOMAIN events :
                  /\ events'[j] = events[i]
                  /\ Room' + Work' + j + Free' + c <= Room + Work + i + Free
             \/ Fits(events'[j].is.rev, events'[j].is.val, stored'[events'[j].slot],
                     Room' + Work' + j + Free')
  <2>1. CASE j \in DOMAIN events /\ events'[j] = events[j]
    <3>1. j \in Nat
      BY <2>1, Numbers DEF SaveInv
    <3>2. Room' + Work' + j + Free' + c <= Room + Work + j + Free
      BY <1>2, <1>3, <3>1
    <3> QED
      BY <2>1, <3>2
  <2>2. CASE /\ j \in Nat /\ j - Len(events) \in DOMAIN r
             /\ events'[j] = r[j - Len(events)]
    <3>1. j - Len(events) + Len(events) = j
      BY <1>1, <2>2
    <3> QED
      BY <1>4, <2>2, <3>1
  <2> QED
    BY <1>1, <2>1, <2>2
<1>5. EventsKnown'
  BY <1>4, EventsStay
<1>6. Room' + Work' + Asks' + c <= Room + Work + Asks
  BY <1>2, <1>3
<1> QED
  BY <1>5, <1>6, PanelStays

LEMMA CommandsSame ==
  ASSUME SaveInv, FewMishaps, TypeOK', stops' \in 0..MaxStops, mishaps' \in 0..MaxMishaps,
         NEW c \in {0, 1}, Pays(c), UNCHANGED commands,
         Room' + Undone' + c <= Room + Undone
  PROVE  CommandsKnown'
<1>1. ASSUME NEW j \in DOMAIN commands'
      PROVE  /\ j \in DOMAIN commands /\ commands'[j] = commands[j]
             /\ Room' + Undone' + j + c <= Room + Undone + j
  <2>1. j \in DOMAIN commands /\ commands'[j] = commands[j]
    OBVIOUS
  <2>2. j \in Nat /\ Room \in Nat /\ Undone \in Nat
    BY <2>1, Numbers DEF SaveInv
  <2>3. Room' \in Nat /\ Undone' \in Nat
    BY NumbersNext
  <2>4. Room' + Undone' + j + c <= Room + Undone + j
    BY <2>2, <2>3, Sums
  <2> QED
    BY <2>1, <2>4
<1> QED
  BY <1>1, CommandsStay

\* The worker takes a command.
LEMMA CommandsTaken ==
  ASSUME SaveInv, FewMishaps, TypeOK', UNCHANGED <<stored, stops, mishaps>>,
         at = None, commands # <<>>, commands' = Tail(commands)
  PROVE  /\ CommandsKnown'
         /\ Len(commands) \in Nat /\ Len(commands') = Len(commands) - 1
         /\ Head(commands) \in Commands
         /\ Head(commands).cmd = "save" =>
              /\ ~Head(commands).sent
              /\ Fits(Head(commands).rev, Head(commands).base, stored[Head(commands).slot], Room)
<1> DEFINE q == commands
           t == Tail(q)
<1>1. q \in Seq(Commands) /\ q # <<>> /\ commands' = t
  BY DEF SaveInv, TypeOK
<1> HIDE DEF q
<1>2. /\ Len(q) \in Nat /\ DOMAIN q = 1..Len(q) /\ Len(q) >= 1
      /\ Len(t) = Len(q) - 1 /\ DOMAIN t = 1..Len(q) - 1
      /\ q[1] = Head(q) /\ Head(q) \in Commands
      /\ \A i \in 1..Len(q) - 1 : t[i] = q[i + 1]
  BY <1>1, HeadTailProperties
<1>3. \A j \in DOMAIN t : j \in Nat /\ j + 1 \in DOMAIN q /\ t[j] = q[j + 1]
  BY <1>2
<1>4. 1 \in DOMAIN q
  BY <1>2
<1> USE DEF q
<1>5. Room' = Room /\ Undone = 0 /\ Room \in Nat /\ Undone' \in {0, 1}
  BY Numbers, NumbersNext DEF SaveInv, Room, Undone
<1>6. CommandsKnown'
  <2>1. Pays(0)
    BY SameDevice DEF SaveInv
  <2>2. ASSUME NEW j \in DOMAIN commands'
        PROVE  /\ j + 1 \in DOMAIN commands /\ commands'[j] = commands[j + 1]
               /\ Room' + Undone' + j + 0 <= Room + Undone + (j + 1)
    BY <1>1, <1>3, <1>5
  <2>3. stops' \in 0..MaxStops /\ mishaps' \in 0..MaxMishaps
    BY DEF SaveInv
  <2> QED
    BY <2>1, <2>2, <2>3, CommandsStay
<1>7. Head(commands).cmd = "save" =>
        /\ ~Head(commands).sent
        /\ Fits(Head(commands).rev, Head(commands).base, stored[Head(commands).slot], Room)
  <2>1. Room + Undone + 1 - 1 = Room
    BY <1>5
  <2> QED
    BY <1>2, <1>4, <2>1 DEF SaveInv, CommandsKnown
<1> QED
  BY <1>1, <1>2, <1>6, <1>7

\* Signals that tell nothing of a macro.
LEMMA Silent ==
  ASSUME NEW j \in {"connecting", "ready", "lost", "problem", "stop"},
         NEW k \in {"connecting", "ready", "lost", "problem", "stop"}
  PROVE  /\ Signal(j) \in Seq(Events) /\ Len(Signal(j)) = 1
         /\ \A i \in DOMAIN Signal(j) : Signal(j)[i].kind \notin {"read", "save"}
         /\ Signal(j) \o <<>> = Signal(j)
         /\ Signal(j) \o Signal(k) \in Seq(Events) /\ Len(Signal(j) \o Signal(k)) = 2
         /\ \A i \in DOMAIN (Signal(j) \o Signal(k)) :
              (Signal(j) \o Signal(k))[i].kind \notin {"read", "save"}
<1>1. PICK d \in Events, e \in Events :
        d.kind = j /\ e.kind = k /\ Signal(j) = <<d>> /\ Signal(k) = <<e>>
  BY SignalType DEF Signal
<1>2. /\ <<d>> \in Seq(Events) /\ Len(<<d>>) = 1 /\ DOMAIN <<d>> = {1} /\ <<d>>[1] = d
  OBVIOUS
<1>3. /\ <<d>> \o <<e>> \in Seq(Events) /\ DOMAIN (<<d>> \o <<e>>) = {1, 2}
      /\ (<<d>> \o <<e>>)[1] = d /\ (<<d>> \o <<e>>)[2] = e
  BY TwoSignals
<1>4. Len(<<d>> \o <<e>>) = 2
  BY <1>2, ConcatProperties
<1>5. <<d>> \o <<>> = <<d>>
  BY <1>2, ConcatEmptySeq
<1> QED
  BY <1>1, <1>2, <1>3, <1>4, <1>5

LEMMA FreshFits ==
  ASSUME FewMishaps, NEW d \in Stored, NEW w \in Nat, w <= Limit
  PROVE  Fits(d.rev, d.val, d, w)
<1>1. d.rev \in 0..Revisions - 1
  BY DEF Stored
<1>2. Steps(d.rev, d.rev) = 0
  BY <1>1 DEF Steps
<1> QED
  BY <1>2 DEF Fits, Limit

\* The worker ends a command, or a session, and signals it.
LEMMA SignalKnown ==
  ASSUME SaveInv, FewMishaps, TypeOK', UNCHANGED <<stored, busy, panel, stops>>,
         mishaps' \in 0..MaxMishaps, mishaps' >= mishaps,
         commands' = commands \/ (at = None /\ commands # <<>> /\ commands' = Tail(commands) /\ UNCHANGED mishaps),
         at' = None,
         NEW r \in Seq(Events), events' = events \o r,
         \A k \in DOMAIN r : r[k].kind \notin {"read", "save"}
  PROVE  EventsKnown' /\ PanelKnown' /\ CommandsKnown' /\ AtKnown'
<1>1. Pays(0)
  BY SameDevice DEF SaveInv
<1>2. stops' \in 0..MaxStops
  BY DEF SaveInv
<1>3. /\ Room \in Nat /\ Undone \in Nat /\ Room' \in Nat /\ Undone' = 0
      /\ Len(commands) \in Nat
  BY <1>2, Numbers, NumbersNext DEF SaveInv, Undone
<1>4. Room' <= Room
  <2>1. stops \in 0..MaxStops /\ mishaps \in 0..MaxMishaps
    BY DEF SaveInv
  <2>2. (MaxStops - stops) + (MaxMishaps - mishaps') <= (MaxStops - stops) + (MaxMishaps - mishaps)
    BY <2>1, LessLeft DEF FewMishaps
  <2> QED
    BY <2>2 DEF Room
<1>5. CASE commands' = commands
  <2>1. Room' + Undone' + 0 <= Room + Undone
    BY <1>3, <1>4, Smaller
  <2>2. Room' + Work' + 0 <= Room + Work
    BY <1>3, <1>4, <1>5 DEF Work
  <2>3. CommandsKnown'
    BY <1>1, <1>2, <1>5, <2>1, CommandsSame
  <2>4. EventsKnown' /\ PanelKnown'
    BY <1>1, <1>2, <2>2, PassKnown
  <2> QED
    BY <2>3, <2>4 DEF AtKnown
<1>6. CASE at = None /\ commands # <<>> /\ commands' = Tail(commands) /\ UNCHANGED mishaps
  <2>1. CommandsKnown' /\ Len(commands') = Len(commands) - 1
    BY <1>6, CommandsTaken
  <2>2. Room' + Work' + 0 <= Room + Work
    BY <1>3, <1>4, <2>1 DEF Work
  <2>3. EventsKnown' /\ PanelKnown'
    BY <1>1, <1>2, <2>2, PassKnown
  <2> QED
    BY <2>1, <2>3 DEF AtKnown
<1> QED
  BY <1>5, <1>6

LEMMA BeginKnown ==
  ASSUME SaveInv, FewMishaps, TypeOK', Begin
  PROVE  EventsKnown' /\ PanelKnown' /\ CommandsKnown' /\ AtKnown'
<1>1. /\ at = None /\ commands # <<>> /\ commands' = Tail(commands) /\ at' = Head(commands)
      /\ UNCHANGED <<stored, stops, mishaps, events, busy, panel>>
  BY DEF Begin, budgets, window
<1>2. Pays(0) /\ stops' \in 0..MaxStops /\ mishaps' \in 0..MaxMishaps
  BY <1>1, SameDevice DEF SaveInv
<1>3. /\ CommandsKnown'
      /\ Len(commands) \in Nat /\ Len(commands') = Len(commands) - 1
      /\ Head(commands) \in Commands
      /\ Head(commands).cmd = "save" =>
           /\ ~Head(commands).sent
           /\ Fits(Head(commands).rev, Head(commands).base, stored[Head(commands).slot], Room)
  BY <1>1, CommandsTaken
<1>4. Room' = Room /\ Undone = 0 /\ Undone' \in {0, 1} /\ Room \in Nat
  BY <1>1, <1>2, Numbers, NumbersNext DEF SaveInv, Room, Undone
<1>5. EventsKnown' /\ PanelKnown'
  <2>1. Room' + Work' + 0 <= Room + Work
    BY <1>3, <1>4 DEF Work
  <2> DEFINE r == <<>>
  <2>2. r \in Seq(Events) /\ DOMAIN r = {}
    OBVIOUS
  <2>3. events' = events \o r
    BY <1>1, ConcatEmptySeq DEF SaveInv, TypeOK
  <2> HIDE DEF r
  <2> QED
    BY <1>1, <1>2, <2>1, <2>2, <2>3, PassKnown
<1>6. AtKnown'
  BY <1>1, <1>3, <1>4 DEF AtKnown
<1> QED
  BY <1>3, <1>5, <1>6

LEMMA SucceedKnown ==
  ASSUME SaveInv, FewMishaps, TypeOK', Succeed
  PROVE  EventsKnown' /\ PanelKnown' /\ CommandsKnown' /\ AtKnown'
<1>1. /\ at # None /\ at' = None
      /\ UNCHANGED <<stored, stops, mishaps, commands, busy, panel>>
  BY DEF Succeed, Done, budgets, window
<1>2. Pays(0) /\ stops' \in 0..MaxStops /\ mishaps' \in 0..MaxMishaps
  BY <1>1, SameDevice DEF SaveInv
<1>3. CASE Emit(Signal("stop"))
  <2> DEFINE r == Signal("stop")
  <2>1. r \in Seq(Events) /\ \A k \in DOMAIN r : r[k].kind \notin {"read", "save"}
    BY Silent
  <2>2. events' = events \o r
    BY <1>3 DEF Emit
  <2> HIDE DEF r
  <2>3. mishaps' >= mishaps
    BY <1>1 DEF SaveInv
  <2> QED
    BY <1>1, <1>2, <2>1, <2>2, <2>3, SignalKnown
<1>4. ASSUME NEW k \in {"read", "save"},
             Emit(<<[kind |-> k, slot |-> at.slot, is |-> stored[at.slot]]>>)
      PROVE  EventsKnown' /\ PanelKnown' /\ CommandsKnown' /\ AtKnown'
  <2> DEFINE e == [kind |-> k, slot |-> at.slot, is |-> stored[at.slot]]
             r == <<e>>
  <2>1. at.slot \in Slots /\ stored[at.slot] \in Stored
    BY <1>1, Parts DEF SaveInv, TypeOK
  <2>2. e \in Events /\ e.slot = at.slot /\ e.is = stored[at.slot]
    BY <2>1, SignalType
  <2>3. events' = events \o r
    BY <1>4 DEF Emit
  <2> HIDE DEF e
  <2>4. r \in Seq(Events) /\ DOMAIN r = {1} /\ r[1] = e
    BY <2>2
  <2> HIDE DEF r
  <2>5. /\ Room' = Room /\ Undone' = 0 /\ Free' = Free /\ Undone \in Nat /\ Room \in Nat
        /\ Len(commands) \in Nat /\ Len(events) \in Nat /\ Free \in Nat
    BY <1>1, Numbers DEF SaveInv, Room, Undone, Free
  <2>6. Work' = Len(commands)
    BY <1>1, <2>5 DEF Work
  <2>7. Room + Work' + (1 + Len(events)) + Free <= Limit
    <3>1. Len(commands) + 1 + Len(events) + Free + 1 <= 4 + stops
      BY <1>1 DEF SaveInv, CountOK, Held, Live
    <3>2. stops \in Nat /\ mishaps \in Nat /\ MaxStops \in Nat /\ MaxMishaps \in Nat
      BY DEF SaveInv, FewMishaps
    <3> QED
      BY <2>5, <2>6, <3>1, <3>2 DEF Room, Limit
  <2>8. Fits(e.is.rev, e.is.val, stored'[e.slot], Room' + Work' + (1 + Len(events)) + Free')
    BY <1>1, <2>1, <2>2, <2>5, <2>6, <2>7, FreshFits
  <2>9. EventsKnown' /\ PanelKnown'
    <3>1. Room' + Work' + 0 <= Room + Work
      BY <2>5, <2>6 DEF Work
    <3> QED
      BY <1>1, <1>2, <2>3, <2>4, <2>8, <3>1, PassKnown
  <2>10. CommandsKnown'
    <3>1. Room' + Undone' + 0 <= Room + Undone
      BY <2>5
    <3> QED
      BY <1>1, <1>2, <3>1, CommandsSame
  <2> QED
    BY <1>1, <2>9, <2>10 DEF AtKnown
<1> QED
  BY <1>3, <1>4 DEF Succeed

\* A save, the user's or another application's, costs one of what is counted.
LEMMA SavesKnown ==
  ASSUME SaveInv, FewMishaps, TypeOK', Commit \/ Rival
  PROVE  EventsKnown' /\ PanelKnown' /\ CommandsKnown' /\ AtKnown'
<1>1. UNCHANGED <<stops, commands, events, busy, panel>>
  BY DEF Commit, Rival, Mishap, budgets, window
<1>2. mishaps' \in 0..MaxMishaps /\ stops' \in 0..MaxStops
  BY <1>1 DEF Commit, Rival, Mishap, budgets, SaveInv, FewMishaps
<1>3. \A s \in Slots : stored'[s] = stored[s] \/ stored'[s].rev = Next16(stored[s].rev)
  <2>1. stored \in [Slots -> Stored]
    BY DEF SaveInv, TypeOK
  <2>2. PICK t \in Slots, v \in Macros :
          stored' = [stored EXCEPT ![t] = [rev |-> Next16(stored[t].rev), val |-> v]]
    <3>1. CASE Commit
      <4>1. at \in Commands /\ at.cmd = "save"
        BY <3>1 DEF Commit, SaveInv, TypeOK
      <4>2. at.slot \in Slots /\ at.val \in Macros
        BY <4>1, Parts
      <4> QED
        BY <2>1, <3>1, <4>2 DEF Commit
    <3>2. CASE Rival
      BY <2>1, <3>2 DEF Rival
    <3> QED
      BY <3>1, <3>2
  <2> QED
    BY <2>1, <2>2
<1>4. Pays(1)
  BY <1>3, SavedDevice DEF SaveInv
<1>5. /\ Room \in Nat /\ Undone \in Nat /\ Room' \in Nat /\ Undone' \in Nat
      /\ Len(commands) \in Nat
  BY <1>2, Numbers, NumbersNext DEF SaveInv
<1>6. Room' + Undone' + 1 <= Room + Undone
  <2>1. CASE Commit
    <3>1. at \in Commands /\ at.cmd = "save" /\ ~at.sent /\ at' = [at EXCEPT !.sent = TRUE]
      BY <2>1 DEF Commit, SaveInv, TypeOK
    <3>2. at'.cmd = "save" /\ at'.sent
      BY <3>1 DEF Commands
    <3>3. Undone = 1 /\ Undone' = 0
      BY <2>1, <3>1, <3>2 DEF Undone, Commit
    <3>4. Room' = Room
      BY <2>1 DEF Commit, budgets, Room
    <3> QED
      BY <1>5, <3>3, <3>4
  <2>2. CASE Rival
    <3>1. Undone' = Undone
      BY <2>2 DEF Rival, Undone
    <3>2. mishaps' = mishaps + 1 /\ mishaps \in Nat /\ stops \in Nat
      BY <2>2 DEF Rival, Mishap, SaveInv
    <3>3. Room' = Room - 1
      BY <1>1, <3>2 DEF Room, FewMishaps
    <3> QED
      BY <1>5, <3>1, <3>3
  <2> QED
    BY <2>1, <2>2
<1>7. Room' + Work' + 1 <= Room + Work
  <2>1. \A j \in Nat : Room' + (j + Undone') + 1 <= Room + (j + Undone)
    BY <1>5, <1>6, SumsTo
  <2>2. Room' + (Len(commands) + Undone') + 1 <= Room + (Len(commands) + Undone)
    BY <1>5, <2>1
  <2> QED
    BY <1>1, <2>2 DEF Work
<1>8. EventsKnown' /\ PanelKnown'
  <2> DEFINE r == <<>>
  <2>1. r \in Seq(Events) /\ DOMAIN r = {}
    OBVIOUS
  <2>2. events' = events \o r
    BY <1>1, ConcatEmptySeq DEF SaveInv, TypeOK
  <2> HIDE DEF r
  <2> QED
    BY <1>1, <1>2, <1>4, <1>7, <2>1, <2>2, PassKnown
<1>9. CommandsKnown'
  BY <1>1, <1>2, <1>4, <1>6, CommandsSame
<1>10. AtKnown'
  <2>1. CASE Commit
    <3>1. at \in Commands /\ at.cmd = "save" /\ at' = [at EXCEPT !.sent = TRUE]
      BY <2>1 DEF Commit, SaveInv, TypeOK
    <3>2. at'.sent
      BY <3>1 DEF Commands
    <3> QED
      BY <3>2 DEF AtKnown
  <2>2. CASE Rival
    <3>1. at' = at /\ Undone' = Undone
      BY <2>2 DEF Rival, Undone
    <3> SUFFICES ASSUME at # None, at.cmd = "save", ~at.sent
                 PROVE  Fits(at.rev, at.base, stored'[at.slot], Room')
      BY <3>1 DEF AtKnown
    <3>2. Fits(at.rev, at.base, stored[at.slot], Room)
      BY DEF SaveInv, AtKnown
    <3>3. at.slot \in Slots /\ at.rev \in 0..Revisions - 1 /\ at.base \in Macros
      BY DEF SaveInv, TypeOK, Commands
    <3>4. Room' + 1 <= Room
      BY <1>5, <1>6, <3>1, SumsTo
    <3> QED
      BY <1>4, <1>5, <3>2, <3>3, <3>4 DEF Pays
  <2> QED
    BY <2>1, <2>2
<1> QED
  BY <1>8, <1>9, <1>10


-----------------------------------------------------------------------------
(* Each step.                                                              *)

LEMMA FitsLess ==
  ASSUME FewMishaps, NEW r \in 0..Revisions - 1, NEW v, NEW d \in Stored,
         NEW w \in Nat, NEW x \in Nat, x <= w, Fits(r, v, d, w)
  PROVE  Fits(r, v, d, x)
<1>1. d.rev \in 0..Revisions - 1
  BY DEF Stored
<1>2. Steps(r, d.rev) \in Int /\ Limit \in Int
  BY <1>1, PanelAssumption DEF Steps, Limit, FewMishaps
<1> QED
  BY <1>2 DEF Fits

LEMMA Counts ==
  ASSUME SaveInv, FewMishaps
  PROVE  /\ Len(commands) \in Nat /\ Len(events) \in Nat /\ stops \in Nat
         /\ Held \in {0, 1} /\ Live \in {0, 1} /\ Free \in {0, 1}
         /\ Len(commands) + Held + Len(events) + Free + Live <= 4 + stops
<1>1. /\ Len(commands) \in Nat /\ Len(events) \in Nat /\ stops \in Nat
      /\ Len(commands) + Held + Len(events) + Free + Live <= 4 + stops
  BY Numbers DEF SaveInv, CountOK
<1>2. Held \in {0, 1} /\ Live \in {0, 1} /\ Free \in {0, 1}
  BY DEF Held, Live, Free
<1> QED
  BY <1>1, <1>2

\* Only the window has done something.
LEMMA StillKnown ==
  ASSUME SaveInv, FewMishaps, TypeOK', UNCHANGED <<worker, busy>>,
         \/ panel'.revision = None
         \/ UNCHANGED <<panel.slot, panel.revision, panel.baseline, panel.pending>>
  PROVE  SaveInv'
<1>1. UNCHANGED <<stored, session, commands, at, stopFlag, events, stops, mishaps, busy>>
  BY DEF worker, budgets
<1>2. Room' = Room /\ Work' = Work /\ Free' = Free /\ Undone' = Undone /\ Held' = Held /\ Live' = Live
  BY <1>1 DEF Room, Work, Free, Undone, Held, Live
<1>3. PanelKnown'
  <2>1. CASE panel'.revision = None
    BY <2>1 DEF PanelKnown
  <2>2. CASE UNCHANGED <<panel.slot, panel.revision, panel.baseline, panel.pending>>
    BY <1>1, <1>2, <2>2 DEF PanelKnown, SaveInv, Asks
  <2> QED
    BY <2>1, <2>2
<1>4. EventsKnown'
  BY <1>1, <1>2 DEF SaveInv, EventsKnown
<1>5. CommandsKnown' /\ AtKnown' /\ CountOK'
  BY <1>1, <1>2 DEF SaveInv, CommandsKnown, AtKnown, CountOK
<1> QED
  BY <1>1, <1>3, <1>4, <1>5 DEF SaveInv

LEMMA AskCount ==
  ASSUME SaveInv, FewMishaps, TypeOK', NEW k \in Commands, Ask(k), ~busy
  PROVE  CountOK' /\ stops' \in 0..MaxStops /\ mishaps' \in 0..MaxMishaps
<1>1. /\ commands' = Append(commands, k) /\ busy' /\ commands \in Seq(Commands)
      /\ UNCHANGED <<session, at, events, stops, mishaps>>
  BY DEF Ask, budgets, SaveInv, TypeOK
<1>2. Len(commands') = Len(commands) + 1
  BY <1>1, AppendFacts
<1>3. Held' = Held /\ Live' = Live /\ Free' = 0 /\ Free = 1
  BY <1>1 DEF Held, Live, Free
<1> QED
  BY <1>1, <1>2, <1>3, Counts DEF SaveInv, CountOK

LEMMA StartInv ==
  ASSUME SaveInv, FewMishaps, TypeOK', NEW p \in Panel, NEW preserve,
         StartRead(p, preserve), ~busy
  PROVE  SaveInv'
<1> DEFINE k == [cmd |-> "read", slot |-> p.slot]
<1>1. k \in Commands /\ k.cmd = "read"
  BY CommandType DEF Panel
<1>2. Ask(k) /\ panel'.revision = None
  BY DEF StartRead, Panel
<1> HIDE DEF k
<1> QED
  BY <1>1, <1>2, AskKnown, AskCount DEF SaveInv

LEMMA SaveStep ==
  ASSUME SaveInv, FewMishaps, TypeOK', Save
  PROVE  SaveInv'
<1> DEFINE k == [cmd |-> "save", slot |-> panel.slot, rev |-> panel.revision,
                 val |-> panel.value, base |-> panel.baseline, sent |-> FALSE]
<1>1. /\ panel.slot \in Slots /\ panel.revision \in 0..Revisions - 1
      /\ panel.value \in Macros /\ panel.baseline \in Macros
  BY DEF Save, SaveInv, TypeOK, Panel
<1>2. k \in Commands
  BY <1>1, CommandType
<1>3. ~busy /\ ~panel.pending /\ Ask(k)
  BY DEF Save, idle
<1>4. ~k.sent /\ k.rev = panel.revision /\ k.base = panel.baseline /\ k.slot = panel.slot
  OBVIOUS
<1>5. /\ panel'.pending
      /\ UNCHANGED <<panel.slot, panel.revision, panel.baseline>>
  BY DEF Save, SaveInv, TypeOK, Panel
<1> HIDE DEF k
<1>6. Fits(panel.revision, panel.baseline, stored[panel.slot], Room + Work)
  <2>1. Fits(panel.revision, panel.baseline, stored[panel.slot], Room + Work + Asks)
    BY DEF Save, SaveInv, PanelKnown
  <2>2. Asks = 1 /\ Room \in Nat /\ Work \in Nat
    BY <1>3, Numbers DEF Asks, SaveInv
  <2>3. stored[panel.slot] \in Stored
    BY <1>1 DEF SaveInv, TypeOK
  <2> QED
    BY <1>1, <2>1, <2>2, <2>3, FitsLess
<1>7. EventsKnown' /\ PanelKnown' /\ CommandsKnown' /\ AtKnown'
  BY <1>2, <1>3, <1>4, <1>5, <1>6, AskKnown
<1> QED
  BY <1>2, <1>3, <1>7, AskCount DEF SaveInv

LEMMA StopStep ==
  ASSUME SaveInv, FewMishaps, TypeOK', Stop
  PROVE  SaveInv'
<1> DEFINE k == [cmd |-> "stop", slot |-> panel.slot]
<1>1. /\ commands' = Append(commands, k) /\ stops' = stops + 1
      /\ commands \in Seq(Commands)
      /\ UNCHANGED <<session, at, events, busy>>
  BY DEF Stop, window, SaveInv, TypeOK
<1>2. k \in Commands
  BY CommandType DEF SaveInv, TypeOK, Panel
<1> HIDE DEF k
<1>3. Len(commands') = Len(commands) + 1
  BY <1>1, <1>2, AppendFacts
<1>4. Held' = Held /\ Live' = Live /\ Free' = Free
  BY <1>1 DEF Held, Live, Free
<1>5. CountOK'
  BY <1>1, <1>3, <1>4, Counts DEF SaveInv, CountOK
<1> QED
  BY <1>5, StopKnown DEF SaveInv

LEMMA UserKnown ==
  ASSUME SaveInv, FewMishaps, TypeOK', User
  PROVE  SaveInv'
<1>1. panel \in Panel /\ TypeOK
  BY DEF SaveInv, TypeOK
<1>2. CASE ChangeTarget
  <2>1. PICK s \in Slots :
          IF connected /\ ~panel.pending
          THEN StartRead(Switched(s), TRUE)
          ELSE panel' = Switched(s) /\ UNCHANGED <<worker, connected, busy>>
    BY <1>2 DEF ChangeTarget
  <2>2. Switched(s) \in Panel /\ ~busy
    BY <1>1, <1>2, SwitchedType DEF ChangeTarget
  <2>3. CASE connected /\ ~panel.pending
    BY <2>1, <2>2, <2>3, StartInv
  <2>4. CASE ~(connected /\ ~panel.pending)
    <3>1. Switched(s).revision = None
      BY <1>1 DEF Switched, Panel
    <3> QED
      BY <2>1, <2>4, <3>1, StillKnown
  <2> QED
    BY <2>3, <2>4
<1>3. CASE Edit
  <2>1. UNCHANGED <<worker, busy>>
    BY <1>3 DEF Edit
  <2>2. UNCHANGED <<panel.slot, panel.revision, panel.baseline, panel.pending>>
    BY <1>1, <1>3 DEF Edit, Panel
  <2> QED
    BY <2>1, <2>2, StillKnown
<1>4. CASE Retry \/ Restore
  BY <1>1, <1>4, StartInv DEF Retry, Restore, idle
<1> QED
  BY <1>2, <1>3, <1>4, SaveStep, StopStep DEF User

LEMMA TakeCount ==
  ASSUME SaveInv, FewMishaps, TypeOK', NEW kind, Handle(kind)
  PROVE  CountOK' /\ stops' \in 0..MaxStops /\ mishaps' \in 0..MaxMishaps
<1>1. /\ events # <<>> /\ events' = Tail(events) /\ events \in Seq(Events)
      /\ UNCHANGED <<session, commands, at, stops, mishaps>>
  BY DEF Handle, budgets, SaveInv, TypeOK
<1>2. Len(events') = Len(events) - 1
  BY <1>1, HeadTailProperties
<1>3. Held' = Held /\ Live' = Live /\ Free' \in {0, 1}
  BY <1>1 DEF Held, Live, Free
<1> QED
  BY <1>1, <1>2, <1>3, Counts DEF SaveInv, CountOK

LEMMA TakeStep ==
  ASSUME SaveInv, FewMishaps, TypeOK', NEW kind, Handle(kind),
         \/ panel'.revision = None
         \/ UNCHANGED <<panel.slot, panel.revision, panel.baseline, panel.pending>>
         \/ /\ kind \in {"read", "save"} /\ Head(events).slot = panel'.slot /\ ~panel'.pending
            /\ panel'.revision = Head(events).is.rev /\ panel'.baseline = Head(events).is.val
  PROVE  SaveInv'
BY TakeKnown, TakeCount DEF SaveInv

LEMMA WindowKnown ==
  ASSUME SaveInv, FewMishaps, TypeOK', Window
  PROVE  SaveInv'
<1>1. panel \in Panel /\ TypeOK
  BY DEF SaveInv, TypeOK
<1>2. ASSUME NEW bus, Shows(panel, FALSE, bus)
      PROVE  panel'.revision = None \/ panel' = panel
  BY <1>1, <1>2 DEF Shows, Panel
<1>3. ASSUME NEW p \in Panel, NEW bus, Shows(p, connected, bus)
      PROVE  panel' = p
  BY <1>3, ShowsKeep
<1>4. CASE OnConnection
  <2>1. PICK kind \in {"connecting", "lost", "ready"} :
          Handle(kind) /\ (panel'.revision = None \/ panel' = panel)
    BY <1>1, <1>2, <1>4, ShowsKeep DEF OnConnection
  <2> QED
    BY <2>1, TakeStep
<1>5. CASE OnResult
  <2>1. PICK kind \in {"read", "save"} : Handle(kind)
    BY <1>5 DEF OnResult
  <2>2. CASE ForPanel
    <3>1. Received \in Panel
      BY <1>1, <1>5, ReceivedType
    <3>2. panel' = Received
      BY <1>3, <1>5, <2>2, <3>1 DEF OnResult
    <3>3. /\ ~Received.pending /\ Received.revision = Head(events).is.rev
          /\ Received.baseline = Head(events).is.val /\ Received.slot = panel.slot
      BY <1>1 DEF Received, Answered, Panel
    <3> QED
      BY <2>1, <2>2, <3>2, <3>3, TakeStep DEF ForPanel
  <2>3. CASE ~ForPanel
    <3>1. panel' = panel
      BY <1>1, <1>3, <1>5, <2>3 DEF OnResult
    <3> QED
      BY <2>1, <3>1, TakeStep
  <2> QED
    BY <2>2, <2>3
<1>6. CASE OnStopped
  <2>1. panel' = panel
    BY <1>1, <1>3, <1>6 DEF OnStopped
  <2> QED
    BY <1>6, <2>1, TakeStep DEF OnStopped
<1>7. CASE OnProblem
  <2>1. Failed \in Panel /\ Failed.revision = None
    BY <1>1 DEF Failed, Panel
  <2>2. panel' = Failed
    BY <1>3, <1>7, <2>1 DEF OnProblem
  <2> QED
    BY <1>7, <2>1, <2>2, TakeStep DEF OnProblem
<1>8. CASE EnsureRead
  <2>1. CASE panel.needs_read /\ connected /\ idle
    BY <1>1, <1>8, <2>1, StartInv DEF EnsureRead, idle
  <2>2. CASE ~(panel.needs_read /\ connected /\ idle)
    BY <1>8, <2>2, StillKnown DEF EnsureRead
  <2> QED
    BY <2>1, <2>2
<1> QED
  BY <1>4, <1>5, <1>6, <1>7, <1>8 DEF Window

\* The worker's steps that end a command or a session: what it holds or has
\* to do becomes a signal.
LEMMA SignalStep ==
  ASSUME SaveInv, FewMishaps, TypeOK', UNCHANGED <<stored, window, stops>>,
         mishaps' \in 0..MaxMishaps, mishaps' >= mishaps, at' = None,
         NEW r \in Seq(Events), events' = events \o r,
         \A k \in DOMAIN r : r[k].kind \notin {"read", "save"},
         \/ /\ commands' = commands
            /\ Held + Live = Live' + Len(r)
         \/ /\ at = None /\ commands # <<>> /\ commands' = Tail(commands)
            /\ Len(r) = 1 /\ UNCHANGED <<session, mishaps>>
         \/ /\ commands = <<>> /\ commands' = <<>> /\ events = <<>> /\ at = None
            /\ Len(r) = 2
  PROVE  SaveInv'
<1>1. UNCHANGED <<busy, panel>>
  BY DEF window
<1>2. EventsKnown' /\ PanelKnown' /\ CommandsKnown' /\ AtKnown'
  BY <1>1, SignalKnown
<1>3. Len(events') = Len(events) + Len(r) /\ Len(r) \in Nat
  BY ConcatProperties DEF SaveInv, TypeOK
<1>4. Held' = 0 /\ Free' = Free /\ Live' \in {0, 1}
  BY <1>1 DEF Held, Free, Live
<1>5. ASSUME commands' = commands, Held + Live = Live' + Len(r)
      PROVE  CountOK'
  <2>1. Len(commands') + Held' + Len(events') + Free' + Live' <= 4 + stops'
    <3>0. Held \in Nat /\ Live \in Nat /\ Free \in Nat /\ Live' \in Nat
      BY <1>4, Counts
    <3>1. Len(commands) + 0 + (Len(events) + Len(r)) + Free + Live'
            = Len(commands) + Held + Len(events) + Free + Live
      BY <1>3, <1>5, <3>0, Counts, Regroup
    <3>2. Len(commands) + 0 + (Len(events) + Len(r)) + Free + Live' <= 4 + stops
      BY <3>1, Counts
    <3> QED
      BY <1>3, <1>4, <1>5, <3>2
  <2> QED
    BY <2>1 DEF CountOK
<1>6. ASSUME at = None, commands # <<>>, commands' = Tail(commands),
             Len(r) = 1, UNCHANGED session
      PROVE  CountOK'
  <2>1. Len(commands') = Len(commands) - 1
    BY <1>6, HeadTailProperties DEF SaveInv, TypeOK
  <2>2. Live' = Live /\ Held = 0
    BY <1>6 DEF Live, Held
  <2> QED
    <3>1. Len(commands) - 1 + 0 + (Len(events) + 1) + Free + Live <= 4 + stops
      BY <2>2, Counts
    <3>2. Len(commands') + Held' + Len(events') + Free' + Live' <= 4 + stops'
      BY <1>3, <1>4, <1>6, <2>1, <2>2, <3>1
    <3> QED
      BY <3>2 DEF CountOK
<1>7. ASSUME commands = <<>>, commands' = <<>>, events = <<>>, at = None, Len(r) = 2
      PROVE  CountOK'
  BY <1>3, <1>4, <1>7, Counts DEF CountOK
<1> QED
  BY <1>2, <1>5, <1>6, <1>7 DEF SaveInv

LEMMA WorkerKnown ==
  ASSUME SaveInv, FewMishaps, TypeOK', Worker \/ Rival
  PROVE  SaveInv'
<1>1. /\ stops \in 0..MaxStops /\ mishaps \in 0..MaxMishaps /\ stops \in Nat /\ mishaps \in Nat
      /\ at # None => session
  BY DEF SaveInv, CountOK
<1>2. Mishap => /\ mishaps' \in 0..MaxMishaps /\ mishaps' >= mishaps /\ UNCHANGED stops
  BY <1>1 DEF Mishap, FewMishaps
<1>3. UNCHANGED budgets => /\ mishaps' \in 0..MaxMishaps /\ mishaps' >= mishaps /\ UNCHANGED stops
  BY <1>1 DEF budgets
<1>4. \A k \in {"connecting", "ready", "lost", "problem", "stop"} :
        /\ Signal(k) \in Seq(Events) /\ Len(Signal(k)) = 1
        /\ \A i \in DOMAIN Signal(k) : Signal(k)[i].kind \notin {"read", "save"}
  BY Silent
<1>5. CASE Refuse
  <2> DEFINE r == Signal("problem")
  <2>1. r \in Seq(Events) /\ Len(r) = 1 /\ \A k \in DOMAIN r : r[k].kind \notin {"read", "save"}
    BY <1>4
  <2>2. /\ events' = events \o r /\ at = None /\ commands # <<>> /\ commands' = Tail(commands)
        /\ UNCHANGED <<stored, session, at, window>> /\ UNCHANGED budgets
    BY <1>5 DEF Refuse, Emit
  <2>3. UNCHANGED mishaps
    BY <2>2 DEF budgets
  <2> HIDE DEF r
  <2> QED
    BY <1>3, <2>1, <2>2, <2>3, SignalStep
<1>6. CASE Begin
  <2>1. /\ at = None /\ session /\ commands # <<>> /\ commands' = Tail(commands) /\ at' = Head(commands)
        /\ UNCHANGED <<stored, session, events, stops, mishaps, busy>>
    BY <1>6 DEF Begin, budgets, window
  <2>2. Len(commands') = Len(commands) - 1 /\ Head(commands) \in Commands
    BY <2>1, HeadTailProperties DEF SaveInv, TypeOK
  <2>3. Held = 0 /\ Held' \in {0, 1} /\ Live' = Live /\ Free' = Free
    BY <2>1 DEF Held, Live, Free
  <2>4. CountOK'
    BY <2>1, <2>2, <2>3, Counts DEF CountOK
  <2> QED
    BY <1>1, <1>6, <2>1, <2>4, BeginKnown DEF SaveInv
<1>7. CASE Succeed
  <2>1. /\ at # None /\ at' = None
        /\ UNCHANGED <<session, stops, mishaps, commands, busy>>
    BY <1>7 DEF Succeed, Done, budgets, window
  <2>2. PICK e \in Events : events' = events \o <<e>>
    <3>1. at.slot \in Slots /\ stored[at.slot] \in Stored
      BY <2>1, Parts DEF SaveInv, TypeOK
    <3>2. /\ [kind |-> "stop"] \in Events
          /\ [kind |-> "read", slot |-> at.slot, is |-> stored[at.slot]] \in Events
          /\ [kind |-> "save", slot |-> at.slot, is |-> stored[at.slot]] \in Events
      BY <3>1, SignalType
    <3> QED
      BY <1>7, <3>2 DEF Succeed, Emit, Signal
  <2>3. Len(events') = Len(events) + 1
    BY <2>2, ConcatProperties DEF SaveInv, TypeOK
  <2>4. Held = 1 /\ Held' = 0 /\ Live' = Live /\ Free' = Free
    BY <2>1 DEF Held, Live, Free
  <2>5. CountOK'
    BY <2>1, <2>3, <2>4, Counts DEF CountOK
  <2> QED
    BY <1>1, <1>7, <2>1, <2>5, SucceedKnown DEF SaveInv
<1>8. CASE Commit \/ Rival
  <2>1. UNCHANGED <<session, commands, events, busy, stops>>
    BY <1>8 DEF Commit, Rival, Mishap, budgets, window
  <2>2. Live' = Live /\ Free' = Free /\ Held \in {0, 1} /\ Held' \in {0, 1}
    BY <2>1 DEF Held, Live, Free
  <2>3. (Held = 1 \/ Held' = Held) /\ (at' # None => at # None)
    BY <1>8 DEF Commit, Rival, Held
  <2>4. CountOK'
    BY <1>1, <2>1, <2>2, <2>3, Counts DEF CountOK
  <2>5. stops' \in 0..MaxStops /\ mishaps' \in 0..MaxMishaps
    BY <1>1, <1>2, <1>3, <1>8 DEF Commit, Rival
  <2> QED
    BY <1>8, <2>4, <2>5, SavesKnown DEF SaveInv

<1>9. CASE Cancel \/ Reject
  <2> DEFINE r == Signal("problem")
  <2>1. r \in Seq(Events) /\ Len(r) = 1 /\ \A k \in DOMAIN r : r[k].kind \notin {"read", "save"}
    BY <1>4
  <2>2. /\ events' = events \o r /\ at # None /\ at' = None
        /\ UNCHANGED <<stored, session, commands, window>>
        /\ Mishap \/ UNCHANGED budgets
    BY <1>9 DEF Cancel, Reject, Emit, Done
  <2> HIDE DEF r
  <2>3. Held + Live = Live' + Len(r)
    BY <2>1, <2>2 DEF Held, Live
  <2> QED
    BY <1>2, <1>3, <2>1, <2>2, <2>3, SignalStep
<1>10. CASE Break
  <2>1. /\ at # None /\ at' = None /\ session /\ session' = stopFlag /\ stopFlag \in BOOLEAN
        /\ UNCHANGED <<stored, commands, window>>
        /\ Mishap \/ UNCHANGED budgets
    BY <1>1, <1>10 DEF Break, Done, SaveInv, TypeOK
  <2>2. CASE stopFlag
    <3> DEFINE r == Signal("problem")
    <3>1. r \in Seq(Events) /\ Len(r) = 1 /\ \A k \in DOMAIN r : r[k].kind \notin {"read", "save"}
      BY <1>4
    <3>2. events' = events \o r
      BY <1>10, <2>2, Silent DEF Break, Emit
    <3> HIDE DEF r
    <3>3. Held + Live = Live' + Len(r)
      BY <2>1, <2>2, <3>1 DEF Held, Live
    <3> QED
      BY <1>2, <1>3, <2>1, <3>1, <3>2, <3>3, SignalStep
  <2>3. CASE ~stopFlag
    <3> DEFINE r == Signal("problem") \o Signal("lost")
    <3>1. r \in Seq(Events) /\ Len(r) = 2 /\ \A k \in DOMAIN r : r[k].kind \notin {"read", "save"}
      BY Silent
    <3>2. events' = events \o r
      BY <1>10, <2>3 DEF Break, Emit
    <3> HIDE DEF r
    <3>3. Held + Live = Live' + Len(r)
      BY <2>1, <2>3, <3>1 DEF Held, Live
    <3> QED
      BY <1>2, <1>3, <2>1, <3>1, <3>2, <3>3, SignalStep
  <2> QED
    BY <2>1, <2>2, <2>3
<1>11. CASE Lose
  <2> DEFINE r == Signal("lost")
  <2>1. r \in Seq(Events) /\ Len(r) = 1 /\ \A k \in DOMAIN r : r[k].kind \notin {"read", "save"}
    BY <1>4
  <2>2. /\ events' = events \o r /\ at = None /\ at' = None /\ session /\ ~session'
        /\ UNCHANGED <<stored, commands, window>> /\ Mishap
    BY <1>11 DEF Lose, Emit
  <2> HIDE DEF r
  <2>3. Held + Live = Live' + Len(r)
    BY <2>1, <2>2 DEF Held, Live
  <2> QED
    BY <1>2, <2>1, <2>2, <2>3, SignalStep
<1>12. CASE Connect
  <2> DEFINE r == Signal("connecting") \o Signal("ready")
  <2>1. r \in Seq(Events) /\ Len(r) = 2 /\ \A k \in DOMAIN r : r[k].kind \notin {"read", "save"}
    BY Silent
  <2>2. /\ events' = events \o r /\ at = None /\ at' = None
        /\ commands = <<>> /\ commands' = <<>> /\ events = <<>>
        /\ UNCHANGED <<stored, window>> /\ UNCHANGED budgets
    BY <1>12 DEF Connect, Emit
  <2> HIDE DEF r
  <2> QED
    BY <1>3, <2>1, <2>2, SignalStep
<1> QED
  BY <1>5, <1>6, <1>7, <1>8, <1>9, <1>10, <1>11, <1>12 DEF Worker

LEMMA SaveInvStep ==
  FewMishaps /\ SaveInv /\ [Next]_vars => SaveInv'
<1> SUFFICES ASSUME FewMishaps, SaveInv, [Next]_vars PROVE SaveInv'
  OBVIOUS
<1>1. CASE UNCHANGED vars
  <2>1. TypeOK'
    BY <1>1 DEF vars, worker, window, SaveInv, TypeOK
  <2>2. UNCHANGED <<worker, busy>> /\ UNCHANGED <<panel.slot, panel.revision, panel.baseline, panel.pending>>
    BY <1>1 DEF vars, window
  <2> QED
    BY <2>1, <2>2, StillKnown
<1>2. CASE Next
  <2>1. TypeOK'
    BY <1>2, UserType, WindowType, WorkerType DEF Next, SaveInv
  <2> QED
    BY <1>2, <2>1, UserKnown, WindowKnown, WorkerKnown DEF Next
<1> QED
  BY <1>1, <1>2

LEMMA SaveInvInit == FewMishaps /\ Init => SaveInv
<1> SUFFICES ASSUME FewMishaps, Init PROVE SaveInv
  OBVIOUS
<1>1. TypeOK
  BY InitType
<1>2. /\ commands = <<>> /\ events = <<>> /\ at = None /\ session = FALSE /\ stops = 0 /\ mishaps = 0
      /\ panel.revision = None
  BY DEF Init
<1>3. Len(commands) = 0 /\ Len(events) = 0 /\ DOMAIN commands = {} /\ DOMAIN events = {}
  BY <1>2
<1>4. Held = 0 /\ Live = 0 /\ Free \in {0, 1}
  BY <1>2 DEF Held, Live, Free
<1>5. CountOK
  BY <1>2, <1>3, <1>4 DEF CountOK
<1>6. EventsKnown /\ PanelKnown /\ CommandsKnown /\ AtKnown
  BY <1>2, <1>3 DEF EventsKnown, PanelKnown, CommandsKnown, AtKnown
<1>7. stops \in 0..MaxStops /\ mishaps \in 0..MaxMishaps
  BY <1>2 DEF FewMishaps
<1> QED
  BY <1>1, <1>5, <1>6, <1>7 DEF SaveInv

-----------------------------------------------------------------------------
(* The theorems.                                                           *)

LEMMA InvStep == Inv /\ [Next]_vars => Inv'
<1> SUFFICES ASSUME Inv, [Next]_vars
             PROVE  Inv'
  OBVIOUS
<1>1. TypeOK'
  <2>1. CASE UNCHANGED vars
    BY <2>1 DEF vars, worker, window, Inv, TypeOK
  <2> QED
    BY <2>1, UserType, WindowType, WorkerType DEF Next, Inv
<1>2. AsideOK'
  BY AsideStep DEF Inv
<1>3. stops' = stops \/ (Stop /\ stops' = stops + 1)
  BY DEF Next, User, ChangeTarget, Edit, Retry, Restore, Save, Stop, StartRead, Ask, Window, OnConnection,
     OnResult, OnStopped, OnProblem, EnsureRead, Handle, Worker, Refuse, Begin, Succeed, Commit, Cancel,
     Reject, Break, Lose, Connect, Rival, Mishap, budgets, worker, vars
<1>4. stops' \in Nat
  BY <1>3 DEF Inv
<1>5. ASSUME stops' = 0
      PROVE  Orderly'
  <2>1. stops = 0 /\ stops' # stops + 1
    BY <1>3, <1>5 DEF Inv
  <2>2. Orderly /\ ~Stop
    BY <2>1 DEF Inv, Stop
  <2>3. CASE UNCHANGED vars
    <3>1. UNCHANGED <<commands, at, stopFlag, events, session, connected, busy, panel, discard>>
      BY <2>3 DEF vars, worker, window
    <3> QED
      BY <2>2, <3>1, StillOrderly
  <2> QED
    BY <2>2, <2>3, UserOrderly, WindowOrderly, WorkerOrderly DEF Next, User, Inv
<1> QED
  BY <1>1, <1>2, <1>4, <1>5 DEF Inv

LEMMA InitInv == Init => Inv
<1> SUFFICES ASSUME Init PROVE Inv
  OBVIOUS
<1>1. TypeOK
  BY InitType
<1>2. AsideOK
  BY DEF Init, AsideOK
<1>3. ~panel.pending
  BY DEF Init
<1>4. Orderly
  BY <1>3 DEF Init, Orderly, Unstopped, OneOK, LinkOK, WaitOK
<1> QED
  BY <1>1, <1>2, <1>4 DEF Init, Inv

LEMMA InvAlways == Spec => []Inv
<1> QED
  BY InitInv, InvStep, PTL DEF Spec

\* The panel, the commands and the signals stay well formed (MacroPanel,
\* HidWorker.commands), for all slots and macros and every bound.
THEOREM TypeCorrect == Spec => []TypeOK
<1>1. Inv => TypeOK
  BY DEF Inv
<1> QED
  BY <1>1, InvAlways, PTL

\* DraftsKept for all slots and macros and every bound: without a click on the
\* stop button no answer, loss of the device or change of the button replaces
\* what the user has written (macro_panel.py), unless the user agreed to
\* discard the draft of that button.
THEOREM NoDraftIsLost == Spec => DraftsKept
<1>1. ASSUME Inv, [Next]_vars, stops = 0, NEW s \in Slots,
             Unsaved(s), ~(Unsaved(s)' /\ Draft(s)' = Draft(s))
      PROVE  \/ s = panel.slot /\ UNCHANGED <<worker, panel.slot>>
             \/ /\ events' = Tail(events) /\ Head(events).slot = s
                /\ discard = s \/ Head(events).is.val = Draft(s)
  <2>0. /\ panel.drafts \in [Slots -> Drafts \cup {None}] /\ panel.slot \in Slots
        /\ panel.value \in Macros /\ panel.baseline \in Macros
    BY <1>1 DEF Inv, TypeOK, Panel
  <2>1. CASE Keeps
    BY <1>1, <2>1 DEF Keeps, Unsaved, Draft, dirty
  <2>2. CASE Receives
    <3>1. PICK kind \in {"read", "save"} : Handle(kind)
      BY <2>2 DEF Receives, OnResult
    <3>2. /\ 1 \in DOMAIN events /\ events[1] = Head(events) /\ events' = Tail(events)
          /\ Head(events).kind = kind /\ connected /\ Head(events).slot = panel.slot
      BY <1>1, <2>2, <3>1, TakeFacts DEF Inv, Handle, Receives, ForPanel
    <3>3. Orderly
      BY <1>1 DEF Inv
    <3>4. s = panel.slot
      BY <1>1, <2>0, <2>2 DEF Receives, Unsaved, Draft
    <3>5. dirty /\ Draft(s) = panel.value
      BY <1>1, <3>4 DEF Unsaved, Draft
    <3>6. CASE kind = "save"
      BY <3>2, <3>3, <3>4, <3>5, <3>6 DEF Orderly, WaitOK
    <3>7. CASE kind = "read" /\ panel.preserve_read
      <4>1. UNCHANGED <<panel.value, panel.slot>> /\ panel'.baseline = Head(events).is.val
        BY <2>2, <3>2, <3>7 DEF Receives
      <4>2. Draft(s)' = Draft(s)
        BY <3>4, <3>5, <4>1 DEF Draft
      <4>3. panel'.value = panel'.baseline
        BY <1>1, <3>4, <4>1, <4>2 DEF Unsaved, dirty
      <4> QED
        BY <3>2, <3>4, <3>5, <4>1, <4>3
    <3>8. CASE kind = "read" /\ ~panel.preserve_read
      BY <3>2, <3>3, <3>4, <3>5, <3>8 DEF Orderly, WaitOK, Spares
    <3> QED
      BY <3>6, <3>7, <3>8
  <2>3. ASSUME NEW t \in Slots \ {panel.slot}, Switches(t)
        PROVE  Unsaved(s)' /\ Draft(s)' = Draft(s)
    <3>1. Mine \in Drafts \cup {None} /\ (dirty => Mine # None /\ Mine.val = panel.value)
      BY <2>0, PanelAssumption DEF Mine, Drafts
    <3>2. CASE s = panel.slot
      BY <1>1, <2>0, <2>3, <3>1, <3>2 DEF Switches, Unsaved, Draft
    <3>3. CASE s = t
      <4>1. panel.drafts[s] # None /\ panel.drafts[s].val # panel.drafts[s].base
        BY <1>1, <2>3, <3>3 DEF Unsaved, Inv, AsideOK
      <4> QED
        BY <2>3, <3>3, <4>1 DEF Switches, Unsaved, Draft, dirty
    <3>4. CASE s # t /\ s # panel.slot
      BY <1>1, <2>0, <2>3, <3>4 DEF Switches, Unsaved, Draft
    <3> QED
      BY <3>2, <3>3, <3>4
  <2>4. CASE Edit /\ UNCHANGED <<panel.slot, panel.drafts>>
    <3>1. s = panel.slot
      BY <1>1, <2>4 DEF Unsaved, Draft
    <3> QED
      BY <2>4, <3>1 DEF Edit
  <2> QED
    BY <1>1, <2>1, <2>2, <2>3, <2>4, DraftSteps DEF Inv
<1>2. Inv /\ [Next]_vars =>
        (stops = 0 =>
          \A s \in Slots :
            Unsaved(s) /\ ~(Unsaved(s)' /\ Draft(s)' = Draft(s)) =>
              \/ s = panel.slot /\ UNCHANGED <<worker, panel.slot>>
              \/ /\ events' = Tail(events) /\ Head(events).slot = s
                 /\ discard = s \/ Head(events).is.val = Draft(s))
  BY <1>1
<1> QED
  BY <1>2, InvAlways, PTL DEF Spec, DraftsKept

\* NoLostMacro for all slots, macros and bounds, as long as the revisions of
\* a slot (16 bits) do not come round while a command waits (FewMishaps): a
\* save replaces only the macro that the panel showed as the slot's content
\* when the user clicked, whatever another application saves and whichever
\* answers are late (_save_macro, macro_panel.py).
THEOREM NoMacroIsLost ==
  ASSUME FewMishaps
  PROVE  Spec => NoLostMacro
<1>1. SaveInv /\ [Next]_vars => (Commit => stored[at.slot].val = at.base)
  <2> SUFFICES ASSUME SaveInv, Commit PROVE stored[at.slot].val = at.base
    OBVIOUS
  <2>1. Fits(at.rev, at.base, stored[at.slot], Room)
    BY DEF SaveInv, AtKnown, Commit
  <2> QED
    BY <2>1 DEF Fits, Commit, DeviceAccepts
<1> QED
  BY <1>1, SaveInvInit, SaveInvStep, PTL DEF Spec, NoLostMacro
=============================================================================
