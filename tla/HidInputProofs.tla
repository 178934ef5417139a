--------------------------- MODULE HidInputProofs ---------------------------
(***************************************************************************)
(* Theorems of HidInput, for every set of buttons, every keymap and all    *)
(* macros: what the engine holds at the host is held by the user, it is    *)
(* never mixed with what a macro types, after a stop every button starts a *)
(* macro again, and none does that the user has kept holding, unless the   *)
(* engine has lost track of it.                                            *)
(*                                                                         *)
(* The user's fingers and what the engine knows of them are different      *)
(* things: a click comes in the mouse report in one mode and in the        *)
(* keyboard report in the other, a change of mode or settings makes the    *)
(* engine forget, and a lost link blinds it.  The invariant is that the    *)
(* engine errs on one side only: what it takes for held is held, and its   *)
(* outputs and the macros' buttons follow from that alone.                 *)
(*                                                                         *)
(* The second half is about the mouse slot, M of MouseSlot: movement and   *)
(* clicks are exact, for every size of the queue and of a report and for   *)
(* every set of speeds.  The invariant adds to what is claimed that an     *)
(* entry's buttons are not those of the one before, that the newest are    *)
(* those of the slot, and that a slot with nothing to send has nothing to  *)
(* tell.  The movement that waits is the sum of a queue; what an append,   *)
(* a tail or another movement does to it is proved first.                  *)
(***************************************************************************)
EXTENDS HidInput, MouseSlot, Sequences, FiniteSetTheorems, WellFoundedInduction, TLAPS

\* What the engine takes for held is held; a click it knows of came in the
\* report of the mode that applies; without a remote it takes nothing for held.
SeenIsHeld ==
  /\ remote_keys \subseteq keys /\ remote_mouse \subseteq mouse
  /\ cursor_mode => Ok \notin remote_keys
  /\ ~cursor_mode => remote_mouse = {}
  /\ ~linked => remote_keys = {} /\ remote_mouse = {}

\* The outputs are those of the buttons it takes for held, and none while a
\* macro runs, waits or has yet to release its keys.
OutputsAreMapped ==
  /\ native \subseteq Mapped(remote_keys, remote_mouse, Mode)
  /\ Busy => native = {}

\* A button that may start a macro was up since everything was cleared, or the
\* engine has lost track of it; those that map to nothing start none.
ArmedAreFresh == macro_armed \ Unmapped(Mode) \subseteq released \union missed

\* A button that must start a macro may do so, unless it is taken for held.
Rearmed == sure \ Held(remote_keys, remote_mouse) \subseteq macro_armed

Inv ==
  /\ TypeOK /\ SeenIsHeld /\ OutputsAreMapped /\ ArmedAreFresh /\ Rearmed /\ TypedIsReleased

-----------------------------------------------------------------------------

\* Fewer buttons than a report may have are a report, too.
LEMMA ReportType ==
  /\ {} \in Reports
  /\ \A k \in Reports : \A fewer : fewer \subseteq k => fewer \in Reports
<1>1. IsFiniteSet(Buttons) /\ MaxHeld \in Nat
  BY InputAssumption
<1>2. {} \in Reports
  BY <1>1, FS_EmptySet DEF Reports
<1>3. ASSUME NEW k \in Reports, NEW fewer, fewer \subseteq k
      PROVE  fewer \in Reports
  <2>1. k \subseteq Buttons /\ Cardinality(k) <= MaxHeld
    BY DEF Reports
  <2>2. IsFiniteSet(k)
    BY <1>1, <2>1, FS_Subset
  <2>3. Cardinality(k) \in Nat /\ Cardinality(fewer) \in Nat /\ Cardinality(fewer) <= Cardinality(k)
    BY <1>3, <2>2, FS_Subset, FS_CardinalityType
  <2> QED BY <1>1, <1>3, <2>1, <2>3 DEF Reports
<1> QED BY <1>2, <1>3

\* The buttons held are buttons, and those mapped have outputs.
LEMMA MappedType ==
  ASSUME NEW k \in Reports, NEW m \in Clicks, NEW mode \in Modes
  PROVE  /\ Held(k, m) \subseteq Buttons /\ Pressed(k, m, mode) \subseteq Buttons
         /\ Mapped(k, m, mode) \subseteq Outputs
<1>1. Held(k, m) \subseteq Buttons
  BY InputAssumption DEF Held, Reports
<1>2. Pressed(k, m, mode) \subseteq Buttons
  BY <1>1 DEF Pressed
<1>3. ASSUME NEW o \in Mapped(k, m, mode)
      PROVE  o \in Outputs
  <2>1. CASE o = Click
    BY <2>1 DEF Outputs
  <2>2. CASE o # Click
    <3>1. PICK b \in Pressed(k, m, mode) : o \in Map[<<mode, b>>]
      BY <2>2 DEF Mapped
    <3>2. <<mode, b>> \in Slots
      BY <1>2, <3>1 DEF Slots
    <3> QED BY <3>1, <3>2 DEF Outputs
  <2> QED BY <2>1, <2>2
<1> QED BY <1>1, <1>2, <1>3

\* The invariant holds at the start.
LEMMA InitInv == Init => Inv
<1> SUFFICES ASSUME Init PROVE Inv
  OBVIOUS
<1>1. keys \in Reports /\ remote_keys \in Reports
  BY ReportType DEF Init
<1>2. /\ linked \in BOOLEAN /\ typed \in BOOLEAN
      /\ cursor_mode \in BOOLEAN /\ mode_known \in BOOLEAN /\ (cursor_mode => mode_known)
  BY Zenon DEF Init
<1>3. /\ enabled \subseteq MacroSlots /\ run \in {"off", "active", "release"}
      /\ macro_pending \in MacroSlots \union {None}
  BY DEF Init
<1>4. TypeOK
  BY <1>1, <1>2, <1>3 DEF Init, TypeOK, Clicks
<1>5. SeenIsHeld /\ OutputsAreMapped /\ ArmedAreFresh /\ Rearmed /\ TypedIsReleased
  BY DEF Init, SeenIsHeld, OutputsAreMapped, ArmedAreFresh, Rearmed, TypedIsReleased
<1> QED BY <1>4, <1>5 DEF Inv

\* What the ghosts are made of.
LEMMA UpType == Up \subseteq Buttons /\ (TypeOK => Hidden \subseteq Buttons)
<1>1. Up \subseteq Buttons
  BY DEF Up
<1>2. ASSUME TypeOK PROVE Hidden \subseteq Buttons
  <2>1. keys \subseteq Buttons
    BY <1>2 DEF TypeOK, Reports
  <2>2. Ok \in Buttons
    BY InputAssumption
  <2> QED BY <2>1, <2>2 DEF Hidden, Held
<1> QED BY <1>1, <1>2

\* What the user, the remote and the mode may be after a step.
Around ==
  /\ keys \in Reports /\ mouse \in Clicks /\ linked \in BOOLEAN
  /\ cursor_mode \in BOOLEAN /\ mode_known \in BOOLEAN /\ (cursor_mode => mode_known)
  /\ remote_keys \in Reports /\ remote_mouse \in Clicks
  /\ enabled \subseteq MacroSlots
  /\ SeenIsHeld

\* What cancel_macros leaves.
LEMMA CancelledType ==
  ASSUME NEW r \in {"off", "active", "release"}
  PROVE  /\ Cancelled(r) \in {"off", "active", "release"}
         /\ r # "off" => Cancelled(r) # "off"
BY DEF Cancelled

\* Clearing everything is right in every state.
LEMMA ClearedInv ==
  ASSUME Inv, Around', Clear({}, {}), Cleared
  PROVE  Inv'
<1>1. released' \subseteq Buttons /\ missed' = {} /\ sure' = {}
  BY DEF Cleared, Up
<1>2. /\ run' \in {"off", "active", "release"}
      /\ run # "off" => run' # "off"
  BY CancelledType DEF Clear, Inv, TypeOK
<1>3. typed' = typed /\ typed \in BOOLEAN
  BY DEF Clear, Inv, TypeOK
<1>4. TypeOK'
  BY <1>1, <1>2, <1>3 DEF TypeOK, Around, Clear
<1>5. TypedIsReleased'
  BY <1>2, <1>3 DEF Inv, TypedIsReleased
<1>6. OutputsAreMapped' /\ ArmedAreFresh' /\ Rearmed'
  BY <1>1 DEF Clear, OutputsAreMapped, ArmedAreFresh, Rearmed
<1> QED BY <1>4, <1>5, <1>6 DEF Inv, Around

\* A stop keeps the buttons that are held from starting a macro.
LEMMA StopInv ==
  ASSUME Inv, Stop, enabled' \subseteq MacroSlots
  PROVE  Inv'
<1>1. /\ released' = Buttons \ Held(keys, mouse) /\ missed' = Held(keys, mouse) \ macro_down
      /\ sure' = Buttons \ macro_down
  BY DEF Stop, Rested, Up
<1>0. Held(keys, mouse) \subseteq Buttons
  BY MappedType DEF Inv, TypeOK, Modes
<1>2. macro_down' = macro_down /\ macro_armed' = Buttons \ macro_down /\ native' = {}
      /\ macro_pending' = None /\ run' = Cancelled(run) /\ typed' = typed
  BY DEF Stop, Clear
<1>3. UNCHANGED <<keys, mouse, linked, cursor_mode, mode_known, remote_keys, remote_mouse>>
  BY DEF Stop, Rested, userVars, modeVars, remoteVars
<1>4. /\ run' \in {"off", "active", "release"}
      /\ run # "off" => run' # "off"
  BY <1>2, CancelledType DEF Inv, TypeOK
<1>5. TypeOK'
  BY <1>0, <1>1, <1>2, <1>3, <1>4 DEF Inv, TypeOK
<1>6. SeenIsHeld'
  BY <1>3 DEF Inv, SeenIsHeld
<1>7. TypedIsReleased'
  BY <1>2, <1>4 DEF Inv, TypedIsReleased
<1>8. ArmedAreFresh'
  BY <1>1, <1>2 DEF ArmedAreFresh
<1>9. OutputsAreMapped' /\ Rearmed'
  BY <1>1, <1>2 DEF OutputsAreMapped, Rearmed
<1> QED BY <1>5, <1>6, <1>7, <1>8, <1>9 DEF Inv

\* Nothing changes but what the user holds.
LEMMA TrackedInv ==
  ASSUME Inv, Around', Tracked,
         UNCHANGED <<modeVars, remoteVars, native, macroVars, runVars>>
  PROVE  Inv'
<1>1. UNCHANGED <<cursor_mode, mode_known, remote_keys, remote_mouse, native, macro_down,
                  macro_armed, macro_pending, enabled, run, typed>>
  BY DEF modeVars, remoteVars, macroVars, runVars
<1>2. released' \subseteq Buttons /\ released \subseteq released' /\ missed' = missed /\ sure' = sure
  BY DEF Tracked, Up, Inv, TypeOK
<1>3. TypeOK'
  BY <1>1, <1>2 DEF Around, Inv, TypeOK
<1>4. TypedIsReleased'
  BY <1>1 DEF Inv, TypedIsReleased
<1>5. OutputsAreMapped'
  <2>1. Mapped(remote_keys, remote_mouse, Mode)' = Mapped(remote_keys, remote_mouse, Mode)
    BY <1>1 DEF Mapped, Pressed, Held, Unmapped, Mode
  <2>2. Busy' = Busy
    BY <1>1 DEF Busy
  <2> QED BY <1>1, <2>1, <2>2 DEF Inv, OutputsAreMapped
<1>6. ArmedAreFresh' /\ Rearmed'
  BY <1>1, <1>2 DEF Inv, ArmedAreFresh, Rearmed, Held, Unmapped, Mode
<1> QED BY <1>3, <1>4, <1>5, <1>6 DEF Inv, Around

\* map_remote: the engine takes other buttons for held and maps them, lets a
\* macro wait, or stops one.
LEMMA MapRemoteInv ==
  ASSUME Inv, Around', UNCHANGED modeVars,
         NEW k \in Reports, NEW m \in Clicks, NEW ready \in BOOLEAN,
         remote_keys' = k, remote_mouse' = m,
         MapRemote(k, m, Mode, ready)
  PROVE  Inv'
<1> DEFINE pressed == Pressed(k, m, Mode)
           rising  == Rising(pressed)
           wanted  == {b \in rising : ready /\ <<Mode, b>> \in enabled}
<1>1. Mode \in Modes /\ Mode' = Mode
  BY DEF Mode, Modes, modeVars
<1>2. Pressed(k, m, Mode)' = pressed /\ pressed \subseteq Buttons
  BY <1>1, MappedType DEF Pressed, Held, Unmapped
<1>3. CASE rising # {} /\ Busy
  BY <1>3, ClearedInv DEF MapRemote
<1>4. CASE ~(rising # {} /\ Busy)
  <2>1. /\ macro_down' = pressed /\ UNCHANGED <<enabled, run, typed>>
        /\ IF wanted # {}
           THEN /\ native' = {} /\ macro_armed' = Buttons \ pressed
                /\ released' = Up' /\ missed' = Hidden' /\ UNCHANGED sure
                /\ \E b \in wanted : macro_pending' = <<Mode, b>>
           ELSE /\ native' = IF Busy THEN native ELSE Mapped(k, m, Mode)
                /\ macro_armed' = macro_armed \union (Buttons \ pressed)
                /\ Reported /\ UNCHANGED macro_pending
    BY <1>4 DEF MapRemote, runVars
  <2> HIDE DEF wanted, rising
  <2>2. /\ released' \subseteq Buttons /\ missed' \subseteq Buttons /\ sure' = sure
        /\ Buttons \ Held(k, m) \subseteq released' \union missed'
        /\ \/ macro_armed' = Buttons \ pressed
           \/ released \subseteq released' /\ missed \subseteq missed'
    <3>1. Held(remote_keys, remote_mouse)' = Held(k, m)
      BY DEF Held
    <3>2. Held(keys, mouse)' \subseteq Buttons
      BY InputAssumption DEF Around, Held, Reports
    <3>3. Up' \subseteq Buttons /\ Hidden' \subseteq Buttons /\ Buttons \ Held(k, m) \subseteq Up' \union Hidden'
      BY <3>1, <3>2 DEF Up, Hidden
    <3> QED BY <2>1, <3>3 DEF Reported, Inv, TypeOK
  <2>3. macro_pending' \in MacroSlots \union {None}
    BY <2>1 DEF wanted, Inv, TypeOK
  <2>4. native' \subseteq Outputs
    BY <1>1, <2>1, MappedType DEF Inv, TypeOK
  <2>5. macro_armed' \subseteq Buttons /\ Buttons \ pressed \subseteq macro_armed'
        /\ macro_armed' \subseteq macro_armed \union (Buttons \ pressed)
    BY <2>1 DEF Inv, TypeOK
  <2>6. TypeOK'
    BY <1>2, <2>1, <2>2, <2>3, <2>4, <2>5 DEF Around, Inv, TypeOK
  <2>7. TypedIsReleased'
    BY <2>1 DEF Inv, TypedIsReleased
  <2>8. Busy' => native' = {}
    BY <2>1 DEF Inv, OutputsAreMapped, Busy
  <2>9. native' \subseteq Mapped(k, m, Mode)'
    <3>1. Mapped(k, m, Mode)' = Mapped(k, m, Mode)
      BY <1>1, <2>1 DEF Mapped, Pressed, Held, Unmapped
    <3>2. Busy => native = {}
      BY DEF Inv, OutputsAreMapped
    <3> QED BY <2>1, <3>1, <3>2
  <2>10. ArmedAreFresh'
    <3>1. Buttons \ pressed \subseteq (Buttons \ Held(k, m)) \union Unmapped(Mode)
      BY DEF Pressed
    <3>2. macro_armed \ Unmapped(Mode) \subseteq released \union missed /\ Unmapped(Mode)' = Unmapped(Mode)
      BY <1>1 DEF Inv, ArmedAreFresh, Unmapped
    <3> HIDE DEF pressed
    <3> QED BY <2>2, <2>5, <3>1, <3>2 DEF ArmedAreFresh
  <2>11. Rearmed'
    <3>1. pressed \subseteq Held(k, m) /\ Held(k, m)' = Held(k, m)
      BY DEF Pressed, Held
    <3>2. sure \subseteq Buttons
      BY DEF Inv, TypeOK
    <3> HIDE DEF pressed
    <3> QED BY <2>2, <2>5, <3>1, <3>2 DEF Rearmed
  <2> QED BY <2>6, <2>7, <2>8, <2>9, <2>10, <2>11 DEF Inv, OutputsAreMapped, Around
<1> QED BY <1>3, <1>4

\* Reports of the remote.
LEMMA KeyboardInv ==
  ASSUME Inv, NEW k \in Reports, NEW ready \in BOOLEAN, Keyboard(k, ready)
  PROVE  Inv'
<1>1. /\ linked /\ keys' = k /\ linked' = linked /\ remote_keys' = k
      /\ remote_mouse' = remote_mouse /\ MapRemote(k, remote_mouse, Mode, ready)
      /\ cursor_mode => Ok \notin k
      /\ mouse' = IF cursor_mode THEN mouse ELSE mouse \ {Ok}
      /\ cursor_mode' = cursor_mode /\ mode_known' = mode_known /\ UNCHANGED modeVars
  BY DEF Keyboard, modeVars
<1>2. SeenIsHeld
  BY DEF Inv
<1>3. mouse' \in Clicks /\ remote_mouse' \in Clicks
  BY <1>1 DEF Inv, TypeOK, Clicks
<1>4. enabled' \subseteq MacroSlots
  BY <1>1 DEF MapRemote, runVars, Inv, TypeOK
<1>5. SeenIsHeld'
  BY <1>1, <1>2 DEF SeenIsHeld
<1>6. Around'
  BY <1>1, <1>3, <1>4, <1>5 DEF Around, Inv, TypeOK
<1>8. remote_mouse \in Clicks
  BY DEF Inv, TypeOK
<1> QED BY <1>1, <1>6, <1>8, MapRemoteInv

\* hid_input_remote_mouse.
LEMMA RemoteMouseInv ==
  ASSUME Inv, NEW m \in Clicks, NEW ready \in BOOLEAN, RemoteMouse(m, ready)
  PROVE  Inv'
<1>1. /\ linked /\ mouse' = m /\ linked' = linked /\ UNCHANGED modeVars
      /\ cursor_mode' = cursor_mode /\ mode_known' = mode_known
      /\ keys' = IF cursor_mode THEN keys \ {Ok} ELSE keys
  BY DEF RemoteMouse, modeVars
<1>2. SeenIsHeld
  BY DEF Inv
<1>3. keys' \in Reports
  BY <1>1, ReportType DEF Inv, TypeOK
<1>4. CASE cursor_mode
  <2>1. /\ remote_mouse' = m /\ remote_keys' = remote_keys
        /\ MapRemote(remote_keys, m, Mode, ready)
    BY <1>4 DEF RemoteMouse, Mode
  <2>2. enabled' \subseteq MacroSlots
    BY <2>1 DEF MapRemote, runVars, Inv, TypeOK
  <2>3. SeenIsHeld'
    BY <1>1, <1>2, <1>4, <2>1 DEF SeenIsHeld
  <2>4. Around'
    BY <1>1, <1>3, <2>1, <2>2, <2>3 DEF Around, Inv, TypeOK
  <2>6. remote_keys \in Reports
    BY DEF Inv, TypeOK
  <2> QED BY <1>1, <2>1, <2>4, <2>6, MapRemoteInv
<1>5. CASE ~cursor_mode
  <2>1. Tracked /\ UNCHANGED <<modeVars, remoteVars, native, macroVars, runVars>>
    BY <1>1, <1>5 DEF RemoteMouse
  <2>2. UNCHANGED <<remote_keys, remote_mouse, enabled>>
    BY <2>1 DEF remoteVars, runVars
  <2>3. SeenIsHeld'
    BY <1>1, <1>2, <1>5, <2>2 DEF SeenIsHeld
  <2>4. Around'
    BY <1>1, <1>3, <2>2, <2>3 DEF Around, Inv, TypeOK
  <2> QED BY <2>1, <2>4, TrackedInv
<1> QED BY <1>4, <1>5

\* The first mouse report tells the mode; everything is cleared before it is
\* mapped.
LEMMA FirstMouseInv ==
  ASSUME Inv, NEW m \in Clicks, FirstMouse(m)
  PROVE  Inv'
<1>1. /\ linked' = TRUE /\ mouse' = m /\ keys' = keys \ {Ok}
      /\ cursor_mode' = TRUE /\ mode_known' = TRUE
      /\ remote_keys' = {} /\ remote_mouse' = m
      /\ enabled' = enabled /\ typed' = typed
      /\ macro_down' = Held({}, m) /\ macro_armed' = Buttons \ Held({}, m)
      /\ macro_pending' = None /\ run' = Cancelled(run)
      /\ native' = IF run = "off" THEN Mapped({}, m, 1) ELSE {}
  BY DEF FirstMouse, Inv, TypeOK
<1>2. released' = Up' /\ missed' = Hidden' /\ sure' = {}
  BY DEF FirstMouse
<1>3. keys' \in Reports /\ {} \in Reports
  BY <1>1, ReportType DEF Inv, TypeOK
<1>0. /\ Held(remote_keys, remote_mouse)' = Held({}, m) /\ Held(keys, mouse)' \subseteq Buttons
      /\ released' \subseteq Buttons /\ missed' \subseteq Buttons
      /\ Buttons \ Held({}, m) \subseteq released' \union missed'
  BY <1>1, <1>2, <1>3, InputAssumption DEF Held, Reports, Up, Hidden
<1>4. /\ run' \in {"off", "active", "release"}
      /\ run # "off" => run' # "off"
      /\ run = "off" => run' = "off"
  BY <1>1, CancelledType DEF Cancelled, Inv, TypeOK
<1>5. Held({}, m) \subseteq Buttons /\ Mapped({}, m, 1) \subseteq Outputs
  BY <1>3, MappedType DEF Modes
<1>6. /\ linked' \in BOOLEAN /\ cursor_mode' \in BOOLEAN /\ mode_known' \in BOOLEAN
      /\ (cursor_mode' => mode_known')
  BY <1>1, Zenon
<1>7. native' \subseteq Outputs
  BY <1>1, <1>5
<1>8. TypeOK'
  BY <1>0, <1>1, <1>2, <1>3, <1>4, <1>5, <1>6, <1>7 DEF TypeOK, Inv
<1>9. SeenIsHeld'
  BY <1>1 DEF SeenIsHeld
<1>10. Mode' = 1
  BY <1>1 DEF Mode
<1>11. OutputsAreMapped'
  <2>1. Mapped({}, m, 1)' = Mapped({}, m, 1)
    BY <1>1 DEF Mapped, Pressed, Held, Unmapped
  <2>2. native' \subseteq Mapped(remote_keys, remote_mouse, Mode)'
    BY <1>1, <1>10, <2>1
  <2>3. Busy' => native' = {}
    BY <1>1, <1>4 DEF Busy
  <2> QED BY <2>2, <2>3 DEF OutputsAreMapped
<1>12. ArmedAreFresh' /\ Rearmed'
  BY <1>0, <1>1, <1>2 DEF ArmedAreFresh, Rearmed
<1>13. TypedIsReleased'
  BY <1>1, <1>4 DEF Inv, TypedIsReleased
<1> QED BY <1>8, <1>9, <1>11, <1>12, <1>13 DEF Inv

\* set_mapping_mode either clears or finds the mode unchanged.
LEMMA SensorModeInv ==
  ASSUME Inv, NEW cursor \in BOOLEAN, SensorMode(cursor)
  PROVE  Inv'
<1>1. UNCHANGED <<keys, mouse, linked>>
  BY DEF SensorMode, userVars
<1>2. CASE Tracked /\ UNCHANGED <<modeVars, remoteVars, native, macroVars, runVars>>
  <2>1. UNCHANGED <<cursor_mode, mode_known, remote_keys, remote_mouse, enabled>>
    BY <1>2 DEF modeVars, remoteVars, runVars
  <2>2. Around'
    BY <1>1, <2>1 DEF Around, SeenIsHeld, Inv, TypeOK
  <2> QED BY <1>2, <2>2, TrackedInv
<1>3. CASE /\ cursor_mode' = cursor /\ mode_known' = TRUE
           /\ Forget /\ Cleared /\ Clear({}, {}) /\ UNCHANGED enabled
  <2>1. SeenIsHeld'
    BY <1>3 DEF Forget, SeenIsHeld
  <2>2. cursor_mode' \in BOOLEAN /\ mode_known' \in BOOLEAN /\ (cursor_mode' => mode_known')
    BY <1>3, Zenon
  <2>3. remote_keys' \in Reports /\ remote_mouse' \in Clicks
    BY <1>3, ReportType DEF Forget, Clicks
  <2>4. Around'
    BY <1>1, <1>3, <2>1, <2>2, <2>3 DEF Around, Inv, TypeOK
  <2> QED BY <1>3, <2>4, ClearedInv
<1> QED BY <1>2, <1>3 DEF SensorMode, SetMode

\* The remote comes and goes; the user goes on pressing.
LEMMA RemoteInv ==
  ASSUME Inv, RemoteReady \/ RemoteLost \/ \E k \in Reports, m \in Clicks : Unseen(k, m)
  PROVE  Inv'
<1>1. CASE RemoteReady
  <2>1. /\ UNCHANGED <<keys, mouse, released, missed, sure, cursor_mode, mode_known>>
        /\ UNCHANGED <<remote_keys, remote_mouse, native, macro_down, macro_armed>>
        /\ UNCHANGED <<macro_pending, enabled, run, typed>>
        /\ linked' = TRUE
    BY <1>1 DEF RemoteReady, ghosts, modeVars, remoteVars, macroVars, runVars
  <2>2. TypeOK' /\ TypedIsReleased'
    BY <2>1 DEF Inv, TypeOK, TypedIsReleased
  <2>3. SeenIsHeld' /\ ArmedAreFresh' /\ Rearmed'
    BY <2>1 DEF Inv, SeenIsHeld, ArmedAreFresh, Rearmed, Pressed, Held, Unmapped, Mode
  <2>4. OutputsAreMapped'
    BY <2>1 DEF Inv, OutputsAreMapped, Mapped, Pressed, Held, Unmapped, Mode, Busy
  <2> QED BY <2>2, <2>3, <2>4 DEF Inv
<1>2. CASE RemoteLost
  <2>1. /\ linked' = FALSE /\ UNCHANGED <<keys, mouse, enabled>>
        /\ cursor_mode' = FALSE /\ mode_known' = FALSE
        /\ remote_keys' = {} /\ remote_mouse' = {}
        /\ Clear({}, {}) /\ Cleared
    BY <1>2 DEF RemoteLost, Forget
  <2>2. SeenIsHeld'
    BY <2>1 DEF SeenIsHeld
  <2>3. remote_keys' \in Reports /\ remote_mouse' \in Clicks
    BY <2>1, ReportType DEF Clicks
  <2>4. Around'
    BY <2>1, <2>2, <2>3 DEF Around, Inv, TypeOK
  <2> QED BY <2>1, <2>4, ClearedInv
<1>3. ASSUME NEW k \in Reports, NEW m \in Clicks, Unseen(k, m)
      PROVE  Inv'
  <2>1. ~linked /\ keys' = k /\ mouse' = m /\ Tracked
        /\ UNCHANGED <<modeVars, remoteVars, native, macroVars, runVars>>
    BY <1>3 DEF Unseen
  <2>2. UNCHANGED <<linked, cursor_mode, mode_known, remote_keys, remote_mouse, enabled>>
    BY <1>3 DEF Unseen, modeVars, remoteVars, runVars
  <2>3. SeenIsHeld'
    BY <2>1, <2>2 DEF Inv, SeenIsHeld
  <2>4. Around'
    BY <2>1, <2>2, <2>3 DEF Around, Inv, TypeOK
  <2> QED BY <2>1, <2>4, TrackedInv
<1> QED BY <1>1, <1>2, <1>3

\* hid_input_mapping_changed.
LEMMA MappingChangedInv ==
  ASSUME Inv, MappingChanged
  PROVE  Inv'
<1>1. UNCHANGED <<keys, mouse, linked, cursor_mode, mode_known, enabled>>
  BY DEF MappingChanged, userVars, modeVars
<1>2. remote_keys' = {} /\ remote_mouse' = {} /\ Clear({}, {}) /\ Cleared
  BY DEF MappingChanged, Forget
<1>3. SeenIsHeld'
  BY <1>2 DEF SeenIsHeld
<1>4. remote_keys' \in Reports /\ remote_mouse' \in Clicks
  BY <1>2, ReportType DEF Clicks
<1>5. Around'
  BY <1>1, <1>3, <1>4 DEF Around, Inv, TypeOK
<1> QED BY <1>2, <1>5, ClearedInv

\* A macro runs on, ends or begins; it ends with no key down.
LEMMA MacroTickInv ==
  ASSUME Inv, MacroTick
  PROVE  Inv'
<1>1. /\ UNCHANGED <<keys, mouse, linked, released, missed, sure, cursor_mode, mode_known>>
      /\ UNCHANGED <<remote_keys, remote_mouse, native, macro_down, macro_armed, enabled>>
  BY DEF MacroTick, userVars, ghosts, modeVars, remoteVars
<1>2. PICK next \in Ticks :
        /\ typed' = next[2]
        /\ IF macro_pending # None /\ next[1] = "off"
           THEN /\ run' = IF macro_pending \in enabled THEN "active" ELSE "off"
                /\ macro_pending' = None
           ELSE run' = next[1] /\ UNCHANGED macro_pending
  BY DEF MacroTick
<1>3. /\ run \in {"off", "active", "release"} /\ typed \in BOOLEAN
      /\ macro_pending \in MacroSlots \union {None} /\ (typed => run # "off")
  BY DEF Inv, TypeOK, TypedIsReleased
<1>4. /\ next[1] \in {"off", "active", "release"} /\ next[2] \in BOOLEAN
      /\ (next[2] => next[1] # "off")
      /\ (run = "off" => next[1] = "off")
  <2>1. \/ next = <<run, typed>>
        \/ next = <<"off", FALSE>>
        \/ next = <<run, ~typed>> /\ run = "active"
    BY DEF Ticks
  <2>2. CASE next = <<run, typed>>
    BY <1>3, <2>2
  <2>3. CASE next = <<"off", FALSE>>
    BY <2>3
  <2>4. CASE next = <<run, ~typed>> /\ run = "active"
    BY <2>4
  <2> QED BY <2>1, <2>2, <2>3, <2>4
<1>5. run' \in {"off", "active", "release"} /\ macro_pending' \in MacroSlots \union {None}
  BY <1>2, <1>3, <1>4
<1>6. typed' \in BOOLEAN /\ (typed' => run' # "off")
  BY <1>2, <1>4
<1>7. TypeOK'
  BY <1>1, <1>5, <1>6 DEF Inv, TypeOK
<1>8. Busy' => Busy
  BY <1>2, <1>3, <1>4 DEF Busy
<1>9. OutputsAreMapped'
  BY <1>1, <1>8 DEF Inv, OutputsAreMapped, Mapped, Pressed, Held, Unmapped, Mode
<1>10. SeenIsHeld' /\ ArmedAreFresh' /\ Rearmed' /\ TypedIsReleased'
  BY <1>1, <1>6 DEF Inv, SeenIsHeld, ArmedAreFresh, Rearmed, TypedIsReleased, Pressed, Held,
     Unmapped, Mode
<1> QED BY <1>7, <1>9, <1>10 DEF Inv

\* Every step keeps the invariant.
LEMMA StepInv == Inv /\ [Next]_vars => Inv'
<1> SUFFICES ASSUME Inv, [Next]_vars PROVE Inv'
  OBVIOUS
<1>1. CASE MacroStop \/ \E slots \in SUBSET MacroSlots : MacroCommit(slots)
  <2>1. Stop /\ enabled' \subseteq MacroSlots
    BY <1>1 DEF MacroStop, MacroCommit, Inv, TypeOK
  <2> QED BY <2>1, StopInv
<1>2. CASE UNCHANGED vars
  <2>1. /\ UNCHANGED <<keys, mouse, linked, released, missed, sure, cursor_mode, mode_known>>
        /\ UNCHANGED <<remote_keys, remote_mouse, native, macro_down, macro_armed>>
        /\ UNCHANGED <<macro_pending, enabled, run, typed>>
    BY <1>2 DEF vars, userVars, ghosts, modeVars, remoteVars, macroVars, runVars
  <2>2. TypeOK' /\ TypedIsReleased'
    BY <2>1 DEF Inv, TypeOK, TypedIsReleased
  <2>3. SeenIsHeld' /\ ArmedAreFresh' /\ Rearmed'
    BY <2>1 DEF Inv, SeenIsHeld, ArmedAreFresh, Rearmed, Pressed, Held, Unmapped, Mode
  <2>4. OutputsAreMapped'
    BY <2>1 DEF Inv, OutputsAreMapped, Mapped, Pressed, Held, Unmapped, Mode, Busy
  <2> QED BY <2>2, <2>3, <2>4 DEF Inv
<1> QED
  BY <1>1, <1>2, KeyboardInv, RemoteMouseInv, FirstMouseInv, SensorModeInv, RemoteInv,
     MappingChangedInv, MacroTickInv DEF Next

-----------------------------------------------------------------------------

\* What the engine takes for held explains all that it holds out to the host,
\* and the user does hold it.
LEMMA InvIsSafe == Inv => InputSafety
<1> SUFFICES ASSUME Inv PROVE InputSafety
  OBVIOUS
<1>1. TypeOK /\ SeenIsHeld /\ OutputsAreMapped /\ Rearmed /\ TypedIsReleased
  BY DEF Inv
<1>2. Held(remote_keys, remote_mouse) \subseteq Held(keys, mouse)
  BY <1>1 DEF SeenIsHeld, Held
<1>3. HeldIsPressed
  <2> SUFFICES ASSUME NEW o \in native
               PROVE  \/ o = Click /\ Click \in mouse
                      \/ \E b \in Held(keys, mouse) \ Unmapped(Mode) :
                           o \in Map[<<Mode, b>>] /\ <<Mode, b>> \notin enabled
    BY DEF HeldIsPressed
  <2>1. o \in Mapped(remote_keys, remote_mouse, Mode)
    BY <1>1 DEF OutputsAreMapped
  <2>2. CASE o \in remote_mouse \intersect {Click}
    BY <1>1, <2>2 DEF SeenIsHeld
  <2>3. CASE \E b \in Pressed(remote_keys, remote_mouse, Mode) :
               o \in Map[<<Mode, b>>] /\ <<Mode, b>> \notin enabled
    BY <1>2, <2>3 DEF Pressed
  <2> QED BY <2>1, <2>2, <2>3 DEF Mapped
<1>4. NoMixed
  BY <1>1 DEF OutputsAreMapped, Busy, NoMixed
<1>5. StopRearms
  BY <1>1, <1>2 DEF Rearmed, StopRearms
<1> QED BY <1>1, <1>3, <1>4, <1>5 DEF InputSafety

\* No change of mode, settings, host or link, no lost report and no macro
\* leaves the host with a key that the user does not hold; macros and manual
\* input never mix; and a stop leaves no button behind that starts no macro.
THEOREM InputIsSafe == Spec => []InputSafety
BY InitInv, StepInv, InvIsSafe, PTL DEF Spec

\* A macro starts by a button that was up since everything was last cleared, by a
\* stop of any kind, a start, a lost link or a change of mode, settings or host;
\* or by one of which the engine has lost track (map_remote, clear_native).
THEOREM StartsAreFresh == Spec => StartIsFresh
<1>1. Inv /\ [Next]_vars
        => [macro_pending' # macro_pending /\ macro_pending' # None
              => macro_pending'[2] \in released \union missed]_vars
  <2> SUFFICES ASSUME Inv, Next, macro_pending' # macro_pending, macro_pending' # None
               PROVE  macro_pending'[2] \in released \union missed
    BY DEF vars
  <2>1. ASSUME NEW k, NEW m, NEW ready, MapRemote(k, m, Mode, ready)
        PROVE  macro_pending'[2] \in released \union missed
    <3>1. PICK b \in Rising(Pressed(k, m, Mode)) : macro_pending' = <<Mode, b>>
      BY <2>1 DEF MapRemote, Clear
    <3>2. b \in macro_armed \ Unmapped(Mode)
      BY <3>1 DEF Rising, Pressed
    <3> QED BY <3>1, <3>2 DEF Inv, ArmedAreFresh
  <2>2. CASE \E k \in Reports, ready \in BOOLEAN : Keyboard(k, ready)
    BY <2>1, <2>2 DEF Keyboard
  <2>3. CASE \E m \in Clicks, ready \in BOOLEAN : RemoteMouse(m, ready)
    BY <2>1, <2>3 DEF RemoteMouse, Mode, macroVars
  <2>4. CASE \E m \in Clicks : FirstMouse(m)
    BY <2>4 DEF FirstMouse
  <2>5. CASE \E cursor \in BOOLEAN : SensorMode(cursor)
    BY <2>5 DEF SensorMode, SetMode, Clear, macroVars
  <2>6. CASE RemoteReady \/ RemoteLost \/ \E k \in Reports, m \in Clicks : Unseen(k, m)
    BY <2>6 DEF RemoteReady, RemoteLost, Unseen, Clear, macroVars
  <2>7. CASE MappingChanged \/ MacroStop \/ \E slots \in SUBSET MacroSlots : MacroCommit(slots)
    BY <2>7 DEF MappingChanged, MacroStop, MacroCommit, Stop, Clear
  <2>8. CASE MacroTick
    BY <2>8 DEF MacroTick
  <2> QED BY <2>2, <2>3, <2>4, <2>5, <2>6, <2>7, <2>8 DEF Next
<1> QED BY <1>1, InitInv, StepInv, PTL DEF Spec, StartIsFresh

-----------------------------------------------------------------------------
(* The mouse slot (MouseSlot).  The movement that waits is a sum.          *)

\* g has the totals of every prefix of s.
Totals(s, g) ==
  /\ g = [i \in 0..Len(s) |-> g[i]] /\ g[0] = 0
  /\ \A i \in 1..Len(s) : g[i] = g[i - 1] + s[i].move

\* A set of numbers that is not empty has a least one.
LEMMA Least ==
  ASSUME NEW T, T \subseteq Nat, T # {}
  PROVE \E x \in T : \A y \in T : x <= y
<1> DEFINE R == {ss \in Nat \X Nat : ss[1] < ss[2]}
<1>1. IsWellFoundedOn(R, Nat)
  BY NatLessThanWellFounded DEF OpToRel
<1>2. \A x, y \in T : x < y => <<x, y>> \in R
  OBVIOUS
<1> HIDE DEF R
<1>3. PICK x \in T : \A y \in T : <<y, x>> \notin R
  BY <1>1, WFMin, Zenon
<1>4. \A y \in T : ~(y < x)
  BY <1>2, <1>3
<1>5. \A y \in T : x <= y
  BY <1>4
<1> QED BY <1>5

\* The totals of a queue exist: the least prefix without them has none shorter.
LEMMA TotalsExist ==
  ASSUME NEW s \in Seq(M!Entries)
  PROVE \E g \in [0..Len(s) -> Int] : Totals(s, g)
<1> DEFINE Good(n) == \E g \in [0..n -> Int] : g[0] = 0 /\ \A i \in 1..n : g[i] = g[i-1] + s[i].move
<1> DEFINE T == {n \in 0..Len(s) : ~Good(n)}
<1>1. Good(0)
  <2> DEFINE g == [i \in 0..0 |-> 0]
  <2>1. g \in [0..0 -> Int] /\ g[0] = 0 /\ \A i \in 1..0 : g[i] = g[i-1] + s[i].move
    OBVIOUS
  <2> QED BY <2>1
<1>2. ASSUME NEW n \in 1..Len(s), Good(n-1) PROVE Good(n)
  <2>1. PICK g \in [0..n-1 -> Int] : g[0] = 0 /\ \A i \in 1..n-1 : g[i] = g[i-1] + s[i].move
    BY <1>2
  <2> DEFINE h == [i \in 0..n |-> IF i = n THEN g[n-1] + s[n].move ELSE g[i]]
  <2>2. s[n].move \in Int
    <3>1. s[n] \in M!Entries
      OBVIOUS
    <3> QED BY <3>1 DEF M!Entries
  <2>3. h \in [0..n -> Int]
    BY <2>1, <2>2
  <2>4. h[0] = 0
    BY <2>1
  <2>5. ASSUME NEW i \in 1..n PROVE h[i] = h[i-1] + s[i].move
    <3>1. CASE i = n
      BY <3>1
    <3>2. CASE i < n
      BY <3>2, <2>1
    <3> QED BY <3>1, <3>2
  <2> HIDE DEF h
  <2> QED BY <2>3, <2>4, <2>5
<1>3. T = {}
  <2> SUFFICES ASSUME T # {} PROVE FALSE
    OBVIOUS
  <2> HIDE DEF Good
  <2>0. T \subseteq Nat
    OBVIOUS
  <2>1. PICK n \in T : \A y \in T : n <= y
    <3> HIDE DEF T
    <3> QED BY <2>0, Least
  <2>2. n # 0 BY <1>1
  <2>3. n - 1 \in 0..Len(s) /\ n - 1 \notin T
    BY <2>1, <2>2
  <2> QED BY <1>2, <2>1, <2>2, <2>3
<1>4. Good(Len(s))
  <2> HIDE DEF Good
  <2>1. Len(s) \in 0..Len(s)
    OBVIOUS
  <2> QED BY <1>3, <2>1
<1> QED BY <1>4 DEF Totals

\* They are unique.
LEMMA TotalsUnique ==
  ASSUME NEW s \in Seq(M!Entries), NEW g, NEW h, Totals(s, g), Totals(s, h)
  PROVE g = h
<1> DEFINE T == {n \in 0..Len(s) : g[n] # h[n]}
<1>1. T = {}
  <2> SUFFICES ASSUME T # {} PROVE FALSE
    OBVIOUS
  <2>0. T \subseteq Nat
    OBVIOUS
  <2>1. PICK n \in T : \A y \in T : n <= y
    <3> HIDE DEF T
    <3> QED BY <2>0, Least
  <2>2. n # 0 BY DEF Totals
  <2>3. n - 1 \in 0..Len(s) /\ n - 1 \notin T
    BY <2>1, <2>2
  <2>4. g[n - 1] = h[n - 1] /\ g[n] # h[n] /\ n \in 1..Len(s)
    BY <2>1, <2>2, <2>3
  <2>5. g[n] = g[n - 1] + s[n].move /\ h[n] = h[n - 1] + s[n].move
    BY <2>4 DEF Totals
  <2> QED BY <2>4, <2>5
<1>2. \A n \in 0..Len(s) : g[n] = h[n]
  BY <1>1
<1>3. g = [i \in 0..Len(s) |-> g[i]] /\ h = [i \in 0..Len(s) |-> h[i]]
  BY DEF Totals
<1> QED BY <1>2, <1>3

\* The movement of a queue is its last total.
LEMMA SumTotal ==
  ASSUME NEW s \in Seq(M!Entries)
  PROVE  \E g \in [0..Len(s) -> Int] : Totals(s, g) /\ M!Sum(s) = g[Len(s)]
<1> DEFINE D(f) == [i \in 0..Len(s) |-> IF i = 0 THEN 0 ELSE f[i - 1] + s[i].move]
           total == CHOOSE f : f = D(f)
<1>1. M!Sum(s) = total[Len(s)]
  BY DEF M!Sum
<1>2. PICK g \in [0..Len(s) -> Int] : Totals(s, g)
  BY TotalsExist
<1>3. \A f : f = D(f) <=> Totals(s, f)
  BY DEF Totals
<1>4. total = D(total)
  <2> HIDE DEF D
  <2>1. \E f : f = D(f)
    BY <1>2, <1>3
  <2> QED BY <2>1, Zenon
<1>5. total = g
  <2> HIDE DEF total, D
  <2>1. Totals(s, total)
    BY <1>3, <1>4
  <2> QED BY <2>1, <1>2, TotalsUnique
<1> QED BY <1>1, <1>2, <1>5

\* So is the last of any totals that are found.
LEMMA SumIs ==
  ASSUME NEW s \in Seq(M!Entries), NEW g, Totals(s, g)
  PROVE  M!Sum(s) = g[Len(s)]
BY SumTotal, TotalsUnique

\* The movement of a queue is a number.
LEMMA SumType ==
  ASSUME NEW s \in Seq(M!Entries)
  PROVE  M!Sum(s) \in Int
<1>1. Len(s) \in 0..Len(s)
  OBVIOUS
<1> QED BY <1>1, SumTotal

\* Nothing waits in an empty queue.
LEMMA SumEmpty == M!Sum(<<>>) = 0
<1>1. <<>> \in Seq(M!Entries) /\ Len(<<>>) = 0
  OBVIOUS
<1> QED BY <1>1, SumTotal DEF Totals

\* The parts of an entry.
LEMMA EntryType ==
  ASSUME NEW s \in Seq(M!Entries), NEW i \in 1..Len(s)
  PROVE  s[i] \in M!Entries /\ s[i].move \in Int /\ s[i].buttons \in ClickStates
<1>1. s[i] \in M!Entries
  OBVIOUS
<1> QED BY <1>1 DEF M!Entries

\* An entry adds its movement.
LEMMA SumAppend ==
  ASSUME NEW s \in Seq(M!Entries), NEW e \in M!Entries
  PROVE  M!Sum(Append(s, e)) = M!Sum(s) + e.move
<1> DEFINE t == Append(s, e)
           n == Len(s)
<1>1. PICK g \in [0..n -> Int] : Totals(s, g) /\ M!Sum(s) = g[n]
  BY SumTotal
<1> DEFINE h == [i \in 0..n + 1 |-> IF i = n + 1 THEN g[n] + e.move ELSE g[i]]
<1>2. t \in Seq(M!Entries) /\ Len(t) = n + 1 /\ t[n + 1] = e /\ \A i \in 1..n : t[i] = s[i]
  OBVIOUS
<1>3. h = [i \in 0..Len(t) |-> h[i]] /\ h[0] = 0
  BY <1>1, <1>2 DEF Totals
<1>4. ASSUME NEW i \in 1..Len(t)
      PROVE  h[i] = h[i - 1] + t[i].move
  <2>1. CASE i = n + 1
    BY <1>2, <2>1
  <2>2. CASE i <= n
    <3>1. i \in 1..n /\ i - 1 # n + 1 /\ i # n + 1 /\ i \in 0..n + 1 /\ i - 1 \in 0..n + 1
      BY <1>2, <2>2
    <3>2. g[i] = g[i - 1] + s[i].move /\ t[i] = s[i]
      BY <1>1, <1>2, <3>1 DEF Totals
    <3> QED BY <3>1, <3>2
  <2> QED BY <1>2, <2>1, <2>2
<1>5. h[n + 1] = g[n] + e.move
  OBVIOUS
<1> HIDE DEF t, h
<1>6. Totals(t, h)
  BY <1>3, <1>4 DEF Totals
<1>7. M!Sum(t) = h[n + 1]
  BY <1>2, <1>6, SumIs
<1> QED BY <1>1, <1>5, <1>7 DEF t

\* A head that is taken off takes its movement along.
LEMMA SumTail ==
  ASSUME NEW s \in Seq(M!Entries), s # <<>>
  PROVE  M!Sum(Tail(s)) = M!Sum(s) - s[1].move
<1> DEFINE t == Tail(s)
           n == Len(s)
<1>1. PICK g \in [0..n -> Int] : Totals(s, g) /\ M!Sum(s) = g[n]
  BY SumTotal
<1> DEFINE h == [i \in 0..n - 1 |-> g[i + 1] - g[1]]
<1>2. n \in Nat \ {0} /\ t \in Seq(M!Entries) /\ Len(t) = n - 1 /\ \A i \in 1..n - 1 : t[i] = s[i + 1]
  OBVIOUS
<1>3. \A i \in 0..n : g[i] \in Int
  BY <1>1
<1>4. g[1] = s[1].move
  <2>1. s[1].move \in Int
    BY <1>2, EntryType
  <2>2. g[1] = g[0] + s[1].move /\ g[0] = 0
    BY <1>1, <1>2 DEF Totals
  <2> QED BY <2>1, <2>2
<1>5. h = [i \in 0..Len(t) |-> h[i]] /\ h[0] = 0
  <2>1. 0 \in 0..n - 1 /\ 1 \in 0..n
    BY <1>2
  <2>2. h[0] = g[1] - g[1]
    BY <2>1
  <2>3. h[0] = 0
    BY <1>3, <2>1, <2>2
  <2> QED BY <1>2, <2>3
<1>6. ASSUME NEW i \in 1..Len(t)
      PROVE  h[i] = h[i - 1] + t[i].move
  <2>1. g[i + 1] = g[i] + s[i + 1].move
    <3>1. i + 1 \in 1..n /\ (i + 1) - 1 = i
      BY <1>2
    <3>2. g[i + 1] = g[(i + 1) - 1] + s[i + 1].move
      BY <1>1, <3>1 DEF Totals
    <3> QED BY <3>1, <3>2
  <2>2. s[i + 1].move \in Int
    BY <1>2, EntryType
  <2>3. h[i] = g[i + 1] - g[1] /\ h[i - 1] = g[i] - g[1]
    BY <1>2
  <2>4. g[i] \in Int /\ g[i + 1] \in Int /\ g[1] \in Int
    BY <1>2, <1>3
  <2> QED BY <1>2, <2>1, <2>2, <2>3, <2>4
<1>7. h[n - 1] = g[n] - g[1]
  BY <1>2
<1> HIDE DEF t, h
<1>8. Totals(t, h)
  BY <1>5, <1>6 DEF Totals
<1>9. M!Sum(t) = h[n - 1]
  BY <1>2, <1>8, SumIs
<1> QED BY <1>1, <1>4, <1>7, <1>9 DEF t

\* An entry that is given another movement changes the sum by the difference.
LEMMA SumMoving ==
  ASSUME NEW s \in Seq(M!Entries), NEW k \in 1..Len(s), NEW v \in Int
  PROVE  /\ M!Moving(s, k, v) \in Seq(M!Entries) /\ Len(M!Moving(s, k, v)) = Len(s)
         /\ M!Sum(M!Moving(s, k, v)) = M!Sum(s) - s[k].move + v
         /\ \A i \in 1..Len(s) :
              /\ M!Moving(s, k, v)[i].buttons = s[i].buttons
              /\ M!Moving(s, k, v)[i].move = IF i = k THEN v ELSE s[i].move
<1> DEFINE t == M!Moving(s, k, v)
           n == Len(s)
           e == [buttons |-> s[k].buttons, move |-> v]
<1>1. PICK g \in [0..n -> Int] : Totals(s, g) /\ M!Sum(s) = g[n]
  BY SumTotal
<1>2. e \in M!Entries /\ e.buttons = s[k].buttons /\ e.move = v
  BY EntryType DEF M!Entries
<1>3. t = [s EXCEPT ![k] = e]
  BY DEF M!Moving
<1> HIDE DEF e, t
<1>4. t \in Seq(M!Entries) /\ Len(t) = n /\ t[k] = e /\ \A i \in 1..n : i # k => t[i] = s[i]
  BY <1>2, <1>3
<1>5. ASSUME NEW i \in 1..n
      PROVE  /\ t[i].buttons = s[i].buttons
             /\ t[i].move = IF i = k THEN v ELSE s[i].move
  BY <1>2, <1>4
<1>6. s[k].move \in Int
  BY EntryType
<1> DEFINE h == [i \in 0..n |-> IF i < k THEN g[i] ELSE g[i] - s[k].move + v]
<1>7. h = [i \in 0..Len(t) |-> h[i]] /\ h[0] = 0 /\ h[n] = g[n] - s[k].move + v
  <2>1. k > 0 /\ n \in Nat /\ k <= n /\ g[0] = 0
    BY <1>1 DEF Totals
  <2>2. h[0] = g[0]
    BY <2>1
  <2>3. h[n] = g[n] - s[k].move + v
    BY <2>1
  <2>4. h = [i \in 0..Len(t) |-> h[i]]
    BY <1>4
  <2> QED BY <2>1, <2>2, <2>3, <2>4
<1>8. ASSUME NEW i \in 1..Len(t)
      PROVE  h[i] = h[i - 1] + t[i].move
  <2>0. i \in 1..n /\ i - 1 \in 0..n /\ i \in 0..n
    BY <1>4
  <2>1. g[i] = g[i - 1] + s[i].move /\ g[i] \in Int /\ g[i - 1] \in Int
    BY <1>1, <2>0 DEF Totals
  <2>2. s[i].move \in Int
    BY <2>0, EntryType
  <2>3. t[i].move = IF i = k THEN v ELSE s[i].move
    BY <1>5, <2>0
  <2>4. /\ h[i] = IF i < k THEN g[i] ELSE g[i] - s[k].move + v
        /\ h[i - 1] = IF i - 1 < k THEN g[i - 1] ELSE g[i - 1] - s[k].move + v
    BY <2>0
  <2> HIDE DEF h
  <2>5. CASE i < k
    <3>1. i # k /\ i - 1 < k
      BY <2>0, <2>5
    <3> QED BY <2>1, <2>3, <2>4, <2>5, <3>1
  <2>6. CASE i = k
    <3>1. h[i] = g[i] - s[i].move + v /\ h[i - 1] = g[i - 1] /\ t[i].move = v
      BY <2>0, <2>3, <2>4, <2>6
    <3> QED BY <2>1, <2>2, <3>1
  <2>7. CASE i > k
    <3>1. ~(i < k) /\ ~(i - 1 < k) /\ i # k
      BY <2>0, <2>7
    <3>2. h[i] = g[i] - s[k].move + v /\ h[i - 1] = g[i - 1] - s[k].move + v /\ t[i].move = s[i].move
      BY <2>3, <2>4, <3>1
    <3>3. (g[i - 1] + s[i].move) - s[k].move + v = (g[i - 1] - s[k].move + v) + s[i].move
      <4>1. g[i - 1] \in Int
        BY <2>1
      <4>2. s[i].move \in Int
        BY <2>2
      <4>3. s[k].move \in Int
        BY <1>6
      <4>4. v \in Int
        OBVIOUS
      <4>5. ASSUME NEW a \in Int, NEW x \in Int, NEW c \in Int
            PROVE  (a + x) - c + v = (a - c + v) + x
        OBVIOUS
      <4> HIDE DEF n
      <4> QED BY <4>1, <4>2, <4>3, <4>5
    <3> QED BY <2>1, <3>2, <3>3
  <2> QED BY <2>0, <2>5, <2>6, <2>7
<1> HIDE DEF h
<1>9. Totals(t, h)
  BY <1>7, <1>8 DEF Totals
<1>10. M!Sum(t) = h[n]
  BY <1>4, <1>9, SumIs
<1> QED BY <1>1, <1>5, <1>4, <1>7, <1>10 DEF t

-----------------------------------------------------------------------------
(* Numbers: division, bounds and the limit of an entry.                    *)

\* What is assumed of the constants.
LEMMA MouseConstants ==
  /\ 0 \in ClickStates /\ Packet \in Nat \ {0} /\ Unit \in Nat \ {0} /\ QueueSize \in Nat \ {0}
  /\ Deltas \subseteq Int /\ Speeds \subseteq Nat /\ Unit \in Speeds /\ NoReport \notin M!Reports
BY MouseAssumption

\* An absolute value is one of two numbers.
LEMMA AbsFacts ==
  \A n \in Int : M!Abs(n) \in Nat /\ (M!Abs(n) = n \/ M!Abs(n) = -n)
BY DEF M!Abs

\* Division of natural numbers.
LEMMA DivFacts ==
  ASSUME NEW n \in Nat, NEW d \in Nat \ {0}
  PROVE  n \div d \in Nat /\ d * (n \div d) <= n /\ n - d * (n \div d) < d
OBVIOUS

\* A quotient and its remainder are the number, to less than a divisor.
LEMMA QuotientFacts ==
  ASSUME NEW n \in Int, NEW d \in Nat \ {0}
  PROVE  /\ M!Quotient(n, d) \in Int /\ M!Remainder(n, d) \in Int
         /\ n = d * M!Quotient(n, d) + M!Remainder(n, d)
         /\ M!Abs(M!Remainder(n, d)) < d
         /\ n = 0 => M!Quotient(n, d) = 0 /\ M!Remainder(n, d) = 0
<1> DEFINE a == M!Abs(n)
           q == a \div d
<1>1. a \in Nat /\ q \in Nat /\ d * q <= a /\ a - d * q < d /\ d * q \in Nat
  <2>1. a \in Nat
    BY AbsFacts
  <2> HIDE DEF a
  <2>2. q \in Nat /\ d * q <= a /\ a - d * q < d
    BY <2>1, DivFacts
  <2> QED BY <2>1, <2>2
<1>2. n = 0 => q = 0
  BY <1>1 DEF M!Abs
<1>3. CASE n < 0
  <2>1. M!Quotient(n, d) = -q /\ a = -n
    BY <1>3 DEF M!Quotient, M!Abs
  <2>2. d * (-q) = -(d * q)
    BY <1>1
  <2>3. M!Remainder(n, d) = n + d * q
    BY <1>1, <2>1, <2>2 DEF M!Remainder
  <2> HIDE DEF q, a
  <2>4. M!Remainder(n, d) <= 0 /\ M!Remainder(n, d) \in Int
    BY <1>1, <2>1, <2>3
  <2>5. M!Abs(M!Remainder(n, d)) < d
    BY <1>1, <2>1, <2>3, <2>4 DEF M!Abs
  <2> QED BY <1>1, <1>3, <2>1, <2>2, <2>3, <2>4, <2>5
<1>4. CASE n >= 0
  <2>1. M!Quotient(n, d) = q /\ a = n
    BY <1>4 DEF M!Quotient, M!Abs
  <2>2. M!Remainder(n, d) = n - d * q
    BY <1>1, <2>1 DEF M!Remainder
  <2> HIDE DEF q, a
  <2>3. M!Remainder(n, d) >= 0 /\ M!Remainder(n, d) \in Int
    BY <1>1, <2>1, <2>2
  <2>4. M!Abs(M!Remainder(n, d)) < d
    BY <1>1, <2>1, <2>2, <2>3 DEF M!Abs
  <2>5. n = 0 => d * q = 0
    BY <1>2
  <2> QED BY <1>1, <1>2, <2>1, <2>2, <2>3, <2>4, <2>5
<1> QED BY <1>3, <1>4

\* A clamped number has its bound, and is the number where that has it.
LEMMA ClampedFacts ==
  ASSUME NEW n \in Int, NEW l \in Nat
  PROVE  /\ M!Clamped(n, l) \in -l..l /\ M!Abs(M!Clamped(n, l)) <= l
         /\ M!Abs(n) <= l => M!Clamped(n, l) = n
         /\ n - M!Clamped(n, l) \in Int /\ M!Abs(n - M!Clamped(n, l)) <= M!Abs(n)
         /\ n = 0 => M!Clamped(n, l) = 0
BY DEF M!Clamped, M!Abs

\* The limit of an entry is that of one of the speeds.
LEMMA LimitFacts ==
  ASSUME speed \in Speeds
  PROVE  M!Limit \in Nat /\ \E s \in Speeds : M!Limit * Unit <= 2 * Packet * s
<1> DEFINE scaled == (2 * Packet * speed) \div Unit
<1>0. speed \in Nat /\ Packet \in Nat /\ Unit \in Nat \ {0} /\ Unit \in Speeds
  BY MouseConstants
<1>1. 2 * Packet \in Nat /\ 2 * Packet * speed \in Nat
  BY <1>0
<1>2. scaled \in Nat /\ Unit * scaled <= 2 * Packet * speed
  BY <1>0, <1>1, DivFacts
<1>3. M!Limit = IF scaled > 2 * Packet THEN scaled ELSE 2 * Packet
  BY DEF M!Limit
<1> HIDE DEF scaled
<1>4. CASE scaled > 2 * Packet
  BY <1>0, <1>1, <1>2, <1>3, <1>4
<1>5. CASE ~(scaled > 2 * Packet)
  BY <1>0, <1>1, <1>3, <1>5
<1> QED BY <1>4, <1>5

-----------------------------------------------------------------------------
(* What the operators do to a slot, the report of it and what both owe.    *)

\* A slot as the code keeps it.
SlotOK(m) ==
  /\ m \in [buttons : ClickStates, dirty : BOOLEAN, queue : Seq(M!Entries), rest : Int]
  /\ Len(m.queue) <= QueueSize
  /\ \A i \in 1..Len(m.queue) :
       \E s \in Speeds : M!Abs(m.queue[i].move) * Unit <= 2 * Packet * s
  /\ M!Abs(m.rest) < Unit
  /\ \A i \in 2..Len(m.queue) : m.queue[i].buttons # m.queue[i - 1].buttons
  /\ m.queue # <<>> => M!Newest(m.queue).buttons = m.buttons

\* The output path has one report at most.
PathOK(o) == o \in M!Reports \cup {NoReport}

\* Nothing is owed to a computer that sees b.
Rests(m, o, b) == m.queue = <<>> /\ ~m.dirty => M!Seen(o, b) = m.buttons

\* Nothing waits that could move the pointer.
StillAt(m, o) ==
  /\ m.rest = 0 /\ \A i \in 1..Len(m.queue) : m.queue[i].move = 0
  /\ o # NoReport /\ o.at = "queued" => o.move = 0

\* A cleared slot moves nothing and has the release to send.
LEMMA ClearedFacts ==
  /\ SlotOK(M!Cleared) /\ StillAt(M!Cleared, NoReport) /\ M!Cleared.dirty /\ M!Cleared.queue = <<>>
  /\ M!Cleared.buttons = 0
<1>1. <<>> \in Seq(M!Entries) /\ Len(<<>>) = 0
  OBVIOUS
<1>2. M!Abs(0) < Unit
  BY MouseConstants DEF M!Abs
<1> QED BY <1>1, <1>2, MouseConstants DEF SlotOK, StillAt, M!Cleared

\* The parts of a slot.
LEMMA SlotTypes ==
  ASSUME NEW m, SlotOK(m)
  PROVE  /\ m.queue \in Seq(M!Entries) /\ m.rest \in Int /\ m.buttons \in ClickStates /\ m.dirty \in BOOLEAN
         /\ M!Sum(m.queue) \in Int /\ Len(m.queue) \in Nat
BY SumType DEF SlotOK

\* The report of a slot and what it leaves.
LEMMA ReportFacts ==
  ASSUME NEW m, SlotOK(m)
  PROVE  /\ M!Queued(m) \in M!Reports /\ M!Queued(m) # NoReport
         /\ M!Queued(m).buttons = M!Report(m).buttons /\ M!Queued(m).move = M!Report(m).move
         /\ M!Queued(m).at = "queued"
         /\ m.queue = <<>> => M!Report(m).buttons = m.buttons /\ M!Report(m).move = 0
         /\ m.queue # <<>> =>
              /\ M!Report(m).buttons = m.queue[1].buttons
              /\ M!Report(m).move = M!Clamped(m.queue[1].move, Packet)
<1>0. m.queue \in Seq(M!Entries) /\ m.buttons \in ClickStates
  BY SlotTypes
<1>1. m.queue # <<>> => 1 \in 1..Len(m.queue) /\ Head(m.queue) = m.queue[1]
  BY <1>0
<1>2. m.queue # <<>> => m.queue[1].buttons \in ClickStates /\ m.queue[1].move \in Int
  BY <1>0, <1>1, EntryType
<1>3. M!Report(m).buttons \in ClickStates /\ M!Report(m).move \in -Packet..Packet
  <2>1. CASE m.queue = <<>>
    <3>1. 0 \in -Packet..Packet
      BY MouseConstants
    <3> QED BY <1>0, <2>1, <3>1 DEF M!Report
  <2>2. CASE m.queue # <<>>
    <3>1. Packet \in Nat
      BY MouseConstants
    <3>2. M!Clamped(m.queue[1].move, Packet) \in -Packet..Packet
      BY <1>2, <2>2, <3>1, ClampedFacts
    <3> QED BY <1>1, <1>2, <2>2, <3>2 DEF M!Report
  <2> QED BY <2>1, <2>2
<1>4. M!Queued(m) \in M!Reports
  BY <1>3 DEF M!Queued, M!Reports
<1> QED BY <1>1, <1>4, MouseConstants DEF M!Queued, M!Report


\* The states of the buttons of a queue.
States(q) == [i \in DOMAIN q |-> q[i].buttons]

\* The states of a queue, and those of its tail.
LEMMA StatesFacts ==
  ASSUME NEW q \in Seq(M!Entries)
  PROVE  /\ States(q) \in Seq(ClickStates) /\ Len(States(q)) = Len(q)
         /\ \A i \in 1..Len(q) : States(q)[i] = q[i].buttons
         /\ q # <<>> => States(q) # <<>> /\ Tail(States(q)) = States(Tail(q))
                        /\ Head(States(q)) = q[1].buttons
         /\ \A k \in 1..Len(q), v \in Int : States(M!Moving(q, k, v)) = States(q)
         /\ \A e \in M!Entries : States(Append(q, e)) = Append(States(q), e.buttons)
<1>1. \A i \in 1..Len(q) : q[i].buttons \in ClickStates
  BY EntryType
<1>2. States(q) \in Seq(ClickStates) /\ Len(States(q)) = Len(q) /\ \A i \in 1..Len(q) : States(q)[i] = q[i].buttons
  BY <1>1 DEF States
<1>3. ASSUME q # <<>>
      PROVE  /\ States(q) # <<>> /\ Tail(States(q)) = States(Tail(q)) /\ Head(States(q)) = q[1].buttons
  <2>1. Len(q) >= 1 /\ Tail(q) \in Seq(M!Entries) /\ Len(Tail(q)) = Len(q) - 1
        /\ \A i \in 1..Len(q) - 1 : Tail(q)[i] = q[i + 1]
    BY <1>3
  <2>2. Len(States(q)) >= 1 /\ 1 \in 1..Len(q)
    BY <1>2, <2>1
  <2>3. /\ Tail(States(q)) \in Seq(ClickStates) /\ Len(Tail(States(q))) = Len(q) - 1
        /\ \A i \in 1..Len(q) - 1 : Tail(States(q))[i] = States(q)[i + 1]
    BY <1>2, <2>1
  <2>4. /\ States(Tail(q)) = [i \in 1..Len(q) - 1 |-> Tail(q)[i].buttons]
    BY <2>1 DEF States
  <2>5. \A i \in 1..Len(q) - 1 : Tail(States(q))[i] = Tail(q)[i].buttons
    BY <1>2, <2>1, <2>3
  <2>6. Tail(States(q)) = [i \in 1..Len(q) - 1 |-> Tail(States(q))[i]]
    <3> DEFINE t == Tail(States(q))
    <3>1. t \in Seq(ClickStates) /\ Len(t) = Len(q) - 1
      BY <2>3
    <3> HIDE DEF t
    <3>2. t = [i \in 1..Len(q) - 1 |-> t[i]]
      BY <3>1
    <3> QED BY <3>2 DEF t
  <2>7. Head(States(q)) = States(q)[1]
    BY <1>2, <2>2
  <2>8. States(q) # <<>>
    BY <2>2
  <2> QED BY <1>2, <2>2, <2>4, <2>5, <2>6, <2>7, <2>8
<1>4. ASSUME NEW k \in 1..Len(q), NEW v \in Int
      PROVE  States(M!Moving(q, k, v)) = States(q)
  BY SumMoving DEF States
<1>5. ASSUME NEW e \in M!Entries
      PROVE  States(Append(q, e)) = Append(States(q), e.buttons)
  <2>1. e.buttons \in ClickStates
    BY DEF M!Entries
  <2>2. /\ Len(Append(q, e)) = Len(q) + 1 /\ Append(q, e)[Len(q) + 1] = e
        /\ \A i \in 1..Len(q) : Append(q, e)[i] = q[i]
    OBVIOUS
  <2> DEFINE t == Append(States(q), e.buttons)
  <2>3. /\ t \in Seq(ClickStates) /\ Len(t) = Len(q) + 1 /\ t[Len(q) + 1] = e.buttons
        /\ \A i \in 1..Len(q) : t[i] = q[i].buttons
    BY <1>2, <2>1
  <2>4. t = [i \in 1..Len(q) + 1 |-> t[i]]
    BY <2>3
  <2> HIDE DEF t
  <2>5. States(Append(q, e)) = [i \in 1..Len(q) + 1 |-> Append(q, e)[i].buttons]
    BY <2>2 DEF States
  <2>6. \A i \in 1..Len(q) + 1 : t[i] = Append(q, e)[i].buttons
    BY <2>2, <2>3
  <2>7. States(Append(q, e)) = t
    BY <2>4, <2>5, <2>6
  <2> QED BY <2>7 DEF t
<1> QED BY <1>2, <1>3, <1>4, <1>5

\* What a slot still tells of the buttons.
LEMMA ToldFacts ==
  ASSUME NEW m, SlotOK(m), NEW b
  PROVE  /\ M!Told(m, b) \in Seq(ClickStates)
         /\ m.queue = <<>> => M!Told(m, b) = IF m.dirty /\ m.buttons # b THEN <<m.buttons>> ELSE <<>>
         /\ m.queue # <<>> => M!Told(m, b) = IF m.queue[1].buttons = b THEN Tail(States(m.queue))
                                            ELSE States(m.queue)
<1>1. m.queue \in Seq(M!Entries) /\ m.buttons \in ClickStates
  BY SlotTypes
<1>2. m.queue = <<>> => M!Told(m, b) = IF m.dirty /\ m.buttons # b THEN <<m.buttons>> ELSE <<>>
  BY DEF M!Told
<1>3. m.queue # <<>> => M!Told(m, b) = IF m.queue[1].buttons = b THEN Tail(States(m.queue))
                                     ELSE States(m.queue)
  <2>3. m.queue # <<>> => M!Told(m, b) = IF Head(States(m.queue)) = b THEN Tail(States(m.queue))
                                       ELSE States(m.queue)
    BY DEF M!Told, States
  <2>4. m.queue # <<>> => Head(States(m.queue)) = m.queue[1].buttons
    BY <1>1, StatesFacts
  <2> QED BY <2>3, <2>4
<1>4. M!Told(m, b) \in Seq(ClickStates)
  <2>1. CASE m.queue = <<>>
    <3>1. <<m.buttons>> \in Seq(ClickStates) /\ <<>> \in Seq(ClickStates)
      BY <1>1
    <3> QED BY <1>2, <2>1, <3>1
  <2>2. CASE m.queue # <<>>
    <3>1. States(m.queue) \in Seq(ClickStates) /\ States(m.queue) # <<>>
      BY <1>1, <2>2, StatesFacts
    <3>2. Tail(States(m.queue)) \in Seq(ClickStates)
      BY <3>1
    <3> QED BY <1>3, <2>2, <3>1, <3>2
  <2> QED BY <2>1, <2>2
<1> QED BY <1>2, <1>3, <1>4


\* The report of a slot, sent, and what it leaves are what the slot was.
LEMMA SentFacts ==
  ASSUME NEW m, SlotOK(m), m.queue # <<>> \/ m.dirty, NEW b
  PROVE  /\ SlotOK(M!Sent(m)) /\ M!Sent(m).buttons = m.buttons
         /\ M!Owing(M!Sent(m), M!Queued(m)) = M!Owing(m, NoReport)
         /\ M!Coming(M!Sent(m), M!Queued(m), b) = M!Coming(m, NoReport, b)
         /\ Rests(M!Sent(m), M!Queued(m), b)
         /\ StillAt(m, NoReport) => StillAt(M!Sent(m), M!Queued(m))
<1> DEFINE q == m.queue
           r == M!Queued(m)
           l == M!Sent(m)
<1>1. /\ q \in Seq(M!Entries) /\ m.rest \in Int /\ m.buttons \in ClickStates /\ m.dirty \in BOOLEAN
      /\ M!Sum(q) \in Int /\ Len(q) \in Nat
  BY SlotTypes
<1>2. r # NoReport /\ r.at = "queued" /\ M!Seen(NoReport, b) = b /\ M!Seen(r, b) = r.buttons
  BY ReportFacts DEF M!Seen
<1>3. M!Coming(m, NoReport, b) = M!Told(m, b)
  <2>1. M!Told(m, b) \in Seq(ClickStates)
    BY ToldFacts
  <2>2. M!Coming(m, NoReport, b) = <<>> \o M!Told(m, b)
    BY <1>2 DEF M!Coming
  <2> QED BY <2>1, <2>2
<1>4. M!Coming(l, r, b) = (IF r.buttons = b THEN <<>> ELSE <<r.buttons>>) \o M!Told(l, r.buttons)
  BY <1>2 DEF M!Coming
<1>5. CASE q = <<>>
  <2>1. l = [m EXCEPT !.dirty = FALSE] /\ m.dirty
    BY <1>5 DEF M!Sent
  <2>2. /\ l \in [buttons : ClickStates, dirty : BOOLEAN, queue : Seq(M!Entries), rest : Int]
        /\ l.queue = q /\ l.rest = m.rest /\ l.buttons = m.buttons /\ ~l.dirty
    BY <2>1 DEF SlotOK
  <2>3. SlotOK(l)
    BY <2>2 DEF SlotOK
  <2>4. r.buttons = m.buttons /\ r.move = 0
    BY <1>5, ReportFacts
  <2>5. M!Owing(l, r) = M!Owing(m, NoReport)
    BY <1>1, <1>2, <2>2, <2>4, MouseConstants DEF M!Owing
  <2>6. M!Told(l, r.buttons) = <<>> /\ M!Told(m, b) = IF m.buttons # b THEN <<m.buttons>> ELSE <<>>
    BY <1>5, <2>1, <2>2, <2>3, ToldFacts
  <2>7. M!Coming(l, r, b) = M!Coming(m, NoReport, b)
    <3>1. M!Coming(l, r, b) = (IF m.buttons = b THEN <<>> ELSE <<m.buttons>>) \o <<>>
      BY <1>4, <2>4, <2>6
    <3>2. <<m.buttons>> \o <<>> = <<m.buttons>> /\ <<>> \o <<>> = <<>>
      BY <1>1
    <3> QED BY <1>3, <2>6, <3>1, <3>2
  <2>8. Rests(l, r, b)
    BY <1>2, <2>2, <2>4 DEF Rests
  <2>9. StillAt(m, NoReport) => StillAt(l, r)
    BY <2>2, <2>4 DEF StillAt
  <2> QED BY <2>2, <2>3, <2>5, <2>7, <2>8, <2>9
<1>6. CASE q # <<>>
  <2> DEFINE v == q[1].move - r.move
             left == M!Left(m)
  <2>1. l = [m EXCEPT !.queue = left, !.dirty = left # <<>>]
    BY <1>6 DEF M!Sent
  <2>2. /\ 1 \in 1..Len(q) /\ Head(q) = q[1] /\ q[1].move \in Int
        /\ r.buttons = q[1].buttons /\ r.move = M!Clamped(q[1].move, Packet) /\ r.move = M!Report(m).move
    <3>1. 1 \in 1..Len(q) /\ Head(q) = q[1]
      BY <1>1, <1>6
    <3> QED BY <1>1, <1>6, <3>1, EntryType, ReportFacts
  <2>3. r.move \in Int /\ v \in Int /\ M!Abs(v) <= M!Abs(q[1].move) /\ (q[1].move = 0 => r.move = 0)
    <3>1. q[1].move \in Int /\ Packet \in Nat
      BY <2>2, MouseConstants
    <3> DEFINE c == M!Clamped(q[1].move, Packet)
    <3>2. /\ c \in -Packet..Packet /\ q[1].move - c \in Int /\ M!Abs(q[1].move - c) <= M!Abs(q[1].move)
          /\ q[1].move = 0 => c = 0
      BY <3>1, ClampedFacts
    <3> HIDE DEF c
    <3>3. r.move = c /\ v = q[1].move - c
      BY <2>2 DEF c
    <3>4. c \in Int
      BY <3>1, <3>2
    <3> QED BY <3>2, <3>3, <3>4
  <2> HIDE DEF r
  <2>4. left = IF q[1].move = r.move THEN Tail(q) ELSE M!Moving(q, 1, v)
    <3>1. M!Left(m) = IF Head(q).move = M!Report(m).move THEN Tail(q)
                    ELSE M!Moving(q, 1, Head(q).move - M!Report(m).move)
      BY DEF M!Left
    <3> QED BY <2>2, <3>1
  <2> HIDE DEF l, v
  <2>5. /\ left \in Seq(M!Entries) /\ Len(left) <= Len(q) /\ M!Sum(left) = M!Sum(q) - r.move
        /\ \A i \in 1..Len(left) : \E j \in 1..Len(q) : M!Abs(left[i].move) <= M!Abs(q[j].move)
        /\ \A i \in 2..Len(left) : left[i].buttons # left[i - 1].buttons
        /\ left # <<>> => M!Newest(left).buttons = m.buttons
        /\ left = <<>> => q[1].buttons = m.buttons
        /\ (left # <<>> => IF left[1].buttons = q[1].buttons
                           THEN Tail(States(left)) = Tail(States(q))
                           ELSE States(left) = Tail(States(q)))
        /\ left = <<>> => Tail(States(q)) = <<>>
        /\ (\A i \in 1..Len(q) : q[i].move = 0) => \A i \in 1..Len(left) : left[i].move = 0
    <3>1. M!Newest(q) = q[Len(q)] /\ M!Newest(q).buttons = m.buttons /\ M!Newest(left) = left[Len(left)]
      BY <1>6 DEF SlotOK, M!Newest
    <3>2. \A i \in 2..Len(q) : q[i].buttons # q[i - 1].buttons
      BY DEF SlotOK
    <3>3. CASE q[1].move = r.move
      <4>1. left = Tail(q)
        BY <2>4, <3>3
      <4>2. /\ left \in Seq(M!Entries) /\ Len(left) = Len(q) - 1
            /\ \A i \in 1..Len(left) : left[i] = q[i + 1]
        BY <1>1, <1>6, <4>1
      <4>3. M!Sum(left) = M!Sum(q) - r.move
        BY <1>1, <1>6, <3>3, <4>1, SumTail
      <4>4. States(left) = Tail(States(q))
        BY <1>1, <1>6, <4>1, StatesFacts
      <4>5. States(<<>>) = <<>>
        BY DEF States
      <4>6. \A i \in 1..Len(left) : M!Abs(left[i].move) \in Nat
        BY <4>2, EntryType, AbsFacts
      <4> HIDE DEF left, q
      <4>7. \A i \in 2..Len(left) : left[i].buttons # left[i - 1].buttons
        <5>1. TAKE i \in 2..Len(left)
        <5>2. i \in 1..Len(left) /\ i - 1 \in 1..Len(left) /\ i + 1 \in 2..Len(q) /\ (i - 1) + 1 = i
              /\ (i + 1) - 1 = i
          BY <1>1, <4>2
        <5>3. left[i] = q[i + 1] /\ left[i - 1] = q[i]
          BY <4>2, <5>2
        <5> QED BY <3>2, <5>2, <5>3
      <4>8. left # <<>> => left[Len(left)] = q[Len(q)] /\ left[1] = q[2] /\ 2 \in 2..Len(q)
        BY <1>1, <4>2
      <4>9. left = <<>> => Len(q) = 1
        BY <1>1, <4>2
      <4>10. left # <<>> => left[1].buttons # q[1].buttons
        BY <3>2, <4>8
      <4>11. \A i \in 1..Len(left) : i + 1 \in 1..Len(q) /\ left[i] = q[i + 1]
        BY <1>1, <4>2
      <4>12. \A i \in 1..Len(left) : \E j \in 1..Len(q) : M!Abs(left[i].move) <= M!Abs(q[j].move)
        BY <4>6, <4>11
      <4>13. (\A i \in 1..Len(q) : q[i].move = 0) => \A i \in 1..Len(left) : left[i].move = 0
        BY <4>11
      <4>14. Len(left) <= Len(q)
        BY <1>1, <4>2
      <4> QED BY <3>1, <4>2, <4>3, <4>4, <4>5, <4>7, <4>8, <4>9, <4>10, <4>12, <4>13, <4>14
    <3>4. CASE q[1].move # r.move
      <4>1. left = M!Moving(q, 1, v)
        BY <2>4, <3>4
      <4>2. /\ left \in Seq(M!Entries) /\ Len(left) = Len(q) /\ M!Sum(left) = M!Sum(q) - q[1].move + v
            /\ \A i \in 1..Len(q) : /\ left[i].buttons = q[i].buttons
                                    /\ left[i].move = IF i = 1 THEN v ELSE q[i].move
        BY <1>1, <2>2, <2>3, <4>1, SumMoving
      <4>3. M!Sum(left) = M!Sum(q) - r.move
        <5>1. v = q[1].move - r.move
          BY DEF v
        <5> QED BY <1>1, <2>2, <2>3, <4>2, <5>1
      <4>4. States(left) = States(q)
        BY <1>1, <2>2, <2>3, <4>1, StatesFacts
      <4>5. left # <<>>
        BY <1>1, <1>6, <4>2
      <4>6. \A i \in 1..Len(q) : q[i].move \in Int /\ M!Abs(q[i].move) \in Nat
        BY <1>1, EntryType, AbsFacts
      <4>7. M!Abs(v) \in Nat
        BY <2>3, AbsFacts
      <4> HIDE DEF left, q
      <4>8. \A i \in 1..Len(left) : M!Abs(left[i].move) <= M!Abs(q[i].move)
        BY <2>3, <4>2, <4>6, <4>7
      <4>9. \A i \in 2..Len(left) : left[i].buttons # left[i - 1].buttons
        <5>1. TAKE i \in 2..Len(left)
        <5>2. i \in 1..Len(q) /\ i - 1 \in 1..Len(q) /\ i \in 2..Len(q)
          BY <1>1, <4>2
        <5> QED BY <3>2, <4>2, <5>2
      <4>10. Len(q) \in 1..Len(q)
        BY <1>1, <2>2
      <4>11. (\A i \in 1..Len(q) : q[i].move = 0) => \A i \in 1..Len(left) : left[i].move = 0
        <5>1. q[1].move = 0 => v = 0
          BY <2>3, <2>2 DEF v
        <5> QED BY <2>2, <4>2, <5>1
      <4>12. \A i \in 1..Len(left) : \E j \in 1..Len(q) : M!Abs(left[i].move) <= M!Abs(q[j].move)
        BY <4>2, <4>8
      <4>13. left[Len(left)].buttons = q[Len(q)].buttons /\ left[1].buttons = q[1].buttons
        BY <2>2, <4>2, <4>10
      <4>14. Len(left) <= Len(q)
        BY <1>1, <4>2
      <4> QED BY <3>1, <4>2, <4>3, <4>4, <4>5, <4>9, <4>11, <4>12, <4>13, <4>14
    <3> QED BY <3>3, <3>4
  <2> HIDE DEF left
  <2>6. /\ l \in [buttons : ClickStates, dirty : BOOLEAN, queue : Seq(M!Entries), rest : Int]
        /\ l.queue = left /\ l.rest = m.rest /\ l.buttons = m.buttons /\ l.dirty = (left # <<>>)
    BY <1>1, <2>1, <2>5 DEF SlotOK
  <2>7. SlotOK(l)
    <3>1. ASSUME NEW i \in 1..Len(left)
          PROVE  \E s \in Speeds : M!Abs(left[i].move) * Unit <= 2 * Packet * s
      <4>1. PICK j \in 1..Len(q) : M!Abs(left[i].move) <= M!Abs(q[j].move)
        BY <2>5
      <4>2. PICK s \in Speeds : M!Abs(q[j].move) * Unit <= 2 * Packet * s
        BY DEF SlotOK
      <4>3. left[i].move \in Int /\ q[j].move \in Int
        BY <1>1, <2>5, EntryType
      <4>4. M!Abs(left[i].move) \in Nat /\ M!Abs(q[j].move) \in Nat /\ Unit \in Nat /\ 2 * Packet * s \in Nat
        <5>1. s \in Nat /\ Packet \in Nat /\ Unit \in Nat
          BY MouseConstants
        <5>2. 2 * Packet * s \in Nat
          BY <5>1
        <5> QED BY <4>3, <5>1, <5>2, AbsFacts
      <4>5. M!Abs(left[i].move) * Unit <= M!Abs(q[j].move) * Unit
        <5>1. ASSUME NEW x \in Nat, NEW y \in Nat, NEW u \in Nat, x <= y
              PROVE  x * u <= y * u
          BY <5>1
        <5>2. M!Abs(left[i].move) \in Nat
          BY <4>4
        <5>3. M!Abs(q[j].move) \in Nat
          BY <4>4
        <5>4. Unit \in Nat
          BY <4>4
        <5> QED BY <4>1, <5>1, <5>2, <5>3, <5>4
      <4>6. M!Abs(left[i].move) * Unit \in Nat /\ M!Abs(q[j].move) * Unit \in Nat
        BY <4>4
      <4>7. M!Abs(left[i].move) * Unit <= 2 * Packet * s
        BY <4>2, <4>4, <4>5, <4>6
      <4> QED BY <4>7
    <3>2. Len(left) <= QueueSize
      BY <1>1, <2>5, MouseConstants DEF SlotOK
    <3>3. M!Abs(m.rest) < Unit
      BY DEF SlotOK
    <3> QED BY <2>5, <2>6, <3>1, <3>2, <3>3 DEF SlotOK
  <2>8. M!Owing(l, r) = M!Owing(m, NoReport)
    <3>1. M!Owing(l, r) = m.rest + Unit * (M!Sum(left) + r.move) /\ M!Owing(m, NoReport) = m.rest + Unit * (M!Sum(q) + 0)
      BY <1>2, <2>6 DEF M!Owing
    <3>2. M!Sum(left) + r.move = M!Sum(q) + 0
      BY <1>1, <2>3, <2>5
    <3> QED BY <3>1, <3>2
  <2>9. M!Coming(l, r, b) = M!Coming(m, NoReport, b)
    <3>1. M!Told(l, q[1].buttons) = Tail(States(q))
      <4>1. CASE left = <<>>
        <5>1. M!Told(l, q[1].buttons) = <<>>
          BY <2>6, <2>7, <4>1, ToldFacts
        <5> QED BY <2>5, <4>1, <5>1
      <4>2. CASE left # <<>>
        <5>1. M!Told(l, q[1].buttons) = IF left[1].buttons = q[1].buttons THEN Tail(States(left))
                                      ELSE States(left)
          BY <2>6, <2>7, <4>2, ToldFacts
        <5> QED BY <2>5, <4>2, <5>1
      <4> QED BY <4>1, <4>2
    <3>2. M!Told(m, b) = IF q[1].buttons = b THEN Tail(States(q)) ELSE States(q)
      BY <1>6, ToldFacts
    <3>3. States(q) \in Seq(ClickStates) /\ States(q) # <<>> /\ Head(States(q)) = q[1].buttons
      BY <1>1, <1>6, StatesFacts
    <3> DEFINE t == States(q)
    <3> HIDE DEF t
    <3>4. \A u \in Seq(ClickStates) : u # <<>> => <<>> \o Tail(u) = Tail(u) /\ <<Head(u)>> \o Tail(u) = u
      OBVIOUS
    <3> QED BY <1>3, <1>4, <2>2, <3>1, <3>2, <3>3, <3>4
  <2>10. Rests(l, r, b)
    BY <1>2, <2>2, <2>5, <2>6 DEF Rests
  <2>11. StillAt(m, NoReport) => StillAt(l, r)
    BY <2>2, <2>3, <2>5, <2>6 DEF StillAt
  <2> QED BY <2>6, <2>7, <2>8, <2>9, <2>10, <2>11 DEF l, r
<1> QED BY <1>5, <1>6


\* flush_mouse changes nothing but where the movement and the changes are.
LEMMA FlushFacts ==
  ASSUME NEW m, SlotOK(m), NEW o, PathOK(o), NEW ready, NEW b, M!Flush(m, o, ready)
  PROVE  /\ SlotOK(slot') /\ PathOK(out') /\ slot'.buttons = m.buttons
         /\ M!Owing(slot', out') = M!Owing(m, o) /\ M!Coming(slot', out', b) = M!Coming(m, o, b)
         /\ Rests(m, o, b) => Rests(slot', out', b)
         /\ StillAt(m, o) => StillAt(slot', out')
<1>1. CASE /\ M!Idle(o) /\ (m.queue # <<>> \/ m.dirty)
           /\ slot' = M!Sent(m) /\ out' = M!Queued(m)
  <2>1. o = NoReport
    BY <1>1 DEF M!Idle
  <2>2. PathOK(out')
    BY <1>1, ReportFacts DEF PathOK
  <2> QED BY <1>1, <2>1, <2>2, SentFacts
<1>2. CASE slot' = m /\ out' = o
  BY <1>2
<1> QED BY <1>1, <1>2 DEF M!Flush

\* The queue with room for one more movement.
LEMMA EntryFacts ==
  ASSUME NEW m, SlotOK(m), NEW b \in ClickStates
  PROVE  /\ M!Entry(m, b) \in Seq(M!Entries) /\ Len(M!Entry(m, b)) \in 1..QueueSize
         /\ \A i \in 1..Len(M!Entry(m, b)) :
              \E s \in Speeds : M!Abs(M!Entry(m, b)[i].move) * Unit <= 2 * Packet * s
         /\ \A i \in 2..Len(M!Entry(m, b)) : M!Entry(m, b)[i].buttons # M!Entry(m, b)[i - 1].buttons
         /\ M!Entry(m, b)[Len(M!Entry(m, b))].buttons = b
         /\ (\A i \in 1..Len(m.queue) : m.queue[i].move = 0)
              => \A i \in 1..Len(M!Entry(m, b)) : M!Entry(m, b)[i].move = 0
         /\ ~M!Overloaded(m, b) =>
              /\ M!Sum(M!Entry(m, b)) = M!Sum(m.queue)
              /\ M!Entry(m, b)[1].buttons = IF m.queue = <<>> THEN b ELSE m.queue[1].buttons
              /\ States(M!Entry(m, b)) = IF m.queue # <<>> /\ m.buttons = b THEN States(m.queue)
                                       ELSE Append(States(m.queue), b)
<1> DEFINE q == m.queue
           t == M!Entry(m, b)
           e == [buttons |-> b, move |-> 0]
           p == IF M!Overloaded(m, b) THEN <<>> ELSE q
<1>1. q \in Seq(M!Entries) /\ Len(q) \in Nat /\ M!Sum(q) \in Int /\ Len(q) <= QueueSize
      /\ QueueSize \in Nat \ {0}
  BY SlotTypes, MouseConstants DEF SlotOK
<1>2. q # <<>> => M!Newest(q).buttons = m.buttons /\ M!Newest(q) = q[Len(q)] /\ Len(q) \in 1..Len(q)
                  /\ 1 \in 1..Len(q)
  BY <1>1 DEF SlotOK, M!Newest
<1>3. \A i \in 1..Len(q) : \E s \in Speeds : M!Abs(q[i].move) * Unit <= 2 * Packet * s
  BY DEF SlotOK
<1>4. \A i \in 2..Len(q) : q[i].buttons # q[i - 1].buttons
  BY DEF SlotOK
<1>5. e \in M!Entries /\ e.buttons = b /\ e.move = 0
  BY DEF M!Entries
<1>6. CASE q # <<>> /\ m.buttons = b
  <2>1. t = q
    BY <1>2, <1>6 DEF M!Entry
  <2>2. Len(q) \in 1..QueueSize
    BY <1>1, <1>6
  <2> QED BY <1>1, <1>2, <1>3, <1>4, <1>6, <2>1, <2>2
<1>7. CASE ~(q # <<>> /\ m.buttons = b)
  <2>1. t = Append(p, e)
    BY <1>2, <1>7 DEF M!Entry
  <2>2. M!Overloaded(m, b) => Len(q) = QueueSize
    BY DEF M!Overloaded
  <2>3. ~M!Overloaded(m, b) => Len(q) < QueueSize
    <3>1. Len(q) = QueueSize => q # <<>>
      BY <1>1
    <3>2. Len(q) = QueueSize => M!Overloaded(m, b)
      BY <1>2, <1>7, <3>1 DEF M!Overloaded
    <3> QED BY <1>1, <3>2
  <2>4. p \in Seq(M!Entries) /\ Len(p) \in Nat /\ Len(p) < QueueSize /\ (p = q \/ p = <<>>)
    BY <1>1, <2>3
  <2> HIDE DEF p, e, t
  <2>5. /\ t \in Seq(M!Entries) /\ Len(t) = Len(p) + 1 /\ t[Len(p) + 1] = e
        /\ \A i \in 1..Len(p) : t[i] = p[i]
    BY <1>5, <2>1, <2>4
  <2>6. ASSUME NEW i \in 1..Len(t)
        PROVE  \E s \in Speeds : M!Abs(t[i].move) * Unit <= 2 * Packet * s
    <3>1. CASE i = Len(p) + 1
      <4>1. M!Abs(t[i].move) * Unit = 0
        BY <1>5, <2>5, <3>1, MouseConstants DEF M!Abs
      <4>2. Unit \in Speeds /\ Unit \in Nat /\ Packet \in Nat
        BY MouseConstants
      <4>3. 2 * Packet * Unit \in Nat
        BY <4>2
      <4> QED BY <4>1, <4>2, <4>3
    <3>2. CASE i # Len(p) + 1
      <4>1. i \in 1..Len(p) /\ p = q
        BY <2>4, <2>5, <3>2
      <4> QED BY <1>3, <2>5, <4>1
    <3> QED BY <3>1, <3>2
  <2>7. ASSUME NEW i \in 2..Len(t)
        PROVE  t[i].buttons # t[i - 1].buttons
    <3>1. Len(p) # 0 /\ p = q /\ q # <<>>
      BY <2>4, <2>5
    <3>2. CASE i = Len(p) + 1
      <4>1. i - 1 = Len(p) /\ Len(p) \in 1..Len(p)
        BY <2>4, <3>1, <3>2
      <4>2. t[i] = e /\ t[i - 1] = q[Len(q)]
        BY <2>5, <3>1, <3>2, <4>1
      <4> QED BY <1>2, <1>5, <1>7, <3>1, <4>2
    <3>3. CASE i # Len(p) + 1
      <4>1. i \in 2..Len(p) /\ i \in 1..Len(p) /\ i - 1 \in 1..Len(p)
        BY <2>4, <2>5, <3>3
      <4>2. t[i] = q[i] /\ t[i - 1] = q[i - 1]
        BY <2>5, <3>1, <4>1
      <4> QED BY <1>4, <3>1, <4>1, <4>2
    <3> QED BY <3>2, <3>3
  <2>8. (\A i \in 1..Len(q) : q[i].move = 0) => \A i \in 1..Len(t) : t[i].move = 0
    <3> SUFFICES ASSUME \A i \in 1..Len(q) : q[i].move = 0, NEW i \in 1..Len(t)
                 PROVE  t[i].move = 0
      OBVIOUS
    <3>1. CASE i = Len(p) + 1
      BY <1>5, <2>5, <3>1
    <3>2. CASE i # Len(p) + 1
      <4>1. i \in 1..Len(p) /\ p = q
        BY <2>4, <2>5, <3>2
      <4> QED BY <2>5, <4>1
    <3> QED BY <3>1, <3>2
  <2>9. ASSUME ~M!Overloaded(m, b)
        PROVE  /\ M!Sum(t) = M!Sum(q) /\ t[1].buttons = IF q = <<>> THEN b ELSE q[1].buttons
               /\ States(t) = Append(States(q), b)
    <3>1. p = q
      BY <2>9 DEF p
    <3>2. M!Sum(t) = M!Sum(q) + 0 /\ States(t) = Append(States(q), b)
      BY <1>1, <1>5, <2>1, <3>1, SumAppend, StatesFacts
    <3>3. q = <<>> => Len(p) + 1 = 1
      BY <3>1
    <3>4. t[1].buttons = IF q = <<>> THEN b ELSE q[1].buttons
      BY <1>2, <1>5, <2>5, <3>1, <3>3
    <3> QED BY <1>1, <3>2, <3>4
  <2>10. Len(t) \in 1..QueueSize /\ t[Len(t)].buttons = b
    BY <1>1, <1>5, <2>4, <2>5
  <2> QED BY <1>7, <2>5, <2>6, <2>7, <2>8, <2>9, <2>10 DEF t
<1> QED BY <1>6, <1>7


\* A sum in another order, when two of its parts are exchanged.
LEMMA Regrouped ==
  \A r, s, x, y, z \in Int : z + s = y + r => r + (x + y) = (s + x) + z
OBVIOUS

\* Movement in fractions of a step is distributed over its parts.
LEMMA Distributed ==
  ASSUME NEW u \in Int, NEW a \in Int, NEW q \in Int, NEW c \in Int
  PROVE  u * ((a + q) + c) = u * (a + c) + u * q
OBVIOUS

\* A movement and a change of the buttons get into the slot.
LEMMA MovedFacts ==
  ASSUME NEW m, SlotOK(m), NEW o, PathOK(o), NEW b \in ClickStates, NEW delta \in Int,
         speed \in Speeds, NEW h
  PROVE  /\ SlotOK(M!Moved(m, b, delta).slot) /\ M!Moved(m, b, delta).slot.buttons = b
         /\ M!Moved(m, b, delta).slot.queue # <<>>
         /\ StillAt(m, o) /\ delta = 0 => StillAt(M!Moved(m, b, delta).slot, o)
         /\ ~M!Moved(m, b, delta).lossy =>
              M!Owing(M!Moved(m, b, delta).slot, o) = M!Owing(m, o) + delta * speed
         /\ ~M!Moved(m, b, delta).lossy /\ Rests(m, o, h) =>
              M!Coming(M!Moved(m, b, delta).slot, o, h) =
                IF b # m.buttons THEN Append(M!Coming(m, o, h), b) ELSE M!Coming(m, o, h)
<1> DEFINE q == m.queue
           t == M!Entry(m, b)
           n == Len(t)
           scaled == delta * speed + m.rest
           value == t[n].move + M!Quotient(scaled, Unit)
           k == M!Clamped(value, M!Limit)
           w == M!Moving(t, n, k)
           moved == M!Moved(m, b, delta).slot
           lossy == M!Moved(m, b, delta).lossy
<1>1. /\ q \in Seq(M!Entries) /\ Len(q) \in Nat /\ M!Sum(q) \in Int /\ m.rest \in Int
      /\ m.buttons \in ClickStates /\ m.dirty \in BOOLEAN
  BY SlotTypes
<1>2. speed \in Nat /\ Unit \in Nat \ {0} /\ Packet \in Nat /\ QueueSize \in Nat
  BY MouseConstants
<1>3. /\ t \in Seq(M!Entries) /\ n \in 1..QueueSize /\ t[n].buttons = b
      /\ \A i \in 1..n : \E s \in Speeds : M!Abs(t[i].move) * Unit <= 2 * Packet * s
      /\ \A i \in 2..n : t[i].buttons # t[i - 1].buttons
      /\ (\A i \in 1..Len(q) : q[i].move = 0) => \A i \in 1..n : t[i].move = 0
  BY EntryFacts
<1>4. ~M!Overloaded(m, b) =>
        /\ M!Sum(t) = M!Sum(q) /\ t[1].buttons = IF q = <<>> THEN b ELSE q[1].buttons
        /\ States(t) = IF q # <<>> /\ m.buttons = b THEN States(q) ELSE Append(States(q), b)
  BY EntryFacts
<1> HIDE DEF t, n
<1>5. /\ moved = [buttons |-> b, dirty |-> TRUE, rest |-> M!Fraction(scaled), queue |-> w]
      /\ lossy = (\/ M!Overloaded(m, b) \/ M!Abs(value) > M!Limit
                  \/ b # m.buttons /\ q = <<>> /\ m.dirty)
  BY DEF M!Moved, t, n
<1> HIDE DEF moved, lossy
<1>6. scaled \in Int
  <2>1. delta * speed \in Int
    BY <1>2
  <2> QED BY <1>1, <2>1
<1>7. /\ M!Quotient(scaled, Unit) \in Int /\ M!Fraction(scaled) \in Int
      /\ scaled = Unit * M!Quotient(scaled, Unit) + M!Fraction(scaled)
      /\ M!Abs(M!Fraction(scaled)) < Unit
      /\ scaled = 0 => M!Quotient(scaled, Unit) = 0 /\ M!Fraction(scaled) = 0
  <2> HIDE DEF scaled
  <2> QED BY <1>2, <1>6, QuotientFacts DEF M!Fraction
<1>8. n \in 1..n /\ n \in 1..Len(t) /\ 1 \in 1..n /\ n = Len(t)
  BY <1>2, <1>3 DEF n
<1>9. t[n].move \in Int /\ value \in Int
  <2>1. t[n].move \in Int
    BY <1>3, <1>8, EntryType
  <2> HIDE DEF scaled
  <2> QED BY <1>7, <2>1
<1>10. /\ M!Limit \in Nat /\ k \in Int /\ M!Abs(k) <= M!Limit /\ (M!Abs(value) <= M!Limit => k = value)
       /\ value = 0 => k = 0
  <2>1. M!Limit \in Nat
    BY LimitFacts
  <2> HIDE DEF value
  <2>2. k \in -M!Limit..M!Limit /\ M!Abs(k) <= M!Limit /\ (M!Abs(value) <= M!Limit => k = value) /\ (value = 0 => k = 0)
    BY <1>9, <2>1, ClampedFacts
  <2> QED BY <2>1, <2>2
<1> HIDE DEF k, w
<1>11. /\ w \in Seq(M!Entries) /\ Len(w) = n /\ M!Sum(w) = M!Sum(t) - t[n].move + k
       /\ \A i \in 1..n : /\ w[i].buttons = t[i].buttons
                          /\ w[i].move = IF i = n THEN k ELSE t[i].move
       /\ States(w) = States(t)
  <2>1. /\ w \in Seq(M!Entries) /\ Len(w) = n /\ M!Sum(w) = M!Sum(t) - t[n].move + k
        /\ \A i \in 1..n : /\ w[i].buttons = t[i].buttons
                           /\ w[i].move = IF i = n THEN k ELSE t[i].move
    BY <1>3, <1>8, <1>10, SumMoving DEF w
  <2>2. States(w) = States(t)
    BY <1>3, <1>8, <1>10, StatesFacts DEF w
  <2> QED BY <2>1, <2>2
<1>12. w # <<>>
  BY <1>3, <1>11
<1>13. /\ moved \in [buttons : ClickStates, dirty : BOOLEAN, queue : Seq(M!Entries), rest : Int]
       /\ moved.buttons = b /\ moved.dirty /\ moved.rest = M!Fraction(scaled) /\ moved.queue = w
  <2> HIDE DEF scaled
  <2> QED BY <1>5, <1>7, <1>11
<1> DEFINE rest == M!Fraction(scaled)
           whole == M!Quotient(scaled, Unit)
<1>14. SlotOK(moved)
  <2>1. ASSUME NEW i \in 1..n
        PROVE  \E s \in Speeds : M!Abs(w[i].move) * Unit <= 2 * Packet * s
    <3>1. CASE i # n
      <4>1. w[i].move = t[i].move
        BY <1>11, <3>1
      <4> QED BY <1>3, <4>1
    <3>2. CASE i = n
      <4>1. w[i].move = k
        BY <1>11, <3>2
      <4>2. PICK s \in Speeds : M!Limit * Unit <= 2 * Packet * s
        BY LimitFacts
      <4>3. s \in Nat
        BY MouseConstants
      <4>4. 2 * Packet * s \in Nat
        BY <1>2, <4>3
      <4>5. M!Abs(k) \in Nat
        BY <1>10, AbsFacts
      <4>6. M!Abs(k) * Unit <= M!Limit * Unit
        BY <1>2, <1>10, <4>5
      <4>7. M!Abs(k) * Unit \in Nat /\ M!Limit * Unit \in Nat
        BY <1>2, <1>10, <4>5
      <4>8. M!Abs(k) * Unit <= 2 * Packet * s
        BY <4>2, <4>4, <4>6, <4>7
      <4> QED BY <4>1, <4>8
    <3> QED BY <3>1, <3>2
  <2>2. ASSUME NEW i \in 2..n
        PROVE  w[i].buttons # w[i - 1].buttons
    <3>1. i \in 1..n /\ i - 1 \in 1..n
      BY <1>2, <1>3
    <3> QED BY <1>3, <1>11, <3>1
  <2>3. M!Newest(w).buttons = b
    BY <1>3, <1>8, <1>11 DEF M!Newest
  <2>4. n <= QueueSize
    BY <1>2, <1>3
  <2>5. M!Abs(rest) < Unit
    BY <1>7
  <2> HIDE DEF rest
  <2> QED BY <1>11, <1>13, <2>1, <2>2, <2>3, <2>4, <2>5 DEF SlotOK, rest
<1>15. ASSUME StillAt(m, o), delta = 0
       PROVE  StillAt(moved, o)
  <2>1. m.rest = 0 /\ \A i \in 1..Len(q) : q[i].move = 0
    BY <1>15 DEF StillAt
  <2>2. scaled = 0
    BY <1>2, <1>15, <2>1
  <2>3. \A i \in 1..n : t[i].move = 0
    BY <1>3, <2>1
  <2>4. value = 0 /\ rest = 0
    BY <1>7, <1>8, <2>2, <2>3
  <2>5. k = 0
    BY <1>10, <2>4
  <2>6. \A i \in 1..n : w[i].move = 0
    BY <1>11, <2>3, <2>5
  <2> QED BY <1>11, <1>13, <1>15, <2>4, <2>6 DEF StillAt
<1>16. ASSUME ~lossy
       PROVE  M!Owing(moved, o) = M!Owing(m, o) + delta * speed
  <2> DEFINE c == IF o = NoReport THEN 0 ELSE o.move
  <2>1. ~M!Overloaded(m, b) /\ ~(M!Abs(value) > M!Limit)
    BY <1>5, <1>16
  <2>2. M!Abs(value) <= M!Limit
    BY <1>9, <1>10, <2>1, AbsFacts
  <2>3. k = t[n].move + whole
    BY <1>10, <2>2
  <2>4. whole \in Int /\ rest \in Int /\ scaled = Unit * whole + rest
    BY <1>7
  <2>5. M!Sum(w) = M!Sum(q) + whole
    <3>1. M!Sum(t) = M!Sum(q)
      BY <1>4, <2>1
    <3> HIDE DEF whole
    <3> QED BY <1>1, <1>9, <1>11, <2>3, <2>4, <3>1
  <2>6. c \in Int
    <3>1. o # NoReport => o \in M!Reports
      BY DEF PathOK
    <3>2. \A r \in M!Reports : r.move \in Int
      BY <1>2 DEF M!Reports
    <3> QED BY <3>1, <3>2
  <2>7. M!Owing(moved, o) = rest + Unit * (M!Sum(w) + c) /\ M!Owing(m, o) = m.rest + Unit * (M!Sum(q) + c)
    BY <1>13 DEF M!Owing
  <2> HIDE DEF c, whole, rest
  <2>8. Unit * ((M!Sum(q) + whole) + c) = Unit * (M!Sum(q) + c) + Unit * whole
    BY <1>1, <1>2, <2>4, <2>6, Distributed
  <2>9. Unit * (M!Sum(q) + c) \in Int /\ Unit * whole \in Int /\ delta * speed \in Int
    BY <1>1, <1>2, <2>4, <2>6
  <2>10. delta * speed + m.rest = Unit * whole + rest
    BY <2>4
  <2> DEFINE x == Unit * (M!Sum(q) + c)
             y == Unit * whole
             z == delta * speed
  <2>11. M!Owing(moved, o) = rest + (x + y) /\ M!Owing(m, o) = m.rest + x /\ z + m.rest = y + rest
    BY <2>5, <2>7, <2>8, <2>10
  <2>12. x \in Int /\ y \in Int /\ z \in Int
    BY <2>9
  <2> HIDE DEF x, y, z
  <2>13. rest + (x + y) = (m.rest + x) + z
    <3>1. rest \in Int /\ m.rest \in Int
      BY <1>1, <2>4
    <3>2. z + m.rest = y + rest
      BY <2>11
    <3> QED BY <2>12, <3>1, <3>2, Regrouped
  <2> QED BY <2>11, <2>13 DEF z
<1>17. ASSUME ~lossy, Rests(m, o, h)
       PROVE  M!Coming(moved, o, h) = IF b # m.buttons THEN Append(M!Coming(m, o, h), b) ELSE M!Coming(m, o, h)
  <2> DEFINE c == M!Seen(o, h)
             f == IF c = h THEN <<>> ELSE <<o.buttons>>
  <2>1. ~M!Overloaded(m, b) /\ ~(b # m.buttons /\ q = <<>> /\ m.dirty)
    BY <1>5, <1>17
  <2>2. M!Coming(moved, o, h) = f \o M!Told(moved, c) /\ M!Coming(m, o, h) = f \o M!Told(m, c)
    BY DEF M!Coming
  <2>3. f \in Seq(ClickStates)
    <3>1. c # h => o.buttons \in ClickStates
      BY DEF M!Seen, PathOK, M!Reports
    <3> QED BY <3>1
  <2>4. M!Told(moved, c) = IF w[1].buttons = c THEN Tail(States(w)) ELSE States(w)
    BY <1>12, <1>13, <1>14, ToldFacts
  <2>5. w[1].buttons = IF q = <<>> THEN b ELSE q[1].buttons
    BY <1>4, <1>8, <1>11, <2>1
  <2>6. States(w) = IF q # <<>> /\ m.buttons = b THEN States(q) ELSE Append(States(q), b)
    BY <1>4, <1>11, <2>1
  <2>7. M!Told(m, c) \in Seq(ClickStates)
    BY ToldFacts
  <2> HIDE DEF f
  <2>8. M!Told(moved, c) = IF b # m.buttons THEN Append(M!Told(m, c), b) ELSE M!Told(m, c)
    <3>1. CASE q # <<>>
      <4>1. M!Told(m, c) = IF q[1].buttons = c THEN Tail(States(q)) ELSE States(q)
        BY <3>1, ToldFacts
      <4>2. States(q) \in Seq(ClickStates) /\ States(q) # <<>>
        BY <1>1, <3>1, StatesFacts
      <4>3. \A u \in Seq(ClickStates) : u # <<>> => Tail(Append(u, b)) = Append(Tail(u), b)
        OBVIOUS
      <4>4. Tail(Append(States(q), b)) = Append(Tail(States(q)), b)
        BY <4>2, <4>3
      <4> QED BY <2>4, <2>5, <2>6, <3>1, <4>1, <4>4
    <3>2. CASE q = <<>>
      <4>1. States(q) = <<>>
        BY <3>2 DEF States
      <4>2. States(w) = <<b>>
        <5>1. Append(<<>>, b) = <<b>>
          OBVIOUS
        <5> QED BY <2>6, <3>2, <4>1, <5>1
      <4>3. M!Told(moved, c) = IF b = c THEN <<>> ELSE <<b>>
        BY <2>4, <2>5, <3>2, <4>2
      <4>4. M!Told(m, c) = IF m.dirty /\ m.buttons # c THEN <<m.buttons>> ELSE <<>>
        BY <3>2, ToldFacts
      <4>5. ~m.dirty => c = m.buttons
        BY <1>17, <3>2 DEF Rests
      <4>6. Append(<<>>, b) = <<b>>
        OBVIOUS
      <4>7. CASE b # m.buttons
        BY <2>1, <3>2, <4>3, <4>4, <4>5, <4>6, <4>7
      <4>8. CASE b = m.buttons
        BY <3>2, <4>3, <4>4, <4>5, <4>8
      <4> QED BY <4>7, <4>8
    <3> QED BY <3>1, <3>2
  <2> HIDE DEF c
  <2>9. \A u, v \in Seq(ClickStates) : u \o Append(v, b) = Append(u \o v, b)
    OBVIOUS
  <2> QED BY <2>2, <2>3, <2>7, <2>8, <2>9
<1> QED BY <1>12, <1>13, <1>14, <1>15, <1>16, <1>17 DEF moved, lossy

-----------------------------------------------------------------------------
(* The invariant of the mouse slot.                                        *)

\* The rest of the state.
Others ==
  /\ up \in BOOLEAN /\ relink \in {"no", "changed", "retry"}
  /\ current \in {"unknown", "normal", "cursor"} /\ home \in BOOLEAN /\ held \in BOOLEAN
  /\ completed \in BOOLEAN /\ quiet \in BOOLEAN
  /\ host \in ClickStates /\ speed \in Speeds

\* What the ghosts counted is what is there.
Exact == owed = M!Owing(slot, out) /\ edges = M!Coming(slot, out, host)

\* The inductive invariant of the mouse slot.
MouseInv ==
  /\ SlotOK(slot) /\ PathOK(out) /\ Others /\ Exact
  /\ M!Ready => Rests(slot, out, host)
  /\ current = "cursor" /\ home => StillAt(slot, out)

\* host_output_clear leaves nothing queued.
LEMMA UnqueuedFacts ==
  ASSUME PathOK(out)
  PROVE  PathOK(M!Unqueued) /\ StillAt(M!Cleared, M!Unqueued)
BY ClearedFacts DEF PathOK, M!Unqueued, StillAt

\* hid_input_mouse, called with the slot as it is or after something dropped.
LEMMA InputInv ==
  ASSUME MouseInv, NEW m, SlotOK(m), NEW o, PathOK(o), NEW b \in ClickStates, NEW delta \in Int,
         M!Ready => Rests(m, o, host), M!Input(m, o, b, delta)
  PROVE  /\ SlotOK(slot') /\ PathOK(out')
         /\ owed' = M!Owing(slot', out') /\ edges' = M!Coming(slot', out', host)
         /\ M!Ready => Rests(slot', out', host)
         /\ StillAt(m, o) /\ delta = 0 => StillAt(slot', out')
<1> DEFINE changed == b # m.buttons
           moved == M!Moved(m, b, delta)
<1>0. speed \in Speeds
  BY DEF MouseInv, Others
<1>1. CASE ~M!Ready
  <2>1. /\ slot' = [buttons |-> b, dirty |-> m.dirty \/ changed, queue |-> <<>>, rest |-> 0]
        /\ out' = o /\ M!Drop
    BY <1>1 DEF M!Input
  <2>2. <<>> \in Seq(M!Entries) /\ Len(<<>>) = 0 /\ M!Abs(0) < Unit /\ (m.dirty \/ changed) \in BOOLEAN
    BY MouseConstants DEF M!Abs
  <2>3. /\ slot' \in [buttons : ClickStates, dirty : BOOLEAN, queue : Seq(M!Entries), rest : Int]
        /\ slot'.queue = <<>> /\ slot'.rest = 0
    BY <2>1, <2>2
  <2>4. SlotOK(slot')
    BY <2>2, <2>3, MouseConstants DEF SlotOK
  <2>5. StillAt(m, o) => StillAt(slot', out')
    BY <2>1, <2>2, <2>3 DEF StillAt
  <2> QED BY <1>1, <2>1, <2>4, <2>5 DEF M!Drop
<1>2. CASE M!Ready /\ ~changed /\ delta = 0
  <2>1. M!Flush(m, o, TRUE) /\ M!Drop
    BY <1>2 DEF M!Input
  <2> QED BY <1>2, <2>1, FlushFacts DEF M!Drop
<1>3. CASE M!Ready /\ ~(~changed /\ delta = 0)
  <2>1. /\ M!Flush(moved.slot, o, TRUE)
        /\ IF moved.lossy \/ m # slot \/ o # out THEN M!Drop
           ELSE /\ owed' = owed + delta * speed
                /\ edges' = IF changed THEN Append(edges, b) ELSE edges
    BY <1>3 DEF M!Input
  <2>2. /\ SlotOK(moved.slot) /\ moved.slot.queue # <<>>
        /\ StillAt(m, o) /\ delta = 0 => StillAt(moved.slot, o)
        /\ ~moved.lossy => M!Owing(moved.slot, o) = M!Owing(m, o) + delta * speed
        /\ ~moved.lossy /\ Rests(m, o, host) =>
             M!Coming(moved.slot, o, host) =
               IF changed THEN Append(M!Coming(m, o, host), b) ELSE M!Coming(m, o, host)
    BY <1>0, MovedFacts
  <2> HIDE DEF moved
  <2>3. /\ SlotOK(slot') /\ PathOK(out')
        /\ M!Owing(slot', out') = M!Owing(moved.slot, o)
        /\ M!Coming(slot', out', host) = M!Coming(moved.slot, o, host)
        /\ Rests(moved.slot, o, host) => Rests(slot', out', host)
        /\ StillAt(moved.slot, o) => StillAt(slot', out')
    BY <2>1, <2>2, FlushFacts
  <2>4. Rests(moved.slot, o, host)
    BY <2>2 DEF Rests
  <2>5. owed' = M!Owing(slot', out') /\ edges' = M!Coming(slot', out', host)
    <3>1. CASE moved.lossy \/ m # slot \/ o # out
      BY <2>1, <3>1 DEF M!Drop
    <3>2. CASE ~moved.lossy /\ m = slot /\ o = out
      <4>1. owed = M!Owing(m, o) /\ edges = M!Coming(m, o, host) /\ Rests(m, o, host)
        BY <1>3, <3>2 DEF MouseInv, Exact
      <4> QED BY <2>1, <2>2, <2>3, <3>2, <4>1
    <3> QED BY <3>1, <3>2
  <2> QED BY <2>2, <2>3, <2>4, <2>5
<1> QED BY <1>1, <1>2, <1>3

\* A release of everything.
LEMMA ReleaseInv ==
  ASSUME MouseInv, M!Release
  PROVE  /\ SlotOK(slot') /\ PathOK(out')
         /\ owed' = M!Owing(slot', out') /\ edges' = M!Coming(slot', out', host)
         /\ Rests(slot', out', host) /\ StillAt(slot', out')
<1>1. PathOK(out)
  BY DEF MouseInv
<1>2. SlotOK(M!Cleared) /\ PathOK(M!Unqueued) /\ StillAt(M!Cleared, M!Unqueued) /\ M!Cleared.dirty
  BY <1>1, ClearedFacts, UnqueuedFacts
<1>3. Rests(M!Cleared, M!Unqueued, host)
  BY <1>2 DEF Rests
<1>4. M!Flush(M!Cleared, M!Unqueued, M!Ready) /\ M!Drop
  BY DEF M!Release
<1> HIDE DEF M!Cleared, M!Unqueued
<1> QED BY <1>2, <1>3, <1>4, FlushFacts DEF M!Drop

\* hid_input_keyboard drops the movement that waits when HOME comes.
LEMMA StillFacts ==
  ASSUME NEW m, SlotOK(m), NEW o, PathOK(o), NEW b
  PROVE  /\ SlotOK(M!Still(m)) /\ PathOK(M!Paused(o)) /\ StillAt(M!Still(m), M!Paused(o))
         /\ Rests(m, o, b) => Rests(M!Still(m), M!Paused(o), b)
<1> DEFINE q == m.queue
           t == [i \in DOMAIN q |-> [buttons |-> q[i].buttons, move |-> 0]]
           l == M!Still(m)
<1>1. q \in Seq(M!Entries) /\ Len(q) \in Nat /\ m.buttons \in ClickStates /\ m.dirty \in BOOLEAN
  BY SlotTypes
<1>2. ASSUME NEW i \in 1..Len(q)
      PROVE  [buttons |-> q[i].buttons, move |-> 0] \in M!Entries
  <2>1. q[i].buttons \in ClickStates
    BY <1>1, EntryType
  <2> QED BY <2>1 DEF M!Entries
<1>3. /\ t \in Seq(M!Entries) /\ Len(t) = Len(q)
      /\ \A i \in 1..Len(q) : t[i].buttons = q[i].buttons /\ t[i].move = 0
  <2>1. DOMAIN q = 1..Len(q)
    BY <1>1
  <2>2. t \in [1..Len(q) -> M!Entries]
    BY <1>2, <2>1
  <2>3. t \in Seq(M!Entries) /\ Len(t) = Len(q)
    <3> HIDE DEF t
    <3> QED BY <1>1, <2>2
  <2> QED BY <2>1, <2>3
<1>4. l = [buttons |-> m.buttons, dirty |-> m.dirty, rest |-> 0, queue |-> t]
  BY DEF M!Still
<1> HIDE DEF t, l
<1>5. /\ l \in [buttons : ClickStates, dirty : BOOLEAN, queue : Seq(M!Entries), rest : Int]
      /\ l.buttons = m.buttons /\ l.dirty = m.dirty /\ l.rest = 0 /\ l.queue = t
  <2>1. t \in Seq(M!Entries)
    BY <1>3
  <2> QED BY <1>1, <1>4, <2>1
<1>6. t = <<>> <=> q = <<>>
  BY <1>1, <1>3
<1>7. ASSUME NEW i \in 1..Len(t)
      PROVE  \E s \in Speeds : M!Abs(t[i].move) * Unit <= 2 * Packet * s
  <2>1. M!Abs(t[i].move) = 0
    BY <1>3, <1>7 DEF M!Abs
  <2>2. Unit \in Speeds /\ Unit \in Nat /\ Packet \in Nat
    BY MouseConstants
  <2>3. 2 * Packet * Unit \in Nat
    BY <2>2
  <2> QED BY <2>1, <2>2, <2>3
<1>8. ASSUME NEW i \in 2..Len(t)
      PROVE  t[i].buttons # t[i - 1].buttons
  <2>1. i \in 2..Len(q) /\ i \in 1..Len(q) /\ i - 1 \in 1..Len(q)
    BY <1>1, <1>3
  <2> QED BY <1>3, <2>1 DEF SlotOK
<1>9. t # <<>> => M!Newest(t).buttons = m.buttons
  <2>1. q # <<>> => Len(q) \in 1..Len(q)
    BY <1>1
  <2> QED BY <1>3, <1>6, <2>1 DEF SlotOK, M!Newest
<1>10. Len(t) <= QueueSize /\ M!Abs(0) < Unit
  BY <1>3, MouseConstants DEF SlotOK, M!Abs
<1>11. SlotOK(l)
  BY <1>5, <1>7, <1>8, <1>9, <1>10 DEF SlotOK
<1>12. PathOK(M!Paused(o)) /\ M!Seen(M!Paused(o), b) = M!Seen(o, b)
       /\ (M!Paused(o) # NoReport /\ M!Paused(o).at = "queued" => M!Paused(o).move = 0)
  <2>1. CASE o # NoReport /\ o.at = "queued"
    <3>1. o \in M!Reports /\ M!Paused(o) = [o EXCEPT !.move = 0]
      BY <2>1 DEF PathOK, M!Paused
    <3>2. M!Paused(o) \in M!Reports /\ M!Paused(o).buttons = o.buttons /\ M!Paused(o).move = 0
      BY <3>1, MouseConstants DEF M!Reports
    <3> QED BY <2>1, <3>2, MouseConstants DEF PathOK, M!Seen
  <2>2. CASE ~(o # NoReport /\ o.at = "queued")
    BY <2>2 DEF M!Paused
  <2> QED BY <2>1, <2>2
<1>13. StillAt(l, M!Paused(o))
  BY <1>3, <1>5, <1>12 DEF StillAt
<1>14. Rests(m, o, b) => Rests(l, M!Paused(o), b)
  BY <1>5, <1>6, <1>12 DEF Rests
<1> QED BY <1>11, <1>12, <1>13, <1>14 DEF l


\* The invariant holds at the start.
LEMMA MouseInit == M!Init => MouseInv
<1> SUFFICES ASSUME M!Init PROVE MouseInv
  OBVIOUS
<1>1. /\ slot = [buttons |-> 0, dirty |-> FALSE, queue |-> <<>>, rest |-> 0]
      /\ speed = Unit /\ current = "unknown" /\ home = FALSE
      /\ out = NoReport /\ up = FALSE /\ relink = "no" /\ completed = FALSE
      /\ host = 0 /\ owed = 0 /\ edges = <<>> /\ quiet = FALSE
  BY DEF M!Init
<1>2. <<>> \in Seq(M!Entries) /\ Len(<<>>) = 0 /\ M!Abs(0) < Unit
  BY MouseConstants DEF M!Abs
<1>3. /\ slot \in [buttons : ClickStates, dirty : BOOLEAN, queue : Seq(M!Entries), rest : Int]
      /\ slot.queue = <<>> /\ slot.rest = 0 /\ ~slot.dirty
  BY <1>1, <1>2, MouseConstants
<1>4. SlotOK(slot)
  BY <1>2, <1>3, MouseConstants DEF SlotOK
<1>5. PathOK(out) /\ Others
  <2>1. PathOK(out)
    BY <1>1 DEF PathOK
  <2>2. host \in ClickStates /\ speed \in Speeds
    BY <1>1, MouseConstants
  <2>3. relink \in {"no", "changed", "retry"} /\ current \in {"unknown", "normal", "cursor"}
    BY <1>1
  <2>4. /\ up \in BOOLEAN /\ home \in BOOLEAN /\ held \in BOOLEAN
        /\ completed \in BOOLEAN /\ quiet \in BOOLEAN
    BY Zenon DEF M!Init
  <2>5. Others
    BY <2>2, <2>3, <2>4, Zenon DEF Others
  <2> QED BY <2>1, <2>5
<1>6. owed = M!Owing(slot, out)
  <2>1. M!Owing(slot, out) = 0 + Unit * (0 + 0)
    BY <1>1, <1>3, SumEmpty DEF M!Owing
  <2> QED BY <1>1, <2>1, MouseConstants
<1>7. edges = M!Coming(slot, out, host)
  <2>1. M!Told(slot, host) = <<>> /\ M!Seen(out, host) = host
    BY <1>1, <1>3, <1>4, ToldFacts DEF M!Seen
  <2>2. <<>> \o <<>> = <<>>
    OBVIOUS
  <2> QED BY <1>1, <2>1, <2>2 DEF M!Coming
<1> QED BY <1>1, <1>4, <1>5, <1>6, <1>7 DEF MouseInv, Exact, M!Ready

\* The keyboard report.
LEMMA SlotKeyboard ==
  ASSUME MouseInv, NEW b \in ClickStates, NEW pressed \in BOOLEAN, M!Keyboard(b, pressed)
  PROVE  MouseInv'
<1>1. /\ home' = pressed /\ held' = pressed
      /\ UNCHANGED <<completed, host, up, relink, current, speed, quiet>>
  BY DEF M!Keyboard, M!linkVars
<1>2. /\ SlotOK(slot) /\ PathOK(out) /\ (M!Ready => Rests(slot, out, host)) /\ Others
  BY DEF MouseInv
<1>3. Others'
  BY <1>1, <1>2 DEF Others
<1>4. M!Ready' = M!Ready
  BY <1>1 DEF M!Ready
<1>5. CASE current = "cursor" /\ pressed
  <2>1. M!Input(M!Still(slot), M!Paused(out), b, 0)
    BY <1>5 DEF M!Keyboard
  <2>2. /\ SlotOK(M!Still(slot)) /\ PathOK(M!Paused(out)) /\ StillAt(M!Still(slot), M!Paused(out))
        /\ (M!Ready => Rests(M!Still(slot), M!Paused(out), host))
    BY <1>2, StillFacts
  <2>3. /\ SlotOK(slot') /\ PathOK(out')
        /\ owed' = M!Owing(slot', out') /\ edges' = M!Coming(slot', out', host)
        /\ (M!Ready => Rests(slot', out', host)) /\ StillAt(slot', out')
    BY <2>1, <2>2, InputInv
  <2> QED BY <1>1, <1>3, <1>4, <2>3 DEF MouseInv, Exact
<1>6. CASE ~(current = "cursor" /\ pressed)
  <2>1. M!Input(slot, out, b, 0)
    BY <1>6 DEF M!Keyboard
  <2>2. /\ SlotOK(slot') /\ PathOK(out')
        /\ owed' = M!Owing(slot', out') /\ edges' = M!Coming(slot', out', host)
        /\ (M!Ready => Rests(slot', out', host))
    BY <1>2, <2>1, InputInv
  <2> QED BY <1>1, <1>3, <1>4, <1>6, <2>2 DEF MouseInv, Exact
<1> QED BY <1>5, <1>6

\* A movement while HOME is held counts for nothing.
LEMMA FreeFacts ==
  ASSUME NEW d \in Deltas
  PROVE  M!Free(d) \in Int /\ (home => M!Free(d) = 0)
BY MouseConstants DEF M!Free

\* The mouse report.
LEMMA SlotRemoteMouse ==
  ASSUME MouseInv, NEW b \in ClickStates, NEW d \in Deltas, M!RemoteMouse(b, d)
  PROVE  MouseInv'
<1>1. /\ current = "cursor" /\ M!Input(slot, out, b, M!Free(d))
      /\ UNCHANGED <<completed, host, up, relink, current, home, held, speed, quiet>>
  BY DEF M!RemoteMouse, M!linkVars, M!modeVars
<1>2. /\ SlotOK(slot) /\ PathOK(out) /\ (M!Ready => Rests(slot, out, host)) /\ Others
      /\ (home => StillAt(slot, out))
  BY <1>1 DEF MouseInv
<1>3. Others' /\ M!Ready' = M!Ready
  BY <1>1, <1>2 DEF Others, M!Ready
<1>4. M!Free(d) \in Int /\ (home => M!Free(d) = 0)
  BY FreeFacts
<1>5. /\ SlotOK(slot') /\ PathOK(out')
      /\ owed' = M!Owing(slot', out') /\ edges' = M!Coming(slot', out', host)
      /\ (M!Ready => Rests(slot', out', host))
      /\ (home => StillAt(slot', out'))
  BY <1>1, <1>2, <1>4, InputInv
<1> QED BY <1>1, <1>3, <1>5 DEF MouseInv, Exact

\* The mouse report that sets the mode.
LEMMA SlotFirstMouse ==
  ASSUME MouseInv, NEW b \in ClickStates, NEW d \in Deltas, M!FirstMouse(b, d)
  PROVE  MouseInv'
<1> DEFINE m == IF M!Ready /\ M!Idle(M!Unqueued) THEN M!Sent(M!Cleared) ELSE M!Cleared
           o == IF M!Ready /\ M!Idle(M!Unqueued) THEN M!Queued(M!Cleared) ELSE M!Unqueued
<1>1. /\ M!Input(m, o, b, M!Free(d)) /\ current' = "cursor"
      /\ UNCHANGED <<completed, host, up, relink, home, held, speed, quiet>>
  BY DEF M!FirstMouse, M!linkVars
<1>2. PathOK(out) /\ Others
  BY DEF MouseInv
<1>3. Others' /\ M!Ready' = M!Ready
  BY <1>1, <1>2 DEF Others, M!Ready
<1>4. M!Free(d) \in Int /\ (home => M!Free(d) = 0)
  BY FreeFacts
<1>5. SlotOK(m) /\ PathOK(o) /\ Rests(m, o, host) /\ StillAt(m, o)
  <2>1. SlotOK(M!Cleared) /\ M!Cleared.dirty /\ StillAt(M!Cleared, NoReport)
    BY ClearedFacts
  <2>2. PathOK(M!Unqueued) /\ StillAt(M!Cleared, M!Unqueued)
    BY <1>2, UnqueuedFacts
  <2>3. /\ SlotOK(M!Sent(M!Cleared)) /\ PathOK(M!Queued(M!Cleared)) /\ Rests(M!Sent(M!Cleared), M!Queued(M!Cleared), host)
        /\ StillAt(M!Sent(M!Cleared), M!Queued(M!Cleared))
    BY <2>1, SentFacts, ReportFacts DEF PathOK
  <2>4. Rests(M!Cleared, M!Unqueued, host)
    BY <2>1 DEF Rests
  <2> QED BY <2>1, <2>2, <2>3, <2>4
<1> HIDE DEF m, o
<1>6. /\ SlotOK(slot') /\ PathOK(out')
      /\ owed' = M!Owing(slot', out') /\ edges' = M!Coming(slot', out', host)
      /\ (M!Ready => Rests(slot', out', host))
      /\ (home => StillAt(slot', out'))
  BY <1>1, <1>4, <1>5, InputInv
<1> QED BY <1>1, <1>3, <1>6 DEF MouseInv, Exact

\* The steps that release everything.
LEMMA ReleasedInv ==
  ASSUME MouseInv, M!Release, Others', UNCHANGED <<up, relink, host>>
  PROVE  MouseInv'
<1>1. /\ SlotOK(slot') /\ PathOK(out')
      /\ owed' = M!Owing(slot', out') /\ edges' = M!Coming(slot', out', host)
      /\ Rests(slot', out', host) /\ StillAt(slot', out')
  BY ReleaseInv
<1> QED BY <1>1 DEF MouseInv, Exact

\* All that comes from the remote.
LEMMA SlotRemote ==
  ASSUME MouseInv, M!Remote
  PROVE  MouseInv'
<1>0. Others
  BY DEF MouseInv
<1>1. ASSUME NEW new \in {"normal", "cursor"}, M!SensorMode(new)
      PROVE  MouseInv'
  <2>1. M!Release /\ current' = new /\ UNCHANGED <<completed, host, up, relink, home, held, speed, quiet>>
    BY <1>1 DEF M!SensorMode, M!linkVars
  <2>2. Others'
    BY <1>0, <2>1 DEF Others
  <2> QED BY <2>1, <2>2, ReleasedInv
<1>2. ASSUME M!RemoteLost
      PROVE  MouseInv'
  <2>1. M!Release /\ current' = "unknown" /\ home' = FALSE /\ held' = FALSE /\ UNCHANGED <<completed, host, up, relink, speed, quiet>>
    BY <1>2 DEF M!RemoteLost, M!linkVars
  <2>2. Others'
    BY <1>0, <2>1 DEF Others
  <2> QED BY <2>1, <2>2, ReleasedInv
<1> QED BY <1>1, <1>2, SlotKeyboard, SlotRemoteMouse, SlotFirstMouse DEF M!Remote

\* A save.
LEMMA SaveInv ==
  ASSUME MouseInv, M!Save \/ M!MacroStop
  PROVE  MouseInv'
<1>0. Others
  BY DEF MouseInv
<1>1. CASE M!Save
  <2>1. /\ M!Release /\ speed' \in Speeds /\ home' = FALSE
        /\ UNCHANGED <<completed, host, up, relink, current, held, quiet>>
    BY <1>1 DEF M!Save, M!linkVars
  <2>2. Others'
    BY <1>0, <2>1 DEF Others
  <2> QED BY <2>1, <2>2, ReleasedInv
<1>2. CASE M!MacroStop
  <2>1. M!Release /\ UNCHANGED <<completed, host, up, relink, current, home, held, speed, quiet>>
    BY <1>2 DEF M!MacroStop, M!linkVars, M!modeVars
  <2>2. Others'
    BY <1>0, <2>1 DEF Others
  <2> QED BY <2>1, <2>2, ReleasedInv
<1> QED BY <1>1, <1>2

\* The heartbeat, and the event that follows a report that has arrived.
LEMMA RepeatInv ==
  ASSUME MouseInv, M!Heartbeat \/ M!OnOutput
  PROVE  MouseInv'
<1>1. /\ M!Flush(slot, out, M!Ready) /\ completed' \in BOOLEAN
      /\ UNCHANGED <<host, up, relink, current, home, held, speed, owed, edges, quiet>>
  BY DEF M!Heartbeat, M!OnOutput, M!linkVars, M!modeVars, M!ghosts, MouseInv, Others
<1>2. Others' /\ M!Ready' = M!Ready
  BY <1>1 DEF MouseInv, Others, M!Ready
<1>3. /\ SlotOK(slot') /\ PathOK(out')
      /\ M!Owing(slot', out') = M!Owing(slot, out) /\ M!Coming(slot', out', host) = M!Coming(slot, out, host)
      /\ (Rests(slot, out, host) => Rests(slot', out', host))
      /\ (StillAt(slot, out) => StillAt(slot', out'))
  BY <1>1, FlushFacts DEF MouseInv
<1> QED BY <1>1, <1>2, <1>3 DEF MouseInv, Exact

\* A report goes to the endpoint: nothing about it changes.
LEMMA TransmitInv ==
  ASSUME MouseInv, M!Transmit
  PROVE  MouseInv'
<1>1. /\ out # NoReport /\ out' = [out EXCEPT !.at = "flying"]
      /\ UNCHANGED <<slot, completed, host, up, relink, current, home, held, speed, owed, edges, quiet>>
  BY DEF M!Transmit, M!linkVars, M!modeVars, M!ghosts
<1>2. out \in M!Reports
  BY <1>1 DEF MouseInv, PathOK
<1>3. /\ out' \in M!Reports /\ out'.buttons = out.buttons /\ out'.move = out.move /\ out'.at = "flying"
  BY <1>1, <1>2 DEF M!Reports
<1>4. out' # NoReport
  BY <1>3, MouseConstants
<1>5. M!Owing(slot', out') = M!Owing(slot, out) /\ \A b : M!Seen(out', b) = M!Seen(out, b)
  BY <1>1, <1>3, <1>4 DEF M!Owing, M!Seen
<1>6. M!Coming(slot', out', host') = M!Coming(slot, out, host)
  BY <1>1, <1>3, <1>5 DEF M!Coming
<1>7. (Rests(slot, out, host) => Rests(slot', out', host')) /\ (StillAt(slot, out) => StillAt(slot', out'))
  BY <1>1, <1>3, <1>5 DEF Rests, StillAt
<1>8. Others' /\ M!Ready' = M!Ready /\ PathOK(out')
  BY <1>1, <1>3 DEF MouseInv, Others, M!Ready, PathOK
<1> QED BY <1>1, <1>5, <1>6, <1>7, <1>8 DEF MouseInv, Exact

\* A report arrives: what it moved and told is owed no more.
LEMMA DeliverInv ==
  ASSUME MouseInv, M!Deliver
  PROVE  MouseInv'
<1>1. /\ out # NoReport /\ out.at = "flying" /\ out' = NoReport /\ host' = out.buttons
      /\ owed' = owed - Unit * out.move
      /\ edges' = (IF out.buttons = host \/ edges = <<>> THEN edges ELSE Tail(edges))
      /\ completed' = TRUE
      /\ UNCHANGED <<slot, up, relink, current, home, held, speed, quiet>>
  BY DEF M!Deliver, M!linkVars, M!modeVars
<1>2. out \in M!Reports
  BY <1>1 DEF MouseInv, PathOK
<1>3. out.buttons \in ClickStates /\ out.move \in Int
  BY <1>2, MouseConstants DEF M!Reports
<1>4. M!Seen(out, host) = out.buttons /\ M!Seen(NoReport, host') = out.buttons
  BY <1>1 DEF M!Seen
<1>5. /\ SlotOK(slot) /\ owed = M!Owing(slot, out) /\ edges = M!Coming(slot, out, host) /\ Others
  BY DEF MouseInv, Exact
<1>6. owed' = M!Owing(slot', out')
  <2>1. slot.rest \in Int /\ M!Sum(slot.queue) \in Int /\ Unit \in Int
    BY <1>5, SlotTypes, MouseConstants
  <2>2. M!Owing(slot, out) = slot.rest + Unit * (M!Sum(slot.queue) + out.move)
        /\ M!Owing(slot', out') = slot.rest + Unit * (M!Sum(slot.queue) + 0)
    BY <1>1 DEF M!Owing
  <2>3. \A r, u, a, c \in Int : (r + u * (a + c)) - u * c = r + u * (a + 0)
    OBVIOUS
  <2> QED BY <1>1, <1>3, <1>5, <2>1, <2>2, <2>3
<1>7. edges' = M!Coming(slot', out', host')
  <2> DEFINE t == M!Told(slot, out.buttons)
  <2>1. t \in Seq(ClickStates)
    BY <1>5, ToldFacts
  <2>2. M!Coming(slot, out, host) = (IF out.buttons = host THEN <<>> ELSE <<out.buttons>>) \o t
    BY <1>4 DEF M!Coming
  <2>3. M!Coming(slot', out', host') = <<>> \o t
    BY <1>1, <1>4 DEF M!Coming
  <2> HIDE DEF t
  <2>4. <<>> \o t = t /\ \A b \in ClickStates : <<b>> \o t # <<>> /\ Tail(<<b>> \o t) = t
    BY <2>1
  <2> QED BY <1>1, <1>3, <1>5, <2>2, <2>3, <2>4
<1>8. Rests(slot, out, host) => Rests(slot', out', host')
  BY <1>1, <1>4 DEF Rests
<1>9. StillAt(slot, out) => StillAt(slot', out')
  BY <1>1 DEF StillAt
<1>10. Others' /\ M!Ready' = M!Ready /\ PathOK(out')
  BY <1>1, <1>3, <1>5 DEF Others, M!Ready, PathOK
<1> QED BY <1>1, <1>6, <1>7, <1>8, <1>9, <1>10 DEF MouseInv, Exact

\* A report is lost, or the cable: what is left is counted again.
LEMMA BrokenInv ==
  ASSUME MouseInv, M!Fail \/ M!Replug
  PROVE  MouseInv'
<1>0. SlotOK(slot) /\ Others
  BY DEF MouseInv
<1>1. /\ out' = NoReport /\ relink' \in {"changed", "retry"} /\ up' \in BOOLEAN /\ host' \in ClickStates
      /\ UNCHANGED <<slot, completed, current, home, held, speed, quiet>>
      /\ owed' = M!Owing(slot', out') /\ edges' = M!Coming(slot', out', host')
  <2>1. CASE M!Fail
    BY <1>0, <2>1 DEF M!Fail, M!Drop, M!modeVars, Others
  <2>2. CASE M!Replug
    BY <1>0, <2>2, MouseConstants DEF M!Replug, M!modeVars, Others
  <2> QED BY <2>1, <2>2
<1>2. Others' /\ PathOK(out') /\ ~M!Ready'
  BY <1>0, <1>1 DEF Others, PathOK, M!Ready
<1>3. StillAt(slot, out) => StillAt(slot', out')
  BY <1>1 DEF StillAt
<1> QED BY <1>0, <1>1, <1>2, <1>3 DEF MouseInv, Exact

\* The link is set up: everything is released.
LEMMA OnLinkInv ==
  ASSUME MouseInv, M!OnLink
  PROVE  MouseInv'
<1>0. Others /\ PathOK(out)
  BY DEF MouseInv
<1>1. /\ relink' = "no" /\ home' = (home /\ relink # "changed") /\ M!Drop
      /\ UNCHANGED <<completed, host, up, current, held, speed, quiet>>
  BY DEF M!OnLink
<1>2. Others'
  BY <1>0, <1>1 DEF Others
<1>3. SlotOK(slot') /\ PathOK(out') /\ Rests(slot', out', host) /\ StillAt(slot', out')
  <2>0. SlotOK(M!Cleared) /\ M!Cleared.dirty /\ StillAt(M!Cleared, NoReport) /\ M!Cleared.queue = <<>> /\ M!Cleared.buttons = 0
    BY ClearedFacts
  <2>1. CASE slot' = M!Cleared /\ out' = M!Unqueued
    BY <1>0, <2>0, <2>1, UnqueuedFacts DEF Rests
  <2>2. ASSUME NEW again \in {relink = "retry"}, slot' = [M!Sent(M!Cleared) EXCEPT !.dirty = again],
               out' = M!Queued(M!Cleared)
        PROVE  SlotOK(slot') /\ PathOK(out') /\ Rests(slot', out', host) /\ StillAt(slot', out')
    <3>1. /\ SlotOK(M!Sent(M!Cleared)) /\ PathOK(M!Queued(M!Cleared)) /\ Rests(M!Sent(M!Cleared), M!Queued(M!Cleared), host)
          /\ StillAt(M!Sent(M!Cleared), M!Queued(M!Cleared))
      BY <2>0, SentFacts, ReportFacts DEF PathOK
    <3>2. M!Sent(M!Cleared) = [M!Cleared EXCEPT !.dirty = FALSE]
      BY <2>0 DEF M!Sent
    <3>3. slot' = [buttons |-> 0, dirty |-> again, queue |-> <<>>, rest |-> 0]
      BY <2>2, <3>2 DEF M!Cleared
    <3>4. again \in BOOLEAN /\ M!Seen(out', host) = 0 /\ <<>> \in Seq(M!Entries) /\ Len(<<>>) = 0 /\ M!Abs(0) < Unit
      BY <2>0, <2>2, ReportFacts, MouseConstants DEF M!Seen, M!Abs
    <3>5. /\ slot' \in [buttons : ClickStates, dirty : BOOLEAN, queue : Seq(M!Entries), rest : Int]
          /\ slot'.queue = <<>> /\ slot'.rest = 0 /\ slot'.buttons = 0
      BY <3>3, <3>4, MouseConstants
    <3>6. SlotOK(slot')
      BY <3>4, <3>5, MouseConstants DEF SlotOK
    <3>7. Rests(slot', out', host)
      BY <3>4, <3>5 DEF Rests
    <3>8. StillAt(slot', out')
      BY <2>0, <2>2, <3>1, <3>4, <3>5, ReportFacts DEF StillAt
    <3> QED BY <2>2, <3>1, <3>6, <3>7, <3>8
  <2> QED BY <2>1, <2>2 DEF M!OnLink
<1> QED BY <1>1, <1>2, <1>3 DEF MouseInv, Exact, M!Drop

\* Every step keeps the invariant.
LEMMA MouseStep == MouseInv /\ [M!Next]_(M!vars) => MouseInv'
<1> SUFFICES ASSUME MouseInv, [M!Next]_(M!vars) PROVE MouseInv'
  OBVIOUS
<1>1. CASE M!Calm
  BY <1>1 DEF M!Calm, M!linkVars, M!modeVars, M!ghosts, MouseInv, Others, Exact, M!Ready
<1>2. CASE UNCHANGED M!vars
  BY <1>2 DEF M!vars, M!linkVars, M!modeVars, M!ghosts, MouseInv, Others, Exact, M!Ready
<1> QED BY <1>1, <1>2, SlotRemote, SaveInv, RepeatInv, TransmitInv, DeliverInv, BrokenInv, OnLinkInv DEF M!Next, M!Path

\* The invariant implies MouseSafety.
LEMMA MouseInvIsSafe == MouseInv => M!MouseSafety
<1> SUFFICES ASSUME MouseInv PROVE M!MouseSafety
  OBVIOUS
<1>1. SlotOK(slot) /\ PathOK(out) /\ Others /\ Exact
  BY DEF MouseInv
<1>2. slot.queue \in Seq(M!Entries) /\ DOMAIN slot.queue = 1..Len(slot.queue) /\ slot.buttons \in ClickStates
  BY <1>1, SlotTypes
<1>3. M!TypeOK
  BY <1>1, <1>2 DEF M!TypeOK, SlotOK, PathOK, Others
<1>4. M!MotionExact /\ M!ClicksExact
  BY <1>1 DEF M!MotionExact, M!ClicksExact, M!Changes, Exact, SlotOK
<1>5. M!PausedIsStill
  BY <1>2 DEF MouseInv, M!PausedIsStill, M!Frozen, StillAt
<1>6. ASSUME M!Ready
      PROVE  LET shown == <<host>> \o M!Coming(slot, out, host)
             IN shown[Len(shown)] = slot.buttons
  <2> DEFINE q == slot.queue
             c == M!Seen(out, host)
             t == M!Told(slot, c)
             f == IF c = host THEN <<>> ELSE <<out.buttons>>
             newest(u) == u[Len(u)]
  <2>1. Rests(slot, out, host) /\ host \in ClickStates
    BY <1>1, <1>6 DEF MouseInv, Others
  <2>2. t \in Seq(ClickStates) /\ M!Coming(slot, out, host) = f \o t
    BY <1>1, ToldFacts DEF M!Coming
  <2>3. f \in Seq(ClickStates) /\ newest(<<host>> \o f) = c
    <3>1. CASE c = host
      <4>1. <<host>> \o <<>> = <<host>>
        BY <2>1
      <4> QED BY <3>1, <4>1
    <3>2. CASE c # host
      <4>1. out.buttons = c /\ c \in ClickStates
        BY <1>1, <3>2 DEF M!Seen, PathOK, M!Reports
      <4>2. newest(<<host>> \o <<c>>) = c
        BY <2>1, <4>1
      <4> QED BY <3>2, <4>1, <4>2
    <3> QED BY <3>1, <3>2
  <2> HIDE DEF f
  <2>4. t = <<>> => c = slot.buttons
    <3>1. CASE q = <<>>
      <4>1. t = IF slot.dirty /\ slot.buttons # c THEN <<slot.buttons>> ELSE <<>>
        BY <1>1, <3>1, ToldFacts
      <4> HIDE DEF t
      <4>2. <<slot.buttons>> # <<>>
        OBVIOUS
      <4> QED BY <2>1, <3>1, <4>1, <4>2 DEF Rests
    <3>2. CASE q # <<>>
      <4>1. t = IF q[1].buttons = c THEN Tail(States(q)) ELSE States(q)
        BY <1>1, <3>2, ToldFacts
      <4>2. /\ States(q) \in Seq(ClickStates) /\ Len(States(q)) = Len(q) /\ States(q) # <<>>
        BY <1>2, <3>2, StatesFacts
      <4>3. q[Len(q)].buttons = slot.buttons
        BY <1>1, <3>2 DEF SlotOK, M!Newest
      <4> HIDE DEF t
      <4>4. ASSUME t = <<>>
            PROVE  c = slot.buttons
        <5>1. Tail(States(q)) = <<>> /\ q[1].buttons = c
          BY <4>1, <4>2, <4>4
        <5>2. ASSUME NEW u \in Seq(ClickStates), u # <<>>, Tail(u) = <<>>
              PROVE  Len(u) = 1
          <6>1. Len(Tail(u)) = Len(u) - 1
            BY <5>2
          <6>2. Len(Tail(u)) = 0
            <7>1. Len(<<>>) = 0
              OBVIOUS
            <7> QED BY <5>2, <7>1, Zenon
          <6>3. Len(u) \in Nat
            BY <5>2
          <6> QED BY <6>1, <6>2, <6>3
        <5>3. Len(q) = 1
          BY <4>2, <5>1, <5>2
        <5> QED BY <4>3, <5>1, <5>3
      <4> QED BY <4>4
    <3> QED BY <3>1, <3>2
  <2>5. t # <<>> => newest(t) = slot.buttons
    <3>1. CASE q = <<>>
      <4>1. t = IF slot.dirty /\ slot.buttons # c THEN <<slot.buttons>> ELSE <<>>
        BY <1>1, <3>1, ToldFacts
      <4> HIDE DEF t
      <4> QED BY <4>1
    <3>2. CASE q # <<>>
      <4>1. t = IF q[1].buttons = c THEN Tail(States(q)) ELSE States(q)
        BY <1>1, <3>2, ToldFacts
      <4>2. /\ States(q) \in Seq(ClickStates) /\ Len(States(q)) = Len(q) /\ States(q) # <<>>
            /\ \A i \in 1..Len(q) : States(q)[i] = q[i].buttons
        BY <1>2, <3>2, StatesFacts
      <4>3. q[Len(q)].buttons = slot.buttons /\ Len(q) \in 1..Len(q)
        BY <1>1, <1>2, <3>2 DEF SlotOK, M!Newest
      <4>4. newest(States(q)) = slot.buttons
        BY <4>2, <4>3
      <4>5. \A u \in Seq(ClickStates) : u # <<>> /\ Tail(u) # <<>> => newest(Tail(u)) = newest(u)
        OBVIOUS
      <4> HIDE DEF t, newest
      <4> QED BY <4>1, <4>2, <4>4, <4>5
    <3> QED BY <3>1, <3>2
  <2> HIDE DEF t
  <2>6. \A u, v \in Seq(ClickStates), b \in ClickStates :
          newest(<<b>> \o (u \o v)) = IF v = <<>> THEN newest(<<b>> \o u) ELSE newest(v)
    OBVIOUS
  <2>7. newest(<<host>> \o (f \o t)) = slot.buttons
    <3> HIDE DEF newest, c
    <3> QED BY <2>1, <2>2, <2>3, <2>4, <2>5, <2>6
  <2> QED BY <2>2, <2>7
<1>7. M!EndsRight
  BY <1>6 DEF M!EndsRight, M!Ready
<1> QED BY <1>3, <1>4, <1>5, <1>7 DEF M!MouseSafety

\* Whatever is not dropped on purpose reaches the computer: movement to the
\* fraction of a step and clicks in order, and while HOME is taken to be held the
\* pointer rests (hid_input.c, hid_input_mouse, flush_mouse, hid_input_keyboard).
THEOREM MouseIsSafe == M!Spec => []MouseSafety
<1>1. M!Spec => []MouseInv
  BY MouseInit, MouseStep, PTL DEF M!Spec
<1>2. MouseInv => MouseSafety
  BY MouseInvIsSafe DEF MouseSafety
<1> QED BY <1>1, <1>2, PTL

=============================================================================
