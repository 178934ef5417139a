------------------------------ MODULE HidInput ------------------------------
(***************************************************************************)
(* The input engine of the bridge firmware, hid_input.c with input_codec.c *)
(* and the run of a macro (macro.c): which mode applies, what the buttons  *)
(* of the remote hold down at the host, and when a button starts or stops  *)
(* a macro.  The handlers run on the NimBLE host task, one at a time.      *)
(*                                                                         *)
(* native is what the engine wants held at the host; UsbHid shows that the *)
(* host gets it, and MouseFlow where the motion goes.  The user presses    *)
(* the buttons (keys, mouse); a report carries all that is held.           *)
(***************************************************************************)
EXTENDS Naturals, FiniteSets

CONSTANTS
  Buttons,              \* buttons of the keyboard report
  Home, Cursor, Ok,     \* 0x4a, 0x6a and 0x28, which may also be a click
  Click,                \* the other mouse buttons: passed through
  Map,                  \* keymap: what a button holds down in each mode
  MacroSlots,           \* slots that may have a macro
  None,
  MaxHeld               \* bound: buttons held together

Modes == 0..1
Slots == Modes \X Buttons

ASSUME InputAssumption ==
  /\ {Home, Cursor, Ok} \subseteq Buttons /\ Click \notin Buttons /\ Ok \notin {Home, Cursor}
  /\ IsFiniteSet(Buttons) /\ MaxHeld \in Nat
  /\ DOMAIN Map = Slots
  /\ MacroSlots \subseteq Slots /\ None \notin Slots

VARIABLES
  \* the user and the remote
  keys, mouse,         \* what is held: buttons, and {Ok, Click} of the mouse report
  linked,              \* the remote is connected and subscribed
  released,            \* ghost: buttons up at some time since the last clear
  missed,              \* ghost: buttons held since then, of which the engine lost track
  sure,                \* ghost: buttons whose next press has to start a macro
  \* hid_input.c
  cursor_mode, mode_known,
  remote_keys, remote_mouse,
  native,              \* native[].data without what a macro types
  macro_down, macro_armed, macro_pending,
  \* macro.c
  enabled,             \* slots with an enabled macro
  run,                 \* run.active and run.release
  typed                \* the macro holds a key down

userVars  == <<keys, mouse, linked>>
ghosts    == <<released, missed, sure>>
modeVars  == <<cursor_mode, mode_known>>
remoteVars == <<remote_keys, remote_mouse>>
macroVars == <<macro_down, macro_armed, macro_pending>>
runVars   == <<enabled, run, typed>>
vars == <<userVars, ghosts, modeVars, remoteVars, native, macroVars, runVars>>

Held(k, m) == k \union (m \intersect {Ok})
Outputs == {Click} \union UNION {Map[s] : s \in Slots}
Reports == {k \in SUBSET Buttons : Cardinality(k) <= MaxHeld}
Clicks  == SUBSET {Ok, Click}
Mode    == IF cursor_mode THEN 1 ELSE 0

TypeOK ==
  /\ keys \in Reports /\ mouse \in Clicks /\ linked \in BOOLEAN
  /\ released \subseteq Buttons /\ missed \subseteq Buttons /\ sure \subseteq Buttons
  /\ cursor_mode \in BOOLEAN /\ mode_known \in BOOLEAN /\ (cursor_mode => mode_known)
  /\ remote_keys \in Reports /\ remote_mouse \in Clicks
  /\ native \subseteq Outputs
  /\ macro_down \subseteq Buttons /\ macro_armed \subseteq Buttons
  /\ macro_pending \in MacroSlots \union {None}
  /\ enabled \subseteq MacroSlots
  /\ run \in {"off", "active", "release"} /\ typed \in BOOLEAN

Init ==
  /\ keys = {} /\ mouse = {} /\ linked = FALSE
  /\ released = Buttons /\ missed = {} /\ sure = {}
  /\ cursor_mode = FALSE /\ mode_known = FALSE
  /\ remote_keys = {} /\ remote_mouse = {} /\ native = {}
  /\ macro_down = {} /\ macro_armed = {} /\ macro_pending = None
  /\ enabled \in SUBSET MacroSlots /\ run = "off" /\ typed = FALSE

-----------------------------------------------------------------------------
(* Clearing.                                                               *)

\* macro_cancel: a running macro still has to release its keys.
Cancelled(r) == IF r = "active" THEN "release" ELSE r

\* clear_native; the buttons in armed may start a macro at their next press.
Clear(down, armed) ==
  /\ native' = {}
  /\ macro_pending' = None /\ run' = Cancelled(run)
  /\ macro_down' = down /\ macro_armed' = armed
  /\ UNCHANGED typed

\* The ghosts, when nothing is mapped or cleared, when a report is mapped that
\* need not show all that is held, and when everything is cleared.
Up     == Buttons \ Held(keys, mouse)
Hidden == Held(keys, mouse) \ Held(remote_keys, remote_mouse)

Tracked == released' = released \union Up' /\ UNCHANGED <<missed, sure>>

Reported ==
  /\ released' = released \union Up' /\ missed' = missed \union Hidden'
  /\ UNCHANGED sure

Cleared == released' = Up' /\ missed' = {} /\ sure' = {}

Forget == remote_keys' = {} /\ remote_mouse' = {}

\* Mutant: the outputs of the old mode stay.
SetMode_KeepsOutputs(cursor) ==
  IF mode_known /\ cursor_mode = cursor
  THEN Tracked /\ UNCHANGED <<modeVars, remoteVars, native, macroVars, runVars>>
  ELSE /\ cursor_mode' = cursor /\ mode_known' = TRUE
       /\ Forget /\ Cleared
       /\ macro_down' = {} /\ macro_armed' = {} /\ macro_pending' = None
       /\ run' = Cancelled(run)
       /\ UNCHANGED <<native, enabled, typed>>

\* Mutant: the mode is not noted as known.
SetMode_StaysUnknown(cursor) ==
  IF mode_known /\ cursor_mode = cursor
  THEN Tracked /\ UNCHANGED <<modeVars, remoteVars, native, macroVars, runVars>>
  ELSE /\ cursor_mode' = cursor /\ UNCHANGED mode_known
       /\ Forget /\ Cleared /\ Clear({}, {}) /\ UNCHANGED enabled

\* set_mapping_mode
SetMode(cursor) ==
  IF mode_known /\ cursor_mode = cursor
  THEN Tracked /\ UNCHANGED <<modeVars, remoteVars, native, macroVars, runVars>>
  ELSE /\ cursor_mode' = cursor /\ mode_known' = TRUE
       /\ Forget /\ Cleared /\ Clear({}, {}) /\ UNCHANGED enabled

-----------------------------------------------------------------------------
(* Mapping a report.                                                       *)

\* The pause key of the cursor mode and the mode key map to nothing.
Unmapped(mode) == {Cursor} \union (IF mode = 1 THEN {Home} ELSE {})

\* macro_slot of the buttons held.
Pressed(k, m, mode) == Held(k, m) \ Unmapped(mode)

\* input_map, with the buttons of enabled macros filtered out.
Mapped(k, m, mode) ==
  (m \intersect {Click})
  \union UNION {Map[<<mode, b>>] : b \in {c \in Pressed(k, m, mode) : <<mode, c>> \notin enabled}}

Rising(pressed) == (pressed \ macro_down) \intersect macro_armed

\* Mutant: a macro that waits does not count.
Busy_Running == run # "off"

Busy == run # "off" \/ macro_pending # None

\* map_remote: a new button stops the macro that runs or waits; else the first
\* one with a macro makes it wait, if the host is ready, until the release
\* scheduled by clear_native has drained; else the buttons are mapped.
MapRemote(k, m, mode, ready) ==
  LET pressed == Pressed(k, m, mode)
      rising  == Rising(pressed)
      wanted  == {b \in rising : ready /\ <<mode, b>> \in enabled}
  IN  IF rising # {} /\ Busy THEN Clear({}, {}) /\ Cleared /\ UNCHANGED enabled
      ELSE /\ macro_down' = pressed
           /\ UNCHANGED runVars
           /\ IF wanted # {}
              THEN /\ native' = {} /\ macro_armed' = Buttons \ pressed
                   /\ released' = Up' /\ missed' = Hidden' /\ UNCHANGED sure
                   /\ \E b \in wanted : macro_pending' = <<mode, b>>
              ELSE /\ native' = IF Busy THEN native ELSE Mapped(k, m, mode)
                   /\ macro_armed' = macro_armed \union (Buttons \ pressed)
                   /\ Reported /\ UNCHANGED macro_pending

-----------------------------------------------------------------------------
(* The handlers.                                                           *)

\* hid_input_keyboard: the remote reports the buttons k.  It reports OK here
\* in the normal mode and as a click in the cursor mode.
Keyboard(k, ready) ==
  /\ linked /\ (cursor_mode => Ok \notin k)
  /\ keys' = k /\ UNCHANGED linked
  /\ mouse' = IF cursor_mode THEN mouse ELSE mouse \ {Ok}
  /\ remote_keys' = k /\ UNCHANGED remote_mouse
  /\ MapRemote(k, remote_mouse, Mode, ready)
  /\ UNCHANGED modeVars

\* hid_input_remote_mouse with a known mode; trailing reports are ignored.
RemoteMouse(m, ready) ==
  /\ linked /\ mode_known /\ UNCHANGED linked
  /\ mouse' = m /\ keys' = IF cursor_mode THEN keys \ {Ok} ELSE keys
  /\ IF cursor_mode
     THEN /\ remote_mouse' = m /\ UNCHANGED remote_keys
          /\ MapRemote(remote_keys, m, 1, ready)
     ELSE Tracked /\ UNCHANGED <<remoteVars, native, macroVars, runVars>>
  /\ UNCHANGED modeVars

\* hid_input_remote_mouse with an unknown mode: set_mapping_mode(true), and
\* then map_remote over the cleared state.
FirstMouse(m) ==
  /\ linked /\ ~mode_known /\ UNCHANGED linked
  /\ mouse' = m /\ keys' = keys \ {Ok}
  /\ cursor_mode' = TRUE /\ mode_known' = TRUE
  /\ remote_keys' = {} /\ remote_mouse' = m
  /\ native' = IF run = "off" THEN Mapped({}, m, 1) ELSE {}
  /\ macro_down' = Held({}, m) /\ macro_armed' = Buttons \ Held({}, m)
  /\ macro_pending' = None /\ run' = Cancelled(run)
  /\ UNCHANGED <<enabled, typed>>
  /\ released' = Up' /\ missed' = Hidden' /\ sure' = {}

\* hid_input_sensor_mode: STOP ends the cursor mode only after the mode key
\* alone; otherwise the sensor pauses.
SensorMode(cursor) ==
  /\ linked
  /\ UNCHANGED userVars
  /\ IF cursor \/ remote_keys = {Cursor} \/ ~mode_known
     THEN SetMode(cursor)
     ELSE Tracked /\ UNCHANGED <<modeVars, remoteVars, native, macroVars, runVars>>

\* hid_input_remote_ready
RemoteReady ==
  /\ ~linked /\ linked' = TRUE
  /\ UNCHANGED <<keys, mouse, ghosts, modeVars, remoteVars, native, macroVars, runVars>>

RemoteLost ==
  /\ linked /\ linked' = FALSE /\ UNCHANGED <<keys, mouse>>
  /\ cursor_mode' = FALSE /\ mode_known' = FALSE
  /\ Forget /\ Clear({}, {}) /\ Cleared /\ UNCHANGED enabled

\* The user goes on pressing while the remote is not connected.
Unseen(k, m) ==
  /\ ~linked /\ keys' = k /\ mouse' = m /\ Tracked
  /\ UNCHANGED <<linked, modeVars, remoteVars, native, macroVars, runVars>>

\* hid_input_mapping_changed: the settings were saved, or the USB host changed.
MappingChanged ==
  /\ UNCHANGED <<userVars, modeVars, enabled>>
  /\ Forget /\ Clear({}, {}) /\ Cleared

\* A stop: the buttons held need a release, as far as the engine knows of them;
\* the others need none.
Rested ==
  /\ released' = Up /\ missed' = Held(keys, mouse) \ macro_down
  /\ sure' = Buttons \ macro_down
  /\ UNCHANGED <<userVars, modeVars, remoteVars>>

\* Mutant: all buttons are armed and none is known to be held.
Stop_ArmsAll ==
  /\ Clear({}, Buttons)
  /\ Rested

\* Mutant: nothing is armed.
Stop_ArmsNone ==
  /\ Clear(macro_down, {})
  /\ Rested

\* hid_input_macro_stop: the buttons known to be held have to be released
\* before they start a macro, the others have not.
Stop ==
  /\ Clear(macro_down, Buttons \ macro_down)
  /\ Rested

\* A stop by the application, or a failed transfer (on_link).
MacroStop == Stop /\ UNCHANGED enabled

\* A macro is saved (feature_request): the stop is part of the commit.
MacroCommit(slots) == Stop /\ enabled' = slots

\* Mutant: the end of a macro does not wait for its last key.
Ticks_EndsTyping ==
  {<<run, typed>>}
  \union (IF run = "release" THEN {<<"off", FALSE>>} ELSE {})
  \union (IF run = "active" THEN {<<run, ~typed>>, <<"off", typed>>} ELSE {})

\* macro_tick: what is left of a cancelled macro is released; a running one
\* presses, releases, waits, goes on or, with no key down, ends.
Ticks ==
  {<<run, typed>>}
  \union (IF run = "release" THEN {<<"off", FALSE>>} ELSE {})
  \union (IF run = "active" THEN {<<run, ~typed>>} ELSE {})
  \union (IF run = "active" /\ ~typed THEN {<<"off", FALSE>>} ELSE {})

\* on_macro_tick with a ready host: then the waiting macro starts.
MacroTick ==
  \E next \in Ticks :
    /\ typed' = next[2]
    /\ IF macro_pending # None /\ next[1] = "off"
       THEN /\ run' = IF macro_pending \in enabled THEN "active" ELSE "off"
            /\ macro_pending' = None
       ELSE run' = next[1] /\ UNCHANGED macro_pending
    /\ UNCHANGED <<userVars, ghosts, modeVars, remoteVars, native, macro_down,
                   macro_armed, enabled>>

Next ==
  \/ \E k \in Reports, ready \in BOOLEAN : Keyboard(k, ready)
  \/ \E m \in Clicks, ready \in BOOLEAN : RemoteMouse(m, ready)
  \/ \E m \in Clicks : FirstMouse(m)
  \/ \E cursor \in BOOLEAN : SensorMode(cursor)
  \/ RemoteReady \/ RemoteLost
  \/ \E k \in Reports, m \in Clicks : Unseen(k, m)
  \/ MappingChanged \/ MacroStop
  \/ \E slots \in SUBSET MacroSlots : MacroCommit(slots)
  \/ MacroTick

Spec == Init /\ [][Next]_vars

-----------------------------------------------------------------------------
(* Properties.                                                             *)

\* What the engine holds down at the host is held by the user: by a button in
\* the mode that applies and without a macro.  No change of mode, settings,
\* host or link and no macro leaves a ghost.
HeldIsPressed ==
  \A o \in native :
    \/ o = Click /\ Click \in mouse
    \/ \E b \in Held(keys, mouse) \ Unmapped(Mode) :
         o \in Map[<<Mode, b>>] /\ <<Mode, b>> \notin enabled

\* hid_input.c:155: manual keys and clicks are never mixed with a string.
NoMixed == run = "active" \/ macro_pending # None => native = {}

\* A key that a macro holds down belongs to one that runs or has yet to
\* release it, however it was stopped.
TypedIsReleased == typed => run # "off"

\* hid_input.c:288: after a stop the very next press starts a macro, whatever
\* was released, pressed or started since.
StopRearms == sure \ Held(keys, mouse) \subseteq macro_armed

\* hid_input.c:289, python/README.md:138: a macro starts by a button that was up
\* at some time since everything was last cleared: by a lost link, a change of
\* mode, settings or host, the start of a macro, or a stop, be it by a button,
\* the application, a saved macro or a failed transfer.  Excepted are the
\* buttons the engine has lost track of (missed).  A lost link or a change of
\* mode, settings or host forgets what is held, and a keyboard report does not
\* show the buttons of the mouse report nor the other way round, so that the
\* first report may arm a button held all along; and a clear forgets
\* macro_down, which a stop before the next report takes for what is held.
StartIsFresh ==
  [][macro_pending' # macro_pending /\ macro_pending' # None
     => macro_pending'[2] \in released \union missed]_vars

\* The same without exception, which does not hold.
StartIsAnew ==
  [][macro_pending' # macro_pending /\ macro_pending' # None
     => macro_pending'[2] \in released]_vars

\* What the engine holds out to the host is held on the remote, comes from one
\* source at a time, no macro ends with its key down, and after a stop every button
\* that was not known to be held is ready for its next press.
InputSafety ==
  /\ TypeOK
  /\ HeldIsPressed
  /\ NoMixed
  /\ TypedIsReleased
  /\ StopRearms
=============================================================================
