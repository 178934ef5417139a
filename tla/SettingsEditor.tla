-------------------------- MODULE SettingsEditor --------------------------
(***************************************************************************)
(* The key editor of the window (app.py): what its widgets show, the       *)
(* drafts of the two profiles and the settings last read from a bridge.    *)
(* One profile is in the widgets; the other is in drafts alone.  Bridges   *)
(* hold what applications of any kind have sent, and what keymap_init has  *)
(* made of settings of older firmware.  Signals of widgets that populate   *)
(* sets are ignored (loading).                                             *)
(***************************************************************************)
EXTENDS SettingsFormat, FiniteSetsExt

CONSTANTS
  Buttons,       \* HID codes of the remote's buttons
  Listed,        \* ACTIONS, as [kind, key]
  Modifiers,     \* bits of the check boxes
  Speeds,        \* 1..12
  Defaults,      \* defaults_for_host, per profile
  DefaultSpeed,
  Sent,          \* values that applications send for a button
  Old            \* entries stored by older firmware

VARIABLES
  mode,          \* edit_mode: the profile in the widgets
  combo, items,  \* per button: the action chosen, those to choose from
  checks,        \* per button: the modifiers that are checked
  slider,        \* mouse_speed
  drafts,        \* per profile
  baseline, baselineSpeed,
  dirty,
  unreadable     \* Snapshot.decode has refused a bridge's settings

widgets == <<mode, combo, items, checks, slider>>
vars    == <<widgets, drafts, baseline, baselineSpeed, dirty, unreadable>>

Profiles == {0, 1}
Entry    == [kind : 0..3, key : 0..127, modifiers : 0..15]

Action(e) == [kind |-> e.kind, key |-> e.key]

Nothing == [kind |-> Kinds.none, key |-> 0]

\* What a list may have in it: ACTIONS, and keys that only bridges have.
Actions ==
  {a \in [kind : 0..3, key : 0..127] :
     AppTakes([kind |-> a.kind, key |-> a.key, modifiers |-> 0], Ok, 0)}

\* What a bridge may hold for the button, as keymap_read sends it.
Held(b, p) == {Packed(Unpacked(v)) : v \in {w \in Sent : BridgeTakes(w, b, p)}}
                \cup {Packed(Migrated(e, b, p)) : e \in {f \in Old : OldValid(f)}}

\* The contents of bridges: one button of a new one has been changed.
With(p, b, v) ==
  [s \in Profiles |-> [c \in Buttons |-> IF s = p /\ c = b THEN v ELSE Packed(Defaults[s][c])]]

Contents ==
  UNION {{With(p, b, v) : v \in Held(b, p)} : p \in Profiles, b \in Buttons}

Readable(content) == \A p \in Profiles, b \in Buttons : AppReads(content[p][b], b, p)

\* Snapshot.decode
Decoded(content) == [p \in Profiles |-> [b \in Buttons |-> Unpacked(content[p][b])]]

ASSUME SettingsEditorAssumption ==
  /\ {Cursor, Home, Ok} \subseteq Buttons
  /\ Nothing \in Listed /\ Listed \subseteq Actions
  /\ Modifiers \subseteq {1, 2, 4, 8}
  /\ DefaultSpeed \in Speeds

\* What applications send is 16 bits, what older firmware stored three bytes.
ASSUME SentAssumption == \A v \in Sent : v \in Nat /\ v < 65536

ASSUME OldAssumption ==
  Old \subseteq [kind : 0..255, key : 0..255, modifiers : 0..255]

ASSUME DefaultsAssumption ==
  /\ Defaults \in [Profiles -> [Buttons -> Entry]]
  /\ \A p \in Profiles, b \in Buttons : AppTakes(Defaults[p][b], b, p)
  /\ \A b \in Buttons : Action(Defaults[0][b]) \in Listed

\* What entries adds up is four bits.
ASSUME SumAssumption == \A checked \in SUBSET Modifiers : SumSet(checked) \in 0..15

\* The boxes that populate checks for the modifiers m.
Boxes(m) == {bit \in Modifiers : (m \div bit) % 2 = 1}

\* The boxes show these modifiers, and entries adds them up again.
Shown(m) == SumSet(Boxes(m)) = m

\* There is a box for every bit that is in use; the window has all four.
ASSUME BoxesAssumption ==
  /\ Shown(0)
  /\ \A checked \in SUBSET Modifiers : Shown(SumSet(checked))
  /\ \A p \in Profiles, b \in Buttons : Shown(Defaults[p][b].modifiers)
  /\ \A v \in Sent : Shown(Bits(v, 512, 16))
  /\ \A e \in Old : OldValid(e) => Shown(e.modifiers)

-----------------------------------------------------------------------------
\* entries: the profile in the widgets.
Entries ==
  [b \in Buttons |->
     [kind |-> combo[b].kind, key |-> combo[b].key,
      modifiers |-> IF combo[b].kind = Kinds.key THEN SumSet(checks[b]) ELSE 0]]

\* profiles
Current == [drafts EXCEPT ![mode] = Entries]

\* Mutant: the slider is forgotten.
Differs_ButtonsOnly == Current # baseline

\* There is something to save.
Differs == Current # baseline \/ slider # baselineSpeed

\* edited: the profile goes to drafts, dirty is worked out again.
Edited ==
  /\ drafts' = [drafts EXCEPT ![mode'] = Entries']
  /\ dirty' = Differs'

\* Mutant: a key the list lacks is not added to it.
Offered_Listed(b, action) == items[b]

\* populate adds the keys that only the bridge's settings have.
Offered(b, action) == items[b] \cup {action}

Chosen(entries, b) ==
  IF Reserved(b, mode') THEN Nothing ELSE Action(entries[b])

\* populate; what the list lacks cannot be chosen in it.
Populate(entries) ==
  /\ items' = [b \in Buttons |-> Offered(b, Chosen(entries, b))]
  /\ combo' = [b \in Buttons |->
                 IF Chosen(entries, b) \in items'[b]
                 THEN Chosen(entries, b) ELSE combo[b]]
  /\ checks' = [b \in Buttons |->
                  IF Reserved(b, mode') THEN {} ELSE Boxes(entries[b].modifiers)]

Init ==
  /\ mode = 0 /\ slider = DefaultSpeed
  /\ combo = [b \in Buttons |-> Action(Defaults[0][b])]
  /\ items = [b \in Buttons |-> IF b = Cursor THEN {Nothing} ELSE Listed]
  /\ checks = [b \in Buttons |-> Boxes(Defaults[0][b].modifiers)]
  /\ drafts = Defaults
  /\ baseline = Defaults /\ baselineSpeed = DefaultSpeed
  /\ dirty = FALSE /\ unreadable = FALSE

-----------------------------------------------------------------------------
\* Mutant: modifiers survive a change to an action that takes none.
Unchecked_Kept(b, action) == checks[b]

Unchecked(b, action) == IF action.kind = Kinds.key THEN checks[b] ELSE {}

\* Mutant: the list of a reserved button stays enabled.
Free_Always(b) == TRUE

\* populate enables the lists of the buttons that may have any action.
Free(b) == ~Reserved(b, mode)

\* action_changed
Pick(b, action) ==
  /\ Free(b) /\ action # combo[b]
  /\ combo' = [combo EXCEPT ![b] = action]
  /\ checks' = [checks EXCEPT ![b] = Unchecked(b, action)]
  /\ UNCHANGED <<mode, items, slider, baseline, baselineSpeed, unreadable>>
  /\ Edited

\* A check box is toggled; they are enabled for keys only.
Toggle(b, bit) ==
  /\ combo[b].kind = Kinds.key
  /\ checks' = [checks EXCEPT ![b] = IF bit \in @ THEN @ \ {bit} ELSE @ \cup {bit}]
  /\ UNCHANGED <<mode, combo, items, slider, baseline, baselineSpeed, unreadable>>
  /\ Edited

\* speed_changed; the slider is there in the mouse profile.
SpeedChanged(speed) ==
  /\ mode = 1 /\ speed # slider /\ slider' = speed
  /\ UNCHANGED <<mode, combo, items, checks, baseline, baselineSpeed, unreadable>>
  /\ Edited

\* Mutant: edit_mode is set first, and the widgets go to the other profile.
Left_Swapped == [drafts EXCEPT ![mode'] = Entries]

\* The profile that is left goes to drafts.
Left == Current

\* switch_mapping_mode
Switch ==
  /\ mode' = 1 - mode
  /\ UNCHANGED <<slider, baseline, baselineSpeed, unreadable>>
  /\ Populate(Left[mode'])
  /\ drafts' = [Left EXCEPT ![mode'] = Entries']
  /\ dirty' = Differs'

\* load_defaults; the speed is one of the mouse profile.
LoadDefaults ==
  /\ UNCHANGED mode
  /\ Populate(Defaults[mode])
  /\ slider' = IF mode = 1 THEN DefaultSpeed ELSE slider
  /\ UNCHANGED <<baseline, baselineSpeed, unreadable>>
  /\ Edited

\* on_settings; a draft is preserved when the settings come with a
\* connection.  In the code drafts is then set twice, to the same.
OnSettings(content, speed, connecting) ==
  /\ UNCHANGED <<mode, unreadable>>
  /\ baseline' = Decoded(content) /\ baselineSpeed' = speed
  /\ IF connecting /\ dirty
     THEN /\ UNCHANGED <<combo, items, checks, slider>>
          /\ drafts' = Current
     ELSE /\ Populate(Decoded(content)[mode])
          /\ slider' = speed
          /\ drafts' = [Decoded(content) EXCEPT ![mode] = Entries']
  /\ dirty' = Differs'

\* What decode raises, the worker reports, and the editor stays as it is.
OnProblem ==
  /\ unreadable' = TRUE
  /\ UNCHANGED <<widgets, drafts, baseline, baselineSpeed, dirty>>

\* read_settings of a bridge, and what comes of it.
Get(content, speed, connecting) ==
  IF Readable(content) THEN OnSettings(content, speed, connecting) ELSE OnProblem

Next ==
  \/ \E b \in Buttons : \E a \in items[b] : Pick(b, a)
  \/ \E b \in Buttons, bit \in Modifiers : Toggle(b, bit)
  \/ \E s \in Speeds : SpeedChanged(s)
  \/ Switch
  \/ LoadDefaults
  \/ \E content \in Contents, s \in Speeds, connecting \in BOOLEAN :
       Get(content, s, connecting)

Spec == Init /\ [][Next]_vars

-----------------------------------------------------------------------------
(* Properties.                                                             *)

ProfilesType == [Profiles -> [Buttons -> Entry]]

\* The type invariant.  The list of a button offers what it shows, and boxes
\* are checked for keys only: the summary of the button names those checked.
TypeOK ==
  /\ mode \in Profiles
  /\ combo \in [Buttons -> Actions] /\ items \in [Buttons -> SUBSET Actions]
  /\ \A b \in Buttons : combo[b] \in items[b]
  /\ checks \in [Buttons -> SUBSET Modifiers] /\ slider \in Speeds
  /\ \A b \in Buttons : combo[b].kind # Kinds.key => checks[b] = {}
  /\ drafts \in ProfilesType /\ baseline \in ProfilesType
  /\ baselineSpeed \in Speeds /\ dirty \in BOOLEAN /\ unreadable \in BOOLEAN

\* The save button's dirty is right after every event: set when and only
\* when the settings on the screen differ from those of the bridge, in
\* either profile or in the speed.
DirtyIsRight == dirty <=> (Current # baseline \/ slider # baselineSpeed)

\* No editing, in whatever order the profiles, the defaults and other bridges'
\* settings come, ends in settings that encode or the bridge refuses, or that
\* the bridge holds otherwise than they were on the screen.
SavedIsKept ==
  \A p \in Profiles, b \in Buttons :
    LET e == Current[p][b]
    IN  AppTakes(e, b, p) /\ BridgeTakes(Packed(e), b, p) /\ Unpacked(Packed(e)) = e

\* Whatever a bridge holds, also what it has made of settings of older
\* firmware, the application can read it.
AlwaysReadable == ~unreadable

\* Changing to the other profile changes neither of them.
SwitchKeeps == [][mode' # mode => Current' = Current /\ dirty' = dirty]_vars

\* When settings of a bridge replace a draft without edits, the window shows these
\* settings, those of keys its list lacks included, and nothing to save.
ShownIsRead ==
  [][(baseline' # baseline /\ ~dirty)
       => Current' = baseline' /\ slider' = baselineSpeed' /\ ~dirty']_vars

\* Whatever the user does, the settings can be saved, come back as they were
\* shown, and can be read again.
EditorSafety ==
  /\ TypeOK
  /\ SavedIsKept
  /\ AlwaysReadable

\* An edit is neither lost nor invented by showing another profile or reading.
EditsAreKept ==
  /\ SwitchKeeps
  /\ ShownIsRead
=============================================================================
