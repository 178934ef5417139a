--------------------------- MODULE SettingsProofs ---------------------------
(***************************************************************************)
(* Proofs about SettingsFormat and SettingsEditor, for every one of the    *)
(* 2^16 values, all buttons, defaults and contents of bridges: firmware    *)
(* and application judge alike, values survive the way there and back, and *)
(* what the editor ends with can be saved.                                 *)
(*                                                                         *)
(* The second half is about DebugView, the other side of the window.  The  *)
(* rows of the history, the events in batches on their way and those that  *)
(* wait for the next batch are one stream.  In it the runs of the decoder  *)
(* follow each other, each with one label; the changes of a key alternate; *)
(* and what the decoder holds is what the last change of the key says.     *)
(* Every step of the worker and of the window appends to the stream, cuts  *)
(* its end or takes something out that nothing shown belongs with.  The    *)
(* counts of losses are exact because the numbers of two reports on the    *)
(* wire, one after the other, never lie further apart than what was lost.  *)
(***************************************************************************)
EXTENDS SettingsEditor, DebugView, FiniteSetTheorems, TLAPS

-----------------------------------------------------------------------------
(* The format.                                                             *)

\* Values are taken apart into numbers of the right width.
LEMMA UnpackedType ==
  ASSUME NEW v \in Nat
  PROVE  Unpacked(v) \in Entry
<1>1. v % 128 \in 0..127
  OBVIOUS
<1>2. (v \div 128) % 4 \in 0..3
  OBVIOUS
<1>3. (v \div 512) % 16 \in 0..15
  OBVIOUS
<1> QED BY <1>1, <1>2, <1>3 DEF Unpacked, Entry, Bits

\* Entries are put together into values of 13 bits.
LEMMA PackedType ==
  ASSUME NEW e \in Entry
  PROVE  Packed(e) \in Nat /\ Packed(e) < 8192
<1> DEFINE key == e.key
           kind == e.kind
           modifiers == e.modifiers
<1>1. key \in 0..127 /\ kind \in 0..3 /\ modifiers \in 0..15
  BY DEF Entry
<1>2. Packed(e) = key + 128 * kind + 512 * modifiers
  BY Zenon DEF Packed
<1> HIDE DEF key, kind, modifiers
<1> QED BY <1>1, <1>2

\* What keymap_read and Snapshot.encode put together, decode takes apart into
\* the same: no field of a value reaches into another one.
THEOREM RoundTrip ==
  ASSUME NEW e \in Entry
  PROVE  Unpacked(Packed(e)) = e
<1>1. PICK key \in 0..127, kind \in 0..3, modifiers \in 0..15 :
             e = [kind |-> kind, key |-> key, modifiers |-> modifiers]
  BY DEF Entry
<1>2. PICK v \in Nat : v = key + 128 * kind + 512 * modifiers
  OBVIOUS
<1>3. Packed(e) = v
  BY <1>1, <1>2 DEF Packed
<1>4. v % 128 = key /\ (v \div 128) % 4 = kind /\ (v \div 512) % 16 = modifiers
  <2>1. v % 128 = key
    BY <1>2
  <2>2. v \div 128 = kind + 4 * modifiers
    BY <1>2
  <2>3. (kind + 4 * modifiers) % 4 = kind
    OBVIOUS
  <2>4. v \div 512 = modifiers
    BY <1>2
  <2>5. modifiers % 16 = modifiers
    OBVIOUS
  <2> QED BY <2>1, <2>2, <2>3, <2>4, <2>5
<1>5. Bits(v, 128, 4) = kind /\ Bits(v, 512, 16) = modifiers
  BY <1>4 DEF Bits
<1>6. Unpacked(v) = e
  BY <1>1, <1>4, <1>5, Zenon DEF Unpacked
<1> QED BY <1>3, <1>6

\* And the other way round, for the values without reserved bits.
LEMMA BackAgain ==
  ASSUME NEW v \in Nat, v < 8192
  PROVE  Packed(Unpacked(v)) = v
<1>1. (v \div 128) % 4 = (v \div 128) - 4 * (v \div 512)
  OBVIOUS
<1>2. (v \div 512) % 16 = v \div 512
  <2>1. v \div 512 < 16
    OBVIOUS
  <2>2. v \div 512 \in Nat
    OBVIOUS
  <2>3. ASSUME NEW q \in Nat, q < 16 PROVE q % 16 = q
    BY <2>3
  <2> QED BY <2>1, <2>2, <2>3
<1>3. v % 128 = v - 128 * (v \div 128)
  OBVIOUS
<1>4. (v % 128) + 128 * ((v \div 128) - 4 * (v \div 512)) + 512 * (v \div 512) = v
  BY <1>3
<1> QED BY <1>1, <1>2, <1>4 DEF Packed, Unpacked, Bits

\* The rules of the two programs for an entry are the same.
LEMMA SameEntries ==
  ASSUME NEW e \in Entry, NEW b, NEW p
  PROVE  AppTakes(e, b, p) <=> ValidEntry(e) /\ (Reserved(b, p) => e = None)
<1>1. e.kind \in 0..3 /\ e.key \in 0..127 /\ e.modifiers \in 0..15
  BY DEF Entry
<1>2. e = None <=> e.kind = 0 /\ e.key = 0 /\ e.modifiers = 0
  BY DEF Entry, None, Kinds
<1>3. CASE e.kind = 0
  BY <1>1, <1>2, <1>3 DEF AppTakes, ValidEntry, Kinds
<1>4. CASE e.kind = 1
  BY <1>1, <1>2, <1>4 DEF AppTakes, ValidEntry, Kinds
<1>5. CASE e.kind = 2
  BY <1>1, <1>2, <1>5 DEF AppTakes, ValidEntry, Kinds
<1>6. CASE e.kind = 3
  BY <1>1, <1>2, <1>6 DEF AppTakes, ValidEntry, Kinds
<1> QED BY <1>1, <1>3, <1>4, <1>5, <1>6

\* The bridge takes exactly the values that the application can read: what one
\* application saves never locks out this one, and none of the settings this
\* one can show is refused.
THEOREM SameRules ==
  ASSUME NEW v \in Nat, NEW b, NEW p
  PROVE  BridgeTakes(v, b, p) <=> AppReads(v, b, p)
<1>1. CASE ~(v < 8192)
  BY <1>1 DEF BridgeTakes, AppReads
<1>2. CASE v < 8192
  <2>1. Unpacked(v) \in Entry
    BY UnpackedType
  <2>2. Packed(None) = 0 /\ Unpacked(0) = None
    BY DEF Packed, Unpacked, None, Kinds, Bits
  <2>3. v = 0 <=> Unpacked(v) = None
    BY <1>2, <2>2, BackAgain
  <2> QED BY <1>2, <2>1, <2>3, SameEntries DEF BridgeTakes, AppReads
<1> QED BY <1>1, <1>2

\* What keymap_init makes of old settings is what decode would take.
LEMMA MigratedType ==
  ASSUME NEW e \in [kind : 0..255, key : 0..255, modifiers : 0..255], OldValid(e),
         NEW b, NEW p
  PROVE  LET m == Migrated(e, b, p)
         IN  m \in Entry /\ ValidEntry(m) /\ (Reserved(b, p) => m = None)
<1>1. e \in Entry /\ ValidEntry(e)
  <2>1. e.kind \in 0..2
    BY DEF OldValid, Kinds
  <2>2. e.key \in 0..127 /\ e.modifiers \in 0..15
    BY <2>1 DEF OldValid, ValidEntry, Kinds
  <2> QED BY <2>1, <2>2 DEF Entry, OldValid
<1> QED BY <1>1 DEF Migrated, Entry, None, Kinds, ValidEntry

\* The application can read it.
LEMMA MigratedReadable ==
  ASSUME NEW e \in [kind : 0..255, key : 0..255, modifiers : 0..255], OldValid(e),
         NEW b, NEW p
  PROVE  Packed(Migrated(e, b, p)) \in Nat /\ AppReads(Packed(Migrated(e, b, p)), b, p)
<1> DEFINE m == Migrated(e, b, p)
<1>1. m \in Entry /\ ValidEntry(m) /\ (Reserved(b, p) => m = None)
  BY MigratedType
<1>2. AppTakes(m, b, p)
  BY <1>1, SameEntries
<1>3. Packed(m) \in Nat /\ Packed(m) < 8192 /\ Unpacked(Packed(m)) = m
  BY <1>1, PackedType, RoundTrip
<1> QED BY <1>2, <1>3 DEF AppReads

\* Nor can a bridge hold anything else that the application cannot read.
LEMMA HeldReadable ==
  ASSUME NEW b \in Buttons, NEW p \in Profiles, NEW v \in Held(b, p)
  PROVE  v \in Nat /\ AppReads(v, b, p)
<1>1. CASE \E w \in Sent : BridgeTakes(w, b, p) /\ v = Packed(Unpacked(w))
  <2>1. PICK w \in Sent : BridgeTakes(w, b, p) /\ v = Packed(Unpacked(w))
    BY <1>1
  <2>2. w \in Nat
    BY SentAssumption
  <2>3. w < 8192 /\ AppReads(w, b, p)
    BY <2>1, <2>2, SameRules DEF BridgeTakes
  <2>4. v = w
    BY <2>1, <2>2, <2>3, BackAgain
  <2> QED BY <2>2, <2>3, <2>4
<1>2. CASE \E e \in Old : OldValid(e) /\ v = Packed(Migrated(e, b, p))
  <2>1. PICK e \in Old : OldValid(e) /\ v = Packed(Migrated(e, b, p))
    BY <1>2
  <2>2. e \in [kind : 0..255, key : 0..255, modifiers : 0..255]
    BY OldAssumption
  <2> QED BY <2>1, <2>2, MigratedReadable
<1> QED BY <1>1, <1>2 DEF Held

-----------------------------------------------------------------------------
(* The editor.                                                             *)

\* What the widgets show is a profile that can be saved.
WidgetsOK ==
  /\ mode \in Profiles
  /\ combo \in [Buttons -> Actions]
  /\ items \in [Buttons -> SUBSET Actions]
  /\ \A b \in Buttons : combo[b] \in items[b]
  /\ checks \in [Buttons -> SUBSET Modifiers]
  /\ \A b \in Buttons : combo[b].kind # Kinds.key => checks[b] = {}
  /\ \A b \in Buttons : Reserved(b, mode) => combo[b] = Nothing

\* The profiles can be saved.
Savable(profiles) ==
  /\ profiles \in ProfilesType
  /\ \A p \in Profiles, b \in Buttons : AppTakes(profiles[p][b], b, p)

RestOK ==
  /\ slider \in Speeds /\ baselineSpeed \in Speeds
  /\ baseline \in ProfilesType /\ dirty \in BOOLEAN

Inv == WidgetsOK /\ Savable(drafts) /\ RestOK /\ unreadable = FALSE

\* The action of an entry that can be saved may be in a list.
LEMMA ActionType ==
  ASSUME NEW e \in Entry, NEW b, NEW p, AppTakes(e, b, p)
  PROVE  Action(e) \in Actions
<1>1. PICK key \in 0..127, kind \in 0..3, modifiers \in 0..15 :
             e = [kind |-> kind, key |-> key, modifiers |-> modifiers]
  BY DEF Entry
<1>2. Action(e) = [kind |-> kind, key |-> key]
  BY <1>1 DEF Action
<1>3. ~Reserved(Ok, 0)
  BY DEF Reserved, Ok, Cursor
<1>4. AppTakes([kind |-> kind, key |-> key, modifiers |-> 0], Ok, 0)
  BY <1>1, <1>3 DEF AppTakes, Kinds
<1> QED BY <1>2, <1>4 DEF Actions

\* What one button's widgets show can be saved.
LEMMA Widget ==
  ASSUME NEW a \in Actions, NEW S \in SUBSET Modifiers, NEW b, NEW p,
         Reserved(b, p) => a = Nothing
  PROVE  LET e == [kind |-> a.kind, key |-> a.key,
                   modifiers |-> IF a.kind = Kinds.key THEN SumSet(S) ELSE 0]
         IN  e \in Entry /\ AppTakes(e, b, p)
<1>1. PICK kind \in 0..3, key \in 0..127 : a = [kind |-> kind, key |-> key]
  BY DEF Actions
<1>2. AppTakes([kind |-> kind, key |-> key, modifiers |-> 0], Ok, 0)
  BY <1>1 DEF Actions
<1>3. PICK modifiers \in 0..15 :
           modifiers = IF a.kind = Kinds.key THEN SumSet(S) ELSE 0
  <2>1. SumSet(S) \in 0..15
    BY SumAssumption
  <2>2. CASE a.kind = Kinds.key
    BY <2>1, <2>2, Zenon
  <2>3. CASE a.kind # Kinds.key
    <3>1. 0 \in 0..15
      OBVIOUS
    <3> QED BY <3>1, <2>3, Zenon
  <2> QED BY <2>2, <2>3
<1> DEFINE e == [kind |-> kind, key |-> key, modifiers |-> modifiers]
<1>4. e \in Entry
  BY DEF Entry
<1>5. kind # 1 => modifiers = 0
  BY <1>1, <1>3 DEF Kinds
<1>6. Reserved(b, p) => kind = 0
  BY <1>1 DEF Nothing, Kinds
<1>7. AppTakes(e, b, p)
  BY <1>2, <1>5, <1>6 DEF AppTakes, Kinds
<1> QED BY <1>1, <1>3, <1>4, <1>7

\* So can what all of them show.
LEMMA Filled ==
  ASSUME WidgetsOK
  PROVE  /\ Entries \in [Buttons -> Entry]
         /\ \A b \in Buttons : AppTakes(Entries[b], b, mode)
BY Widget DEF WidgetsOK, Entries

LEMMA FilledNext ==
  ASSUME WidgetsOK'
  PROVE  /\ Entries' \in [Buttons -> Entry]
         /\ \A b \in Buttons : AppTakes(Entries'[b], b, mode')
BY Widget DEF WidgetsOK, Entries

\* A profile that is replaced by one that can be saved leaves profiles that can.
LEMMA Replaced ==
  ASSUME NEW profiles, Savable(profiles), NEW p \in Profiles,
         NEW entries \in [Buttons -> Entry],
         \A b \in Buttons : AppTakes(entries[b], b, p)
  PROVE  Savable([profiles EXCEPT ![p] = entries])
BY DEF Savable, ProfilesType

\* Without modifiers no box is checked.
LEMMA NoBoxes ==
  ASSUME NEW e, e.modifiers = 0
  PROVE  Boxes(e.modifiers) = {}
<1>1. \A bit \in {1, 2, 4, 8} : (0 \div bit) % 2 = 0
  OBVIOUS
<1>2. Modifiers \subseteq {1, 2, 4, 8}
  BY SettingsEditorAssumption
<1>3. \A bit \in Modifiers : ~((e.modifiers \div bit) % 2 = 1)
  BY <1>1, <1>2
<1> QED BY <1>3, Zenon DEF Boxes

\* populate shows what it is given.
LEMMA PopulateOK ==
  ASSUME NEW entries \in [Buttons -> Entry], mode' \in Profiles,
         \A b \in Buttons : AppTakes(entries[b], b, mode'),
         WidgetsOK, Populate(entries)
  PROVE  WidgetsOK'
<1>1. ASSUME NEW b \in Buttons
      PROVE  Chosen(entries, b) \in Actions /\ Chosen(entries, b) \in items'[b]
  <2>1. Nothing \in Actions
    BY SettingsEditorAssumption
  <2>2. Chosen(entries, b) \in Actions
    BY <2>1, ActionType DEF Chosen
  <2> QED BY <2>2 DEF Populate, Offered
<1>2. items' \in [Buttons -> SUBSET Actions]
  BY <1>1 DEF WidgetsOK, Populate, Offered
<1>3. combo' = [b \in Buttons |-> Chosen(entries, b)]
  BY <1>1 DEF Populate
<1>4. checks' \in [Buttons -> SUBSET Modifiers]
  BY DEF Populate, Boxes
<1>5. ASSUME NEW b \in Buttons, combo'[b].kind # Kinds.key
      PROVE  checks'[b] = {}
  <2>1. CASE Reserved(b, mode')
    BY <2>1 DEF Populate
  <2>2. CASE ~Reserved(b, mode')
    <3>1. entries[b].kind # Kinds.key
      BY <1>3, <1>5, <2>2 DEF Chosen, Action
    <3>2. entries[b].modifiers = 0
      BY <3>1 DEF AppTakes
    <3>3. Boxes(entries[b].modifiers) = {}
      BY <3>2, NoBoxes
    <3> QED BY <2>2, <3>3 DEF Populate
  <2> QED BY <2>1, <2>2
<1>6. ASSUME NEW b \in Buttons, Reserved(b, mode')
      PROVE  combo'[b] = Nothing
  BY <1>3, <1>6 DEF Chosen
<1> QED BY <1>1, <1>2, <1>3, <1>4, <1>5, <1>6 DEF WidgetsOK

-----------------------------------------------------------------------------
(* The invariant.                                                          *)

LEMMA InitInv ==
  ASSUME Init
  PROVE  Inv
<1>1. Defaults \in ProfilesType /\ Savable(Defaults)
  BY DefaultsAssumption DEF Savable, ProfilesType
<1>2. combo \in [Buttons -> Actions]
  BY DefaultsAssumption, ActionType DEF Init, Profiles
<1>3. items \in [Buttons -> SUBSET Actions]
  BY SettingsEditorAssumption DEF Init
<1>4. ASSUME NEW b \in Buttons
      PROVE  /\ combo[b] \in items[b]
             /\ Reserved(b, 0) => combo[b] = Nothing
             /\ combo[b].kind # Kinds.key => checks[b] = {}
  <2>1. PICK key \in 0..127, kind \in 0..3, modifiers \in 0..15 :
               Defaults[0][b] = [kind |-> kind, key |-> key, modifiers |-> modifiers]
    <3>1. Defaults[0][b] \in Entry
      BY DefaultsAssumption DEF Profiles
    <3>2. PICK e \in Entry : e = Defaults[0][b] BY <3>1
    <3> QED BY <3>2 DEF Entry
  <2>2. AppTakes(Defaults[0][b], b, 0)
    BY DefaultsAssumption DEF Profiles
  <2>3. combo[b] = [kind |-> kind, key |-> key]
    BY <2>1 DEF Init, Action
  <2>4. Reserved(b, 0) => kind = 0 /\ key = 0
    BY <2>1, <2>2 DEF AppTakes, Kinds
  <2>5. Reserved(b, 0) => combo[b] = Nothing
    BY <2>3, <2>4 DEF Nothing, Kinds
  <2>6. combo[b] \in items[b]
    <3>1. CASE b = Cursor
      BY <2>5, <3>1 DEF Init, Reserved
    <3>2. CASE b # Cursor
      BY <3>2, DefaultsAssumption DEF Init
    <3> QED BY <3>1, <3>2
  <2>7. ASSUME combo[b].kind # Kinds.key
        PROVE  checks[b] = {}
    <3>1. Defaults[0][b].modifiers = 0
      BY <2>1, <2>2, <2>3, <2>7 DEF AppTakes
    <3>2. checks[b] = Boxes(Defaults[0][b].modifiers)
      BY DEF Init
    <3> QED BY <3>1, <3>2, NoBoxes
  <2> QED BY <2>5, <2>6, <2>7
<1>5. checks \in [Buttons -> SUBSET Modifiers]
  BY DEF Init, Boxes
<1>6. WidgetsOK
  BY <1>2, <1>3, <1>4, <1>5 DEF WidgetsOK, Init, Profiles
<1>7. RestOK
  BY <1>1, SettingsEditorAssumption DEF Init, RestOK
<1> QED BY <1>1, <1>6, <1>7 DEF Init, Inv

\* edited keeps the drafts savable.
LEMMA EditedOK ==
  ASSUME Savable(drafts), WidgetsOK', Edited
  PROVE  Savable(drafts)' /\ dirty' \in BOOLEAN
<1>1. Savable([drafts EXCEPT ![mode'] = Entries'])
  BY FilledNext, Replaced DEF WidgetsOK
<1>2. drafts' = [drafts EXCEPT ![mode'] = Entries']
  BY DEF Edited
<1>3. Savable(drafts') <=> Savable(drafts)'
  BY DEF Savable
<1>4. dirty' \in BOOLEAN
  BY DEF Edited, Differs
<1> QED BY <1>1, <1>2, <1>3, <1>4

\* What Snapshot.decode makes of the contents of a bridge.
LEMMA DecodedType ==
  ASSUME NEW content \in Contents
  PROVE  /\ Decoded(content) \in ProfilesType
         /\ Readable(content) => Savable(Decoded(content))
<1>0. PICK p \in Profiles, b \in Buttons : \E v \in Held(b, p) : content = With(p, b, v)
  BY DEF Contents
<1>1. PICK v \in Held(b, p) : content = With(p, b, v)
  BY <1>0
<1>2. v \in Nat
  BY <1>1, HeldReadable
<1>3. ASSUME NEW s \in Profiles, NEW c \in Buttons
      PROVE  content[s][c] \in Nat
  <2>1. Packed(Defaults[s][c]) \in Nat
    BY PackedType, DefaultsAssumption
  <2> QED BY <1>1, <1>2, <2>1 DEF With
<1>4. Decoded(content) \in ProfilesType
  BY <1>3, UnpackedType DEF Decoded, ProfilesType
<1>5. ASSUME Readable(content)
      PROVE  Savable(Decoded(content))
  BY <1>4, <1>5 DEF Savable, Readable, AppReads, Decoded
<1> QED BY <1>4, <1>5

\* No bridge holds what the application cannot read.
LEMMA ContentsReadable ==
  ASSUME NEW content \in Contents
  PROVE  Readable(content)
<1>0. PICK p \in Profiles, b \in Buttons : \E v \in Held(b, p) : content = With(p, b, v)
  BY DEF Contents
<1>1. PICK v \in Held(b, p) : content = With(p, b, v)
  BY <1>0
<1>2. AppReads(v, b, p)
  BY <1>1, HeldReadable
<1>3. ASSUME NEW s \in Profiles, NEW c \in Buttons
      PROVE  AppReads(Packed(Defaults[s][c]), c, s)
  BY DefaultsAssumption, PackedType, RoundTrip DEF AppReads
<1>4. ASSUME NEW s \in Profiles, NEW c \in Buttons
      PROVE  AppReads(content[s][c], c, s)
  <2>1. CASE s = p /\ c = b
    <3>1. content[s][c] = v
      BY <1>1, <2>1 DEF With
    <3> QED BY <1>2, <2>1, <3>1
  <2>2. CASE ~(s = p /\ c = b)
    <3>1. content[s][c] = Packed(Defaults[s][c])
      BY <1>1, <2>2 DEF With
    <3> QED BY <1>3, <3>1
  <2> QED BY <2>1, <2>2
<1> QED BY <1>4 DEF Readable

\* Every step leaves settings that can be saved.
LEMMA NextInv ==
  ASSUME Inv, [Next]_vars
  PROVE  Inv'
<1> USE DEF Inv
<1>1. ASSUME NEW b \in Buttons, NEW a \in items[b], Pick(b, a)
      PROVE  Inv'
  <2>1. a \in Actions
    BY DEF WidgetsOK
  <2>2. WidgetsOK'
    <3>1. checks' \in [Buttons -> SUBSET Modifiers] /\ combo' \in [Buttons -> Actions]
      BY <1>1, <2>1 DEF Pick, Unchecked, WidgetsOK
    <3>2. \A c \in Buttons : combo'[c] \in items'[c]
      BY <1>1 DEF Pick, WidgetsOK
    <3>3. \A c \in Buttons : combo'[c].kind # Kinds.key => checks'[c] = {}
      BY <1>1 DEF Pick, Unchecked, WidgetsOK
    <3>4. \A c \in Buttons : Reserved(c, mode') => combo'[c] = Nothing
      BY <1>1 DEF Pick, Free, WidgetsOK
    <3> QED BY <1>1, <3>1, <3>2, <3>3, <3>4 DEF Pick, WidgetsOK
  <2> QED BY <1>1, <2>2, EditedOK DEF Pick, RestOK
<1>2. ASSUME NEW b \in Buttons, NEW bit \in Modifiers, Toggle(b, bit)
      PROVE  Inv'
  <2>1. WidgetsOK'
    BY <1>2 DEF Toggle, WidgetsOK
  <2> QED BY <1>2, <2>1, EditedOK DEF Toggle, RestOK
<1>3. ASSUME NEW speed \in Speeds, SpeedChanged(speed)
      PROVE  Inv'
  <2>1. WidgetsOK'
    BY <1>3 DEF SpeedChanged, WidgetsOK
  <2> QED BY <1>3, <2>1, EditedOK DEF SpeedChanged, RestOK
<1>4. ASSUME Switch
      PROVE  Inv'
  <2>1. mode' \in Profiles
    BY <1>4 DEF Switch, Profiles, WidgetsOK
  <2>2. Savable(Left)
    BY Filled, Replaced DEF Left, Current, WidgetsOK
  <2>3. Left[mode'] \in [Buttons -> Entry]
        /\ \A b \in Buttons : AppTakes(Left[mode'][b], b, mode')
    BY <2>1, <2>2 DEF Savable, ProfilesType
  <2>4. WidgetsOK'
    BY <1>4, <2>1, <2>3, PopulateOK DEF Switch
  <2>5. Savable([Left EXCEPT ![mode'] = Entries'])
    BY <2>1, <2>2, <2>4, FilledNext, Replaced
  <2>6. Savable(drafts)'
    BY <1>4, <2>5 DEF Switch, Savable
  <2>7. RestOK'
    BY <1>4 DEF Switch, RestOK, Differs
  <2> QED BY <1>4, <2>4, <2>6, <2>7 DEF Switch
<1>5. ASSUME LoadDefaults
      PROVE  Inv'
  <2>1. Defaults[mode] \in [Buttons -> Entry]
        /\ \A b \in Buttons : AppTakes(Defaults[mode][b], b, mode')
    BY <1>5, DefaultsAssumption DEF LoadDefaults, WidgetsOK
  <2>2. WidgetsOK'
    BY <1>5, <2>1, PopulateOK DEF LoadDefaults, WidgetsOK
  <2>3. RestOK'
    BY <1>5, <2>2, EditedOK, SettingsEditorAssumption DEF LoadDefaults, RestOK
  <2> QED BY <1>5, <2>2, <2>3, EditedOK DEF LoadDefaults
<1>6. ASSUME NEW content \in Contents, NEW speed \in Speeds, NEW connecting \in BOOLEAN,
             Get(content, speed, connecting)
      PROVE  Inv'
  <2>1. OnSettings(content, speed, connecting)
    BY <1>6, ContentsReadable DEF Get
  <2>2. Savable(Decoded(content)) /\ Decoded(content) \in ProfilesType
    BY ContentsReadable, DecodedType
  <2>3. dirty' \in BOOLEAN /\ baseline' \in ProfilesType /\ baselineSpeed' \in Speeds
    BY <2>1, <2>2 DEF OnSettings, Differs
  <2>4. CASE connecting /\ dirty
    <3>1. WidgetsOK'
      BY <2>1, <2>4 DEF OnSettings, WidgetsOK
    <3>2. Savable(Current)
      BY Filled, Replaced DEF Current, WidgetsOK
    <3>3. Savable(drafts)'
      BY <2>1, <2>4, <3>2 DEF OnSettings, Savable
    <3> QED BY <2>1, <2>3, <2>4, <3>1, <3>3 DEF OnSettings, RestOK
  <2>5. CASE ~(connecting /\ dirty)
    <3>1. Decoded(content)[mode] \in [Buttons -> Entry]
          /\ \A b \in Buttons : AppTakes(Decoded(content)[mode][b], b, mode')
      BY <2>1, <2>2 DEF OnSettings, Savable, ProfilesType, WidgetsOK
    <3>2. Populate(Decoded(content)[mode]) /\ mode' \in Profiles
      BY <2>1, <2>5 DEF OnSettings, WidgetsOK
    <3>3. WidgetsOK'
      BY <3>1, <3>2, PopulateOK
    <3>4. Savable([Decoded(content) EXCEPT ![mode] = Entries'])
      BY <2>1, <2>2, <3>3, FilledNext, Replaced DEF OnSettings, WidgetsOK
    <3>5. Savable(drafts)'
      BY <2>1, <2>5, <3>4 DEF OnSettings, Savable
    <3> QED BY <2>1, <2>3, <2>5, <3>3, <3>5 DEF OnSettings, RestOK
  <2> QED BY <2>4, <2>5
<1>7. CASE UNCHANGED vars
  BY <1>7 DEF vars, widgets, WidgetsOK, Savable, RestOK
<1> QED BY <1>1, <1>2, <1>3, <1>4, <1>5, <1>6, <1>7 DEF Next

THEOREM AlwaysInv == Spec => []Inv
BY InitInv, NextInv, PTL DEF Spec

\* The type invariant, for all buttons, defaults and contents of bridges.
THEOREM TypeCorrect == Spec => []TypeOK
<1>1. Inv => TypeOK
  BY DEF Inv, TypeOK, WidgetsOK, Savable, RestOK
<1> QED BY <1>1, AlwaysInv, PTL

\* Whatever the user does with the profiles, the defaults and the settings of
\* bridges, encode and the bridge accept what is on the screen, and the bridge
\* holds exactly that.
THEOREM Kept == Spec => []SavedIsKept
<1>1. Inv => SavedIsKept
  <2> SUFFICES ASSUME Inv, NEW p \in Profiles, NEW b \in Buttons
               PROVE  LET e == Current[p][b]
                      IN  /\ AppTakes(e, b, p) /\ BridgeTakes(Packed(e), b, p)
                          /\ Unpacked(Packed(e)) = e
    BY DEF SavedIsKept
  <2>1. Savable(Current)
    BY Filled, Replaced DEF Inv, Current, WidgetsOK
  <2>2. PICK e : e = Current[p][b] /\ e \in Entry /\ AppTakes(e, b, p)
    BY <2>1 DEF Savable, ProfilesType
  <2>3. Packed(e) \in Nat /\ Packed(e) < 8192 /\ Unpacked(Packed(e)) = e
    BY <2>2, PackedType, RoundTrip
  <2>4. BridgeTakes(Packed(e), b, p)
    BY <2>2, <2>3, SameRules DEF AppReads
  <2> QED BY <2>2, <2>3, <2>4
<1> QED BY <1>1, AlwaysInv, PTL

\* The application can read every bridge, also one with migrated settings.
THEOREM NeverUnreadable == Spec => []AlwaysReadable
<1>1. Inv => AlwaysReadable
  BY DEF Inv, AlwaysReadable
<1> QED BY <1>1, AlwaysInv, PTL

\* After any editing the settings can be sent, come back the same and are never
\* unreadable.
THEOREM EditorIsSafe == Spec => []EditorSafety
<1>1. TypeOK /\ SavedIsKept /\ AlwaysReadable
      => EditorSafety
  BY DEF EditorSafety
<1> QED
  BY <1>1, TypeCorrect, Kept, NeverUnreadable, PTL

-----------------------------------------------------------------------------
(* What the widgets show is what they were given, and dirty is right.      *)

\* The boxes can show all modifiers of these profiles.
AllShown(profiles) ==
  \A p \in Profiles, b \in Buttons : Shown(profiles[p][b].modifiers)

FullInv == Inv /\ AllShown(drafts) /\ DirtyIsRight

\* An entry that can be saved comes back out of the widgets that show it.
LEMMA EntryShown ==
  ASSUME NEW e \in Entry, NEW b, NEW p, AppTakes(e, b, p), Shown(e.modifiers),
         NEW a, a = IF Reserved(b, p) THEN Nothing ELSE Action(e),
         NEW S, S = IF Reserved(b, p) THEN {} ELSE Boxes(e.modifiers)
  PROVE  [kind |-> a.kind, key |-> a.key,
          modifiers |-> IF a.kind = Kinds.key THEN SumSet(S) ELSE 0] = e
<1>1. PICK key \in 0..127, kind \in 0..3, modifiers \in 0..15 :
             e = [kind |-> kind, key |-> key, modifiers |-> modifiers]
  BY DEF Entry
<1>2. kind = 0 => key = 0
  BY <1>1 DEF AppTakes, Kinds
<1>3. kind # 1 => modifiers = 0
  BY <1>1 DEF AppTakes, Kinds
<1>4. Reserved(b, p) => kind = 0
  BY <1>1 DEF AppTakes, Kinds
<1>5. a.kind = kind /\ a.key = key
  BY <1>1, <1>2, <1>4 DEF Nothing, Action, Kinds
<1>6. CASE kind = 1
  <2>1. S = Boxes(modifiers)
    BY <1>1, <1>4, <1>6
  <2>2. SumSet(S) = modifiers
    BY <1>1, <2>1 DEF Shown
  <2>3. a.kind = Kinds.key
    BY <1>5, <1>6 DEF Kinds
  <2> QED BY <1>1, <1>5, <2>2, <2>3, Zenon
<1>7. CASE kind # 1
  <2>1. a.kind # Kinds.key
    BY <1>5, <1>7 DEF Kinds
  <2> QED BY <1>1, <1>3, <1>5, <1>7, <2>1, Zenon
<1> QED BY <1>6, <1>7

\* populate, and entries after it.
LEMMA PopulateShows ==
  ASSUME NEW entries \in [Buttons -> Entry],
         \A b \in Buttons : AppTakes(entries[b], b, mode') /\ Shown(entries[b].modifiers),
         Populate(entries)
  PROVE  Entries' = entries
<1>1. ASSUME NEW b \in Buttons
      PROVE  combo'[b] = Chosen(entries, b)
  BY DEF Populate, Offered
<1>2. ASSUME NEW b \in Buttons
      PROVE  Entries'[b] = entries[b]
  <2>1. combo'[b] = IF Reserved(b, mode') THEN Nothing ELSE Action(entries[b])
    BY <1>1 DEF Chosen
  <2>2. checks'[b] = IF Reserved(b, mode') THEN {} ELSE Boxes(entries[b].modifiers)
    BY DEF Populate
  <2>3. entries[b] \in Entry /\ AppTakes(entries[b], b, mode') /\ Shown(entries[b].modifiers)
    OBVIOUS
  <2>4. Entries'[b] = [kind |-> combo'[b].kind, key |-> combo'[b].key,
                       modifiers |-> IF combo'[b].kind = Kinds.key
                                     THEN SumSet(checks'[b]) ELSE 0]
    BY DEF Entries
  <2> QED BY <2>1, <2>2, <2>3, <2>4, EntryShown
<1>3. Entries' = [b \in Buttons |-> Entries'[b]]
  BY DEF Entries
<1> QED BY <1>2, <1>3

\* What the widgets show, they can show again.
LEMMA FilledShown ==
  ASSUME WidgetsOK
  PROVE  \A b \in Buttons : Shown(Entries[b].modifiers)
<1> SUFFICES ASSUME NEW b \in Buttons PROVE Shown(Entries[b].modifiers)
  OBVIOUS
<1>1. CASE combo[b].kind = Kinds.key
  <2>1. Entries[b].modifiers = SumSet(checks[b])
    BY <1>1 DEF Entries
  <2> QED BY <2>1, BoxesAssumption DEF WidgetsOK
<1>2. CASE combo[b].kind # Kinds.key
  <2>1. Entries[b].modifiers = 0
    BY <1>2 DEF Entries
  <2> QED BY <2>1, BoxesAssumption
<1> QED BY <1>1, <1>2

LEMMA FilledShownNext ==
  ASSUME WidgetsOK'
  PROVE  \A b \in Buttons : Shown(Entries'[b].modifiers)
<1> SUFFICES ASSUME NEW b \in Buttons PROVE Shown(Entries'[b].modifiers)
  OBVIOUS
<1>1. CASE combo'[b].kind = Kinds.key
  <2>1. Entries'[b].modifiers = SumSet(checks'[b])
    BY <1>1 DEF Entries
  <2> QED BY <2>1, BoxesAssumption DEF WidgetsOK
<1>2. CASE combo'[b].kind # Kinds.key
  <2>1. Entries'[b].modifiers = 0
    BY <1>2 DEF Entries
  <2> QED BY <2>1, BoxesAssumption
<1> QED BY <1>1, <1>2

LEMMA ReplacedShown ==
  ASSUME NEW profiles \in ProfilesType, AllShown(profiles), NEW p \in Profiles, NEW entries,
         \A b \in Buttons : Shown(entries[b].modifiers)
  PROVE  AllShown([profiles EXCEPT ![p] = entries])
BY DEF AllShown, ProfilesType

\* edited: dirty is worked out anew, and the drafts take over the widgets.
LEMMA EditedShown ==
  ASSUME Savable(drafts), AllShown(drafts), WidgetsOK', Edited
  PROVE  AllShown(drafts)' /\ DirtyIsRight'
<1>1. AllShown([drafts EXCEPT ![mode'] = Entries'])
  BY FilledShownNext, ReplacedShown DEF WidgetsOK, Savable
<1>2. AllShown(drafts)'
  BY <1>1 DEF Edited, AllShown
<1> QED BY <1>2 DEF Edited, Differs, DirtyIsRight

\* The boxes can show whatever bridges hold.
LEMMA ContentsShown ==
  ASSUME NEW content \in Contents
  PROVE  AllShown(Decoded(content))
<1>1. PICK p \in Profiles, b \in Buttons : \E v \in Held(b, p) : content = With(p, b, v)
  BY DEF Contents
<1>2. PICK v \in Held(b, p) : content = With(p, b, v)
  BY <1>1
<1>3. Shown(Unpacked(v).modifiers)
  <2>1. CASE \E w \in Sent : BridgeTakes(w, b, p) /\ v = Packed(Unpacked(w))
    <3>1. PICK w \in Sent : BridgeTakes(w, b, p) /\ v = Packed(Unpacked(w))
      BY <2>1
    <3>2. w \in Nat
      BY SentAssumption
    <3>3. Unpacked(v) = Unpacked(w)
      BY <3>1, <3>2, UnpackedType, RoundTrip
    <3>4. Unpacked(w).modifiers = Bits(w, 512, 16)
      BY DEF Unpacked
    <3> QED BY <3>3, <3>4, BoxesAssumption
  <2>2. CASE \E e \in Old : OldValid(e) /\ v = Packed(Migrated(e, b, p))
    <3>1. PICK e \in Old : OldValid(e) /\ v = Packed(Migrated(e, b, p))
      BY <2>2
    <3>2. e \in [kind : 0..255, key : 0..255, modifiers : 0..255]
      BY OldAssumption
    <3>3. Unpacked(v) = Migrated(e, b, p)
      BY <3>1, <3>2, MigratedType, RoundTrip
    <3>4. Migrated(e, b, p).modifiers \in {0, e.modifiers}
      BY DEF Migrated, None
    <3> QED BY <3>1, <3>3, <3>4, BoxesAssumption
  <2> QED BY <2>1, <2>2 DEF Held
<1>4. ASSUME NEW s \in Profiles, NEW c \in Buttons
      PROVE  Shown(Decoded(content)[s][c].modifiers)
  <2>1. Decoded(content)[s][c] = Unpacked(content[s][c])
    BY DEF Decoded
  <2>2. CASE s = p /\ c = b
    <3>1. content[s][c] = v
      BY <1>2, <2>2 DEF With
    <3> QED BY <1>3, <2>1, <3>1
  <2>3. CASE ~(s = p /\ c = b)
    <3>1. content[s][c] = Packed(Defaults[s][c])
      BY <1>2, <2>3 DEF With
    <3>2. Decoded(content)[s][c] = Defaults[s][c]
      BY <2>1, <3>1, RoundTrip, DefaultsAssumption
    <3> QED BY <3>2, BoxesAssumption
  <2> QED BY <2>2, <2>3
<1> QED BY <1>4 DEF AllShown

\* The window of a new application shows the defaults.
LEMMA InitFull ==
  ASSUME Init
  PROVE  FullInv
<1>1. Inv
  BY InitInv
<1>2. AllShown(drafts)
  BY BoxesAssumption DEF Init, AllShown
<1>3. ASSUME NEW b \in Buttons
      PROVE  Entries[b] = Defaults[0][b]
  <2> DEFINE e == Defaults[0][b]
  <2>1. e \in Entry /\ AppTakes(e, b, 0) /\ Shown(e.modifiers)
    BY DefaultsAssumption, BoxesAssumption DEF Profiles
  <2>2. combo[b] = Action(e) /\ checks[b] = Boxes(e.modifiers)
    BY DEF Init
  <2>3. Reserved(b, 0) => Action(e) = Nothing /\ Boxes(e.modifiers) = {}
    <3> SUFFICES ASSUME Reserved(b, 0)
                 PROVE  Action(e) = Nothing /\ Boxes(e.modifiers) = {}
      OBVIOUS
    <3>1. e.kind = Kinds.none /\ e.key = 0 /\ e.modifiers = 0
      BY <2>1 DEF AppTakes, Kinds
    <3> QED BY <3>1, NoBoxes DEF Action, Nothing
  <2>4. combo[b] = IF Reserved(b, 0) THEN Nothing ELSE Action(e)
    BY <2>2, <2>3
  <2>5. checks[b] = IF Reserved(b, 0) THEN {} ELSE Boxes(e.modifiers)
    BY <2>2, <2>3
  <2>6. Entries[b] = [kind |-> combo[b].kind, key |-> combo[b].key,
                      modifiers |-> IF combo[b].kind = Kinds.key THEN SumSet(checks[b]) ELSE 0]
    BY DEF Entries
  <2> HIDE DEF e
  <2>7. Entries[b] = e
    BY <2>1, <2>4, <2>5, <2>6, EntryShown
  <2> QED BY <2>7 DEF e
<1>4. Entries = Defaults[0]
  <2>1. Entries = [b \in Buttons |-> Entries[b]]
    BY DEF Entries
  <2>2. Defaults[0] \in [Buttons -> Entry]
    BY DefaultsAssumption DEF Profiles
  <2> QED BY <1>3, <2>1, <2>2
<1>5. Current = Defaults
  BY <1>4, DefaultsAssumption DEF Init, Current
<1>6. DirtyIsRight
  BY <1>5 DEF Init, DirtyIsRight
<1> QED BY <1>1, <1>2, <1>6 DEF FullInv

\* The other profile comes into the widgets, and both stay what they are.
LEMMA SwitchShows ==
  ASSUME FullInv, Switch
  PROVE  /\ mode' \in Profiles /\ drafts' = Current /\ Current' = Current
         /\ AllShown(drafts)' /\ dirty' = dirty
<1>1. mode \in Profiles /\ mode' \in Profiles /\ WidgetsOK /\ Inv
  BY DEF FullInv, Inv, WidgetsOK, Switch, Profiles
<1>2. Savable(Left) /\ AllShown(Left)
  BY <1>1, Filled, FilledShown, Replaced, ReplacedShown
     DEF FullInv, Inv, Left, Current, Savable
<1>3. Left[mode'] \in [Buttons -> Entry]
  BY <1>1, <1>2 DEF Savable, ProfilesType
<1>4. \A b \in Buttons : AppTakes(Left[mode'][b], b, mode') /\ Shown(Left[mode'][b].modifiers)
  BY <1>1, <1>2 DEF Savable, AllShown
<1>5. Entries' = Left[mode']
  BY <1>3, <1>4, PopulateShows DEF Switch
<1>6. drafts' = Left
  BY <1>1, <1>2, <1>5 DEF Switch, Savable, ProfilesType
<1>7. Current' = Left
  BY <1>5, <1>6, <1>2, <1>1 DEF Current, Savable, ProfilesType
<1>8. Differs' <=> Differs
  BY <1>7 DEF Switch, Differs, Left
<1>9. dirty' = dirty
  BY <1>8, <1>1, Zenon DEF Switch, FullInv, DirtyIsRight, Differs, Inv, RestOK
<1> QED BY <1>1, <1>2, <1>6, <1>7, <1>9 DEF Left, AllShown

\* A draft stays in front of settings that come with a connection; otherwise
\* the window shows what it read.
LEMMA OnSettingsShows ==
  ASSUME FullInv, NEW content \in Contents, NEW speed \in Speeds, NEW connecting \in BOOLEAN,
         OnSettings(content, speed, connecting)
  PROVE  /\ AllShown(drafts)' /\ DirtyIsRight'
         /\ ~dirty => Current' = baseline' /\ slider' = baselineSpeed' /\ ~dirty'
<1>1. Inv /\ WidgetsOK /\ mode \in Profiles /\ mode' = mode
  BY DEF FullInv, Inv, WidgetsOK, OnSettings
<1>2. DirtyIsRight'
  BY DEF OnSettings, Differs, DirtyIsRight
<1>3. CASE connecting /\ dirty
  <2>1. AllShown(Current)
    BY <1>1, FilledShown, ReplacedShown DEF FullInv, Inv, Current, Savable
  <2>2. drafts' = Current
    BY <1>3 DEF OnSettings
  <2> QED BY <1>2, <1>3, <2>1, <2>2 DEF AllShown
<1>4. CASE ~(connecting /\ dirty)
  <2> DEFINE D == Decoded(content)
  <2>1. Savable(D) /\ D \in ProfilesType /\ AllShown(D)
    BY ContentsReadable, DecodedType, ContentsShown
  <2>2. /\ Populate(D[mode]) /\ slider' = speed /\ baseline' = D /\ baselineSpeed' = speed
        /\ drafts' = [D EXCEPT ![mode] = Entries']
        /\ dirty' = Differs'
    BY <1>4 DEF OnSettings
  <2> HIDE DEF D
  <2>3. D[mode] \in [Buttons -> Entry]
    BY <1>1, <2>1 DEF ProfilesType
  <2>4. \A b \in Buttons : AppTakes(D[mode][b], b, mode') /\ Shown(D[mode][b].modifiers)
    BY <1>1, <2>1 DEF Savable, AllShown
  <2>5. Entries' = D[mode]
    BY <2>2, <2>3, <2>4, PopulateShows
  <2>6. drafts' = D
    BY <1>1, <2>1, <2>2, <2>5 DEF ProfilesType
  <2>7. Current' = D
    BY <1>1, <2>1, <2>5, <2>6 DEF Current, ProfilesType
  <2>8. ~dirty'
    BY <2>2, <2>7 DEF Differs
  <2>9. AllShown(drafts)'
    BY <2>1, <2>6 DEF AllShown
  <2> QED BY <1>2, <2>2, <2>7, <2>8, <2>9
<1> QED BY <1>3, <1>4

\* All other steps go through edited, or change nothing.
LEMMA NextFull ==
  ASSUME FullInv, [Next]_vars
  PROVE  FullInv'
<1>1. Inv /\ Inv' /\ WidgetsOK' /\ Savable(drafts) /\ AllShown(drafts)
  BY NextInv DEF FullInv, Inv
<1>2. CASE Edited
  BY <1>1, <1>2, EditedShown DEF FullInv
<1>3. CASE Switch
  <2>1. AllShown(drafts)' /\ DirtyIsRight'
    BY <1>3, SwitchShows DEF Switch, Differs, DirtyIsRight
  <2> QED BY <1>1, <2>1 DEF FullInv
<1>4. ASSUME NEW content \in Contents, NEW s \in Speeds, NEW connecting \in BOOLEAN,
             Get(content, s, connecting)
      PROVE  FullInv'
  <2>1. OnSettings(content, s, connecting)
    BY <1>4, ContentsReadable DEF Get
  <2> QED BY <1>1, <2>1, OnSettingsShows DEF FullInv
<1>5. CASE UNCHANGED vars
  <2>1. Current' = Current
    BY <1>5 DEF vars, widgets, Current, Entries
  <2>2. AllShown(drafts)' /\ DirtyIsRight'
    BY <1>5, <2>1 DEF FullInv, vars, widgets, AllShown, DirtyIsRight
  <2> QED BY <1>1, <2>2 DEF FullInv
<1>6. Edited \/ Switch \/ UNCHANGED vars
        \/ \E content \in Contents, s \in Speeds, connecting \in BOOLEAN :
             Get(content, s, connecting)
  BY DEF Next, Pick, Toggle, SpeedChanged, LoadDefaults
<1> QED BY <1>2, <1>3, <1>4, <1>5, <1>6

THEOREM AlwaysFull == Spec => []FullInv
BY InitFull, NextFull, PTL DEF Spec

\* In every order of edits, profiles, defaults and bridges the save button is
\* enabled when and only when there is something to save.
THEOREM DirtyAlwaysRight == Spec => []DirtyIsRight
<1>1. FullInv => DirtyIsRight
  BY DEF FullInv
<1> QED BY <1>1, AlwaysFull, PTL

\* Going to the other profile edits neither of them, and settings that replace
\* the draft are what the window then shows, although widgets show actions out
\* of a list and modifiers out of four boxes.
THEOREM EditsKept == Spec => EditsAreKept
<1>1. FullInv /\ [Next]_vars
        => [mode' # mode => Current' = Current /\ dirty' = dirty]_vars
  <2> SUFFICES ASSUME FullInv, Next, mode' # mode
               PROVE  Current' = Current /\ dirty' = dirty
    BY DEF vars
  <2>1. Switch
    <3>1. ASSUME NEW content \in Contents, NEW s \in Speeds, NEW connecting \in BOOLEAN,
                 Get(content, s, connecting)
          PROVE  FALSE
      BY <3>1 DEF Get, OnSettings, OnProblem, widgets
    <3> QED BY <3>1 DEF Next, Pick, Toggle, SpeedChanged, LoadDefaults
  <2> QED BY <2>1, SwitchShows
<1>2. FullInv /\ [Next]_vars
        => [(baseline' # baseline /\ ~dirty)
              => Current' = baseline' /\ slider' = baselineSpeed' /\ ~dirty']_vars
  <2> SUFFICES ASSUME FullInv, Next, baseline' # baseline, ~dirty
               PROVE  Current' = baseline' /\ slider' = baselineSpeed' /\ ~dirty'
    BY DEF vars
  <2>1. PICK content \in Contents, s \in Speeds, connecting \in BOOLEAN :
               Get(content, s, connecting)
    BY DEF Next, Pick, Toggle, SpeedChanged, Switch, LoadDefaults
  <2>2. OnSettings(content, s, connecting)
    BY <2>1, ContentsReadable DEF Get
  <2> QED BY <2>2, OnSettingsShows
<1> QED BY <1>1, <1>2, AlwaysFull, PTL DEF Spec, EditsAreKept, SwitchKeeps, ShownIsRead

-----------------------------------------------------------------------------
(* The debug view: events that a report is decoded to.                     *)

\* What is assumed of the constants.
LEMMA ViewConstants ==
  /\ Seqs \in Nat \ {0} /\ MaxLost \in Nat /\ MaxLost + 1 < Seqs
  /\ Keys \cap Native = {} /\ PendingCap \in Nat /\ MaxRows \in Nat \ {0}
  /\ Absent \notin Modes /\ Absent \notin 0..Seqs - 1 /\ \A keys \in SUBSET Native : keys # Absent
BY DebugViewAssumption

\* What can be done to a key.
EventKinds == {"press", "release", "restored", "repeat"}

\* An event, and what is decoded from a report.
EventSet ==
  [key : Keys \cup Native, action : EventKinds,
   under : Modes, of : Nat \X Nat]

\* The key is let go; nothing happens to it; it goes down.
Up(e)    == e.action = "release"
Quiet(e) == e.action = "repeat"

\* What the decoder and the two kinds of reports may be.
Decoders ==
  [seq : 0..Seqs - 1 \cup {Absent}, keys : SUBSET Keys, gaps : Int,
   native : (SUBSET Native) \cup {Absent}, first : Int, last : Int, received : Int, spell : Nat]

NativeReports == [source : {"native"}, keys : SUBSET Native]
RemoteReports ==
  [source : {"remote"}, seq : 0..Seqs - 1, ready : BOOLEAN, input : BOOLEAN,
   keys : SUBSET Keys, number : Nat]

\* What a decoder takes for held, and which spell an event of the key is of.
HeldBy(d, k) == IF k \in Keys THEN k \in d.keys ELSE d.native # Absent /\ k \in d.native

Spell(d, k) == IF k \in Keys THEN 0 ELSE d.spell

\* The keys of a set in a fixed order: each of them, and each once.
LEMMA Ordered ==
  ASSUME NEW S, IsFiniteSet(S)
  PROVE  /\ Cardinality(S) \in Nat
         /\ SetToSeq(S) \in [1..Cardinality(S) -> S]
         /\ \A i, j \in 1..Cardinality(S) : i # j => SetToSeq(S)[i] # SetToSeq(S)[j]
         /\ \A k \in S : \E i \in 1..Cardinality(S) : SetToSeq(S)[i] = k
<1> DEFINE n == Cardinality(S)
           f == SetToSeq(S)
<1>1. n \in Nat
  BY FS_CardinalityType
<1>2. \E g \in [1..n -> S] : IsInjective(g)
  <2>1. PICK g : g \in Bijection(1..n, S)
    <3>1. ExistsBijection(1..n, S)
      BY <1>1, FS_CardinalityType
    <3> QED BY <3>1 DEF ExistsBijection
  <2> QED BY <2>1 DEF Bijection, Injection, IsInjective
<1>3. f \in [1..n -> S] /\ IsInjective(f)
  <2> DEFINE Q(g) == g \in [1..n -> S] /\ IsInjective(g)
  <2>1. f = CHOOSE g \in [1..n -> S] : IsInjective(g)
    BY DEF SetToSeq
  <2> HIDE DEF f
  <2> QED BY <1>2, <2>1
<1> HIDE DEF f
<1>4. \A i, j \in 1..n : i # j => f[i] # f[j]
  BY <1>3 DEF IsInjective
<1>5. f \in Injection(1..n, S)
  BY <1>3, <1>4 DEF Injection, IsInjective
<1>6. IsFiniteSet(1..n) /\ Cardinality(1..n) = n
  BY <1>1, FS_Interval
<1>7. f \in Surjection(1..n, S)
  BY <1>5, <1>6, FS_Injection
<1> QED BY <1>1, <1>3, <1>4, <1>7 DEF Surjection, f

\* Events for the keys of a set, one for each, decoded in run r under label m.
Spread(e, S, s, r, m) ==
  /\ e \in Seq(EventSet)
  /\ \A i \in 1..Len(e) : e[i].key \in S /\ e[i].under = m /\ e[i].of = <<r, s>>
  /\ \A i, j \in 1..Len(e) : i # j => e[i].key # e[j].key
  /\ \A k \in S : \E i \in 1..Len(e) : e[i].key = k

\* Events makes one event for each key of the set.
LEMMA EventsFacts ==
  ASSUME NEW S \in SUBSET (Keys \cup Native), IsFiniteSet(S), NEW s \in Nat,
         NEW a \in EventKinds, run \in Nat, debugMode \in Modes
  PROVE  /\ Spread(Events(s, S, a), S, s, run, debugMode)
         /\ \A i \in 1..Len(Events(s, S, a)) : Events(s, S, a)[i].action = a
<1> DEFINE n == Cardinality(S)
           f == SetToSeq(S)
           e == Events(s, S, a)
<1>1. /\ n \in Nat /\ f \in [1..n -> S] /\ \A i, j \in 1..n : i # j => f[i] # f[j]
      /\ \A k \in S : \E i \in 1..n : f[i] = k
  BY Ordered
<1>2. e = [i \in 1..n |-> [key |-> f[i], action |-> a, under |-> debugMode, of |-> <<run, s>>]]
  BY DEF Events
<1> HIDE DEF n, f, e
<1>3. \A i \in 1..n : e[i] \in EventSet
  <2> SUFFICES ASSUME NEW i \in 1..n PROVE e[i] \in EventSet
    OBVIOUS
  <2>1. f[i] \in Keys \cup Native
    BY <1>1
  <2>2. <<run, s>> \in Nat \X Nat
    OBVIOUS
  <2> QED BY <1>2, <2>1, <2>2 DEF EventSet
<1>4. e \in Seq(EventSet) /\ Len(e) = n
  BY <1>1, <1>2, <1>3
<1>5. \A i \in 1..n : /\ e[i].key = f[i] /\ e[i].action = a /\ e[i].under = debugMode
                      /\ e[i].of = <<run, s>>
  BY <1>2
<1>6. \A i \in 1..n : f[i] \in S
  BY <1>1
<1> QED BY <1>1, <1>4, <1>5, <1>6 DEF e, Spread

\* The events for keys that are let go.
LEMMA ReleaseEvents ==
  ASSUME NEW S \in SUBSET (Keys \cup Native), IsFiniteSet(S), NEW s \in Nat,
         run \in Nat, debugMode \in Modes
  PROVE  /\ Spread(Events(s, S, "release"), S, s, run, debugMode)
         /\ \A i \in 1..Len(Events(s, S, "release")) :
              Up(Events(s, S, "release")[i]) /\ ~Quiet(Events(s, S, "release")[i])
<1> DEFINE a == "release"
<1>1. a \in EventKinds /\ a # "repeat"
  BY DEF EventKinds
<1>2. a = "release"
  OBVIOUS
<1> HIDE DEF a
<1>3. /\ Spread(Events(s, S, a), S, s, run, debugMode)
      /\ \A i \in 1..Len(Events(s, S, a)) : Events(s, S, a)[i].action = a
  BY <1>1, EventsFacts, Zenon
<1> QED BY <1>1, <1>2, <1>3, Zenon DEF Up, Quiet

\* The events for keys that repeat.
LEMMA RepeatEvents ==
  ASSUME NEW S \in SUBSET (Keys \cup Native), IsFiniteSet(S), NEW s \in Nat,
         run \in Nat, debugMode \in Modes
  PROVE  /\ Spread(Events(s, S, "repeat"), S, s, run, debugMode)
         /\ \A i \in 1..Len(Events(s, S, "repeat")) :
              Quiet(Events(s, S, "repeat")[i])
<1> DEFINE a == "repeat"
<1>1. a \in EventKinds
  BY DEF EventKinds
<1>2. a = "repeat"
  OBVIOUS
<1> HIDE DEF a
<1>3. /\ Spread(Events(s, S, a), S, s, run, debugMode)
      /\ \A i \in 1..Len(Events(s, S, a)) : Events(s, S, a)[i].action = a
  BY <1>1, EventsFacts, Zenon
<1> QED BY <1>1, <1>2, <1>3, Zenon DEF Quiet

\* The events for keys that go down.
LEMMA DownEvents ==
  ASSUME NEW S \in SUBSET (Keys \cup Native), IsFiniteSet(S), NEW s \in Nat,
         run \in Nat, debugMode \in Modes, NEW how \in {"press", "restored"}
  PROVE  /\ Spread(Events(s, S, how), S, s, run, debugMode)
         /\ \A i \in 1..Len(Events(s, S, how)) :
              ~Up(Events(s, S, how)[i]) /\ ~Quiet(Events(s, S, how)[i])
<1>1. how \in EventKinds /\ how # "release" /\ how # "repeat"
  BY DEF EventKinds
<1>3. /\ Spread(Events(s, S, how), S, s, run, debugMode)
      /\ \A i \in 1..Len(Events(s, S, how)) : Events(s, S, how)[i].action = how
  BY <1>1, EventsFacts, Zenon
<1> QED BY <1>1, <1>3, Zenon DEF Up, Quiet

\* The elements of two sequences in a row.
LEMMA Concat ==
  ASSUME NEW X, NEW s \in Seq(X), NEW t \in Seq(X)
  PROVE  /\ s \o t \in Seq(X) /\ Len(s \o t) = Len(s) + Len(t)
         /\ Len(s) \in Nat /\ Len(t) \in Nat
         /\ \A i \in 1..Len(s) : (s \o t)[i] = s[i]
         /\ \A i \in 1..Len(t) : (s \o t)[Len(s) + i] = t[i]
         /\ \A i \in 1..Len(s \o t) :
              i \in 1..Len(s) \/ (i - Len(s) \in 1..Len(t) /\ (s \o t)[i] = t[i - Len(s)])
OBVIOUS

\* Events that take the keys of a set from the old to the new.
Turns(e, old, new, s, r, m) ==
  /\ e \in Seq(EventSet)
  /\ \A i \in 1..Len(e) : e[i].under = m /\ e[i].of = <<r, s>> /\ e[i].key \in old \cup new
  /\ \A i \in 1..Len(e) :
       ~Quiet(e[i]) => /\ Up(e[i]) <=> e[i].key \in old
                       /\ e[i].key \in new <=> e[i].key \notin old
  /\ \A i, j \in 1..Len(e) : i # j /\ ~Quiet(e[i]) /\ ~Quiet(e[j]) => e[i].key # e[j].key
  /\ \A k : (k \in old <=> k \notin new) => \E i \in 1..Len(e) : e[i].key = k /\ ~Quiet(e[i])

\* Releases, then what went down, then repeats: the keys turn to the new ones.
LEMMA ChangeFacts ==
  ASSUME NEW old, NEW new, NEW s, NEW r, NEW m, NEW A, NEW B,
         Spread(A, old \ new, s, r, m), \A i \in 1..Len(A) : Up(A[i]) /\ ~Quiet(A[i]),
         Spread(B, new \ old, s, r, m), \A i \in 1..Len(B) : ~Up(B[i]) /\ ~Quiet(B[i])
  PROVE  Turns(A \o B, old, new, s, r, m)
<1> DEFINE e == A \o B
           n == Len(A)
<1>1. /\ A \in Seq(EventSet)
      /\ \A i \in 1..Len(A) : /\ A[i].key \in old /\ A[i].key \notin new
                              /\ A[i].under = m /\ A[i].of = <<r, s>>
      /\ \A i, j \in 1..Len(A) : i # j => A[i].key # A[j].key
      /\ \A k : k \in old /\ k \notin new => \E i \in 1..Len(A) : A[i].key = k
  BY DEF Spread
<1>2. /\ B \in Seq(EventSet)
      /\ \A i \in 1..Len(B) : /\ B[i].key \notin old /\ B[i].key \in new
                              /\ B[i].under = m /\ B[i].of = <<r, s>>
      /\ \A i, j \in 1..Len(B) : i # j => B[i].key # B[j].key
      /\ \A k : k \in new /\ k \notin old => \E i \in 1..Len(B) : B[i].key = k
  BY DEF Spread
<1>3. /\ e \in Seq(EventSet) /\ Len(e) = n + Len(B) /\ n \in Nat /\ Len(B) \in Nat
      /\ \A i \in 1..n : e[i] = A[i]
      /\ \A i \in 1..Len(B) : e[n + i] = B[i]
      /\ \A i \in 1..Len(e) : i \in 1..n \/ (i - n \in 1..Len(B) /\ e[i] = B[i - n])
  BY <1>1, <1>2, Concat
<1> HIDE DEF e, n
<1>4. ASSUME NEW i \in 1..Len(e)
      PROVE  /\ e[i].under = m /\ e[i].of = <<r, s>> /\ e[i].key \in old \cup new
             /\ Up(e[i]) <=> e[i].key \in old
             /\ e[i].key \in new <=> e[i].key \notin old
  <2>1. CASE i \in 1..n
    <3>1. i \in 1..Len(A) /\ e[i] = A[i]
      BY <1>3, <2>1 DEF n
    <3> QED BY <1>1, <3>1
  <2>2. CASE i - n \in 1..Len(B) /\ e[i] = B[i - n]
    BY <1>2, <2>2
  <2> QED BY <1>3, <2>1, <2>2
<1>5. ASSUME NEW i \in 1..Len(e), NEW j \in 1..Len(e), i # j
      PROVE  e[i].key # e[j].key
  <2>0. n = Len(A)
    BY DEF n
  <2>1. CASE i \in 1..n /\ j \in 1..n
    BY <1>1, <1>3, <1>5, <2>0, <2>1
  <2>2. CASE i \in 1..n /\ j - n \in 1..Len(B) /\ e[j] = B[j - n]
    <3>1. e[i].key \in old
      BY <1>1, <1>3, <2>0, <2>2
    <3>2. e[j].key \notin old
      BY <1>2, <2>2
    <3> QED BY <3>1, <3>2
  <2>3. CASE j \in 1..n /\ i - n \in 1..Len(B) /\ e[i] = B[i - n]
    <3>1. e[j].key \in old
      BY <1>1, <1>3, <2>0, <2>3
    <3>2. e[i].key \notin old
      BY <1>2, <2>3
    <3> QED BY <3>1, <3>2
  <2>4. CASE /\ i - n \in 1..Len(B) /\ e[i] = B[i - n]
             /\ j - n \in 1..Len(B) /\ e[j] = B[j - n]
    <3>1. i - n # j - n
      BY <1>3, <1>5
    <3> QED BY <1>2, <2>4, <3>1
  <2> QED BY <1>3, <2>1, <2>2, <2>3, <2>4
<1>6. ASSUME NEW k, k \in old <=> k \notin new
      PROVE  \E i \in 1..Len(e) : e[i].key = k /\ ~Quiet(e[i])
  <2>1. CASE k \in old /\ k \notin new
    <3>1. PICK i \in 1..Len(A) : A[i].key = k
      BY <1>1, <2>1
    <3>2. i \in 1..Len(e) /\ e[i] = A[i]
      BY <1>3 DEF n
    <3> QED BY <3>1, <3>2
  <2>2. CASE k \in new /\ k \notin old
    <3>1. PICK i \in 1..Len(B) : B[i].key = k
      BY <1>2, <2>2
    <3>2. n + i \in 1..Len(e) /\ e[n + i] = B[i]
      BY <1>3
    <3> QED BY <3>1, <3>2
  <2> QED BY <1>6, <2>1, <2>2
<1>7. e \in Seq(EventSet)
  BY <1>3
<1> QED BY <1>4, <1>5, <1>6, <1>7 DEF Turns, e

\* Repeated keys follow.
LEMMA RepeatFacts ==
  ASSUME NEW old, NEW new, NEW s, NEW r, NEW m, NEW A, NEW B, NEW S \in SUBSET new,
         Turns(A, old, new, s, r, m),
         Spread(B, S, s, r, m), \A i \in 1..Len(B) : Quiet(B[i])
  PROVE  Turns(A \o B, old, new, s, r, m)
<1> DEFINE e == A \o B
           n == Len(A)
<1>1. /\ A \in Seq(EventSet)
      /\ \A i \in 1..Len(A) : A[i].under = m /\ A[i].of = <<r, s>> /\ A[i].key \in old \cup new
      /\ \A i \in 1..Len(A) :
           ~Quiet(A[i]) => /\ Up(A[i]) <=> A[i].key \in old
                           /\ A[i].key \in new <=> A[i].key \notin old
      /\ \A i, j \in 1..Len(A) : i # j /\ ~Quiet(A[i]) /\ ~Quiet(A[j]) => A[i].key # A[j].key
      /\ \A k : (k \in old <=> k \notin new) => \E i \in 1..Len(A) : A[i].key = k /\ ~Quiet(A[i])
  BY DEF Turns
<1>2. /\ B \in Seq(EventSet)
      /\ \A i \in 1..Len(B) : B[i].key \in new /\ B[i].under = m /\ B[i].of = <<r, s>>
  BY DEF Spread
<1>3. /\ e \in Seq(EventSet) /\ Len(e) = n + Len(B) /\ n \in Nat /\ Len(B) \in Nat
      /\ \A i \in 1..n : e[i] = A[i]
      /\ \A i \in 1..Len(e) : i \in 1..n \/ (i - n \in 1..Len(B) /\ e[i] = B[i - n])
  BY <1>1, <1>2, Concat
<1>4. n = Len(A)
  OBVIOUS
<1> HIDE DEF e, n
<1>5. \A i \in 1..Len(e) : ~Quiet(e[i]) => i \in 1..Len(A) /\ e[i] = A[i]
  BY <1>3, <1>4
<1>6. ASSUME NEW i \in 1..Len(e)
      PROVE  e[i].under = m /\ e[i].of = <<r, s>> /\ e[i].key \in old \cup new
  <2>1. CASE i \in 1..n
    BY <1>1, <1>3, <1>4, <2>1
  <2>2. CASE i - n \in 1..Len(B) /\ e[i] = B[i - n]
    BY <1>2, <2>2
  <2> QED BY <1>3, <2>1, <2>2
<1>7. ASSUME NEW i \in 1..Len(e), ~Quiet(e[i])
      PROVE  (Up(e[i]) <=> e[i].key \in old) /\ (e[i].key \in new <=> e[i].key \notin old)
  <2>1. i \in 1..Len(A) /\ e[i] = A[i]
    BY <1>5, <1>7
  <2> QED BY <1>1, <1>7, <2>1
<1>8. \A i, j \in 1..Len(e) : i # j /\ ~Quiet(e[i]) /\ ~Quiet(e[j]) => e[i].key # e[j].key
  BY <1>1, <1>5
<1>9. ASSUME NEW k, k \in old <=> k \notin new
      PROVE  \E i \in 1..Len(e) : e[i].key = k /\ ~Quiet(e[i])
  <2>1. PICK i \in 1..Len(A) : A[i].key = k /\ ~Quiet(A[i])
    BY <1>1, <1>9
  <2>2. i \in 1..Len(e) /\ e[i] = A[i]
    BY <1>3, <1>4
  <2> QED BY <2>1, <2>2
<1>10. e \in Seq(EventSet)
  BY <1>3
<1> QED BY <1>6, <1>7, <1>8, <1>9, <1>10 DEF Turns, e

\* What the events of a report say of the decoder before and after it.
Tells(d, d2, e, r, m) ==
  /\ e \in Seq(EventSet) /\ d.spell <= d2.spell
  /\ \A i \in 1..Len(e) : e[i].under = m /\ e[i].of = <<r, Spell(d, e[i].key)>>
  /\ \A i \in 1..Len(e) :
       ~Quiet(e[i]) => /\ Spell(d2, e[i].key) = Spell(d, e[i].key)
                       /\ Up(e[i]) <=> HeldBy(d, e[i].key)
                       /\ HeldBy(d2, e[i].key) <=> ~HeldBy(d, e[i].key)
  /\ \A i, j \in 1..Len(e) : i # j /\ ~Quiet(e[i]) /\ ~Quiet(e[j]) => e[i].key # e[j].key
  /\ \A k \in Keys \cup Native :
       /\ Spell(d2, k) = Spell(d, k)
       /\ \A i \in 1..Len(e) : e[i].key = k => Quiet(e[i])
       => (HeldBy(d2, k) <=> HeldBy(d, k))

\* A remote has finitely many keys.
LEMMA SubsetsAreFinite ==
  /\ \A S \in SUBSET Keys : IsFiniteSet(S)
  /\ \A S \in SUBSET Native : IsFiniteSet(S)
BY FS_Subset, DebugViewAssumption

\* A report of the keyboard, the mouse or the volume.
LEMMA NativeFacts ==
  ASSUME NEW d \in Decoders, NEW w \in NativeReports, run \in Nat, debugMode \in Modes
  PROVE  /\ Consume(d, w).decoder \in Decoders
         /\ Consume(d, w).decoder = [d EXCEPT !.native = w.keys]
         /\ Tells(d, Consume(d, w).decoder, Consume(d, w).events, run, debugMode)
<1> DEFINE d2 == [d EXCEPT !.native = w.keys]
           e == NativeEvents(d, w)
           old == IF d.native = Absent THEN {} ELSE d.native
           new == w.keys
           A == Events(d.spell, old \ new, "release")
           how == IF d.native = Absent THEN "restored" ELSE "press"
           B == Events(d.spell, new \ old, how)
<1>1. w.source = "native" /\ w.keys \in SUBSET Native
  BY DEF NativeReports
<1>2. Consume(d, w) = [decoder |-> d2, events |-> e]
  BY <1>1 DEF Consume
<1>3. /\ d2 \in Decoders /\ d2.native = w.keys /\ d2.keys = d.keys /\ d2.spell = d.spell
      /\ d.spell \in Nat /\ d.keys \in SUBSET Keys /\ d.native \in (SUBSET Native) \cup {Absent}
  BY <1>1 DEF Decoders
<1>4. old \in SUBSET Native /\ new \in SUBSET Native
  <2>1. CASE d.native = Absent
    BY <1>1, <2>1
  <2>2. CASE d.native # Absent
    <3>1. old = d.native
      BY <2>2
    <3>2. d.native \in SUBSET Native
      <4> DEFINE x == d.native
      <4>1. x \in (SUBSET Native) \cup {Absent} /\ x # Absent
        BY <1>3, <2>2
      <4> HIDE DEF x
      <4> QED BY <4>1, Zenon DEF x
    <3> QED BY <1>1, <3>1, <3>2
  <2> QED BY <2>1, <2>2
<1>5. /\ old \ new \in SUBSET (Keys \cup Native) /\ IsFiniteSet(old \ new)
      /\ new \ old \in SUBSET (Keys \cup Native) /\ IsFiniteSet(new \ old)
  <2>1. old \ new \in SUBSET Native /\ new \ old \in SUBSET Native
    BY <1>4
  <2> QED BY <2>1, SubsetsAreFinite
<1>6. Spread(A, old \ new, d.spell, run, debugMode) /\ \A i \in 1..Len(A) : Up(A[i]) /\ ~Quiet(A[i])
  <2> DEFINE S == old \ new
  <2> HIDE DEF S
  <2>1. S \in SUBSET (Keys \cup Native) /\ IsFiniteSet(S) /\ d.spell \in Nat
    BY <1>3, <1>5 DEF S
  <2>2. A = Events(d.spell, S, "release")
    BY DEF S
  <2> HIDE DEF A
  <2>3. /\ Spread(Events(d.spell, S, "release"), S, d.spell, run, debugMode)
        /\ \A i \in 1..Len(Events(d.spell, S, "release")) :
             Up(Events(d.spell, S, "release")[i]) /\ ~Quiet(Events(d.spell, S, "release")[i])
    BY <2>1, ReleaseEvents
  <2> QED BY <2>2, <2>3 DEF S
<1>7. Spread(B, new \ old, d.spell, run, debugMode) /\ \A i \in 1..Len(B) : ~Up(B[i]) /\ ~Quiet(B[i])
  <2> DEFINE S == new \ old
  <2> HIDE DEF S
  <2>1. S \in SUBSET (Keys \cup Native) /\ IsFiniteSet(S) /\ d.spell \in Nat
    BY <1>3, <1>5 DEF S
  <2>2. B = Events(d.spell, S, how) /\ how \in {"press", "restored"}
    BY DEF S
  <2> HIDE DEF B, how
  <2>3. /\ Spread(Events(d.spell, S, how), S, d.spell, run, debugMode)
        /\ \A i \in 1..Len(Events(d.spell, S, how)) :
             ~Up(Events(d.spell, S, how)[i]) /\ ~Quiet(Events(d.spell, S, how)[i])
    BY <2>1, <2>2, DownEvents
  <2> QED BY <2>2, <2>3 DEF S
<1>8. e = A \o B
  BY DEF NativeEvents
<1> HIDE DEF A, B
<1>9. Turns(e, old, new, d.spell, run, debugMode)
  BY <1>6, <1>7, <1>8, ChangeFacts, Zenon
<1>10. \A k \in Native : /\ k \notin Keys /\ Spell(d, k) = d.spell /\ Spell(d2, k) = d.spell
                         /\ HeldBy(d, k) <=> k \in old
                         /\ HeldBy(d2, k) <=> k \in new
  BY <1>1, <1>3, ViewConstants DEF Spell, HeldBy
<1>11. \A k \in Keys : HeldBy(d2, k) <=> HeldBy(d, k)
  BY <1>3 DEF HeldBy
<1> HIDE DEF old, new, e, d2
<1>12. Tells(d, d2, e, run, debugMode)
  <2>0. /\ \A i \in 1..Len(e) : /\ e[i].under = debugMode /\ e[i].of = <<run, d.spell>>
                                /\ e[i].key \in Native
        /\ \A i \in 1..Len(e) : ~Quiet(e[i]) => /\ Up(e[i]) <=> e[i].key \in old
                                                /\ e[i].key \in new <=> e[i].key \notin old
        /\ \A i, j \in 1..Len(e) : i # j /\ ~Quiet(e[i]) /\ ~Quiet(e[j]) => e[i].key # e[j].key
        /\ \A k : (k \in old <=> k \notin new) => \E i \in 1..Len(e) : e[i].key = k /\ ~Quiet(e[i])
    BY <1>4, <1>9 DEF Turns
  <2>1. e \in Seq(EventSet) /\ d.spell <= d2.spell
    BY <1>3, <1>9 DEF Turns
  <2>2. \A i \in 1..Len(e) : e[i].under = debugMode /\ e[i].of = <<run, Spell(d, e[i].key)>>
    BY <1>10, <2>0
  <2>3. \A i \in 1..Len(e) : ~Quiet(e[i]) => /\ Spell(d2, e[i].key) = Spell(d, e[i].key)
                                             /\ Up(e[i]) <=> HeldBy(d, e[i].key)
                                             /\ HeldBy(d2, e[i].key) <=> ~HeldBy(d, e[i].key)
    BY <1>10, <2>0
  <2>4. ASSUME NEW k \in Keys \cup Native,
               \A i \in 1..Len(e) : e[i].key = k => Quiet(e[i])
        PROVE  HeldBy(d2, k) <=> HeldBy(d, k)
    BY <1>10, <1>11, <2>0, <2>4
  <2> QED BY <2>0, <2>1, <2>2, <2>3, <2>4 DEF Tells
<1> QED BY <1>2, <1>3, <1>12 DEF d2, e

\* A report of the remote, new or not.
LEMMA RemoteType ==
  ASSUME NEW d \in Decoders, NEW w \in RemoteReports
  PROVE  /\ Delta(d, w) \in Nat /\ NewKeys(w) \in SUBSET Keys
         /\ Forgotten(d, w) \in Decoders /\ Updated(d, w) \in Decoders
         /\ d.spell <= Forgotten(d, w).spell
         /\ w.ready => Forgotten(d, w) = d
         /\ ~w.ready => Forgotten(d, w).spell = d.spell + 1 /\ Forgotten(d, w).native = Absent
<1>1. /\ w.seq \in 0..Seqs - 1 /\ w.ready \in BOOLEAN /\ w.keys \in SUBSET Keys
      /\ w.number \in Nat
  BY DEF RemoteReports
<1>2. /\ d.seq \in 0..Seqs - 1 \cup {Absent} /\ d.keys \in SUBSET Keys /\ d.gaps \in Int
      /\ d.native \in (SUBSET Native) \cup {Absent} /\ d.first \in Int /\ d.received \in Int
      /\ d.spell \in Nat
  BY DEF Decoders
<1>3. Delta(d, w) \in Nat
  <2>1. CASE d.seq = Absent
    BY <2>1 DEF Delta
  <2>2. CASE d.seq # Absent
    <3>1. d.seq \in 0..Seqs - 1
      BY <1>2, <2>2
    <3>2. w.seq - d.seq \in Int
      BY <1>1, <3>1, ViewConstants
    <3>3. (w.seq - d.seq) % Seqs \in Nat
      BY <3>2, ViewConstants
    <3> QED BY <2>2, <3>3 DEF Delta
  <2> QED BY <2>1, <2>2
<1>4. NewKeys(w) \in SUBSET Keys
  BY <1>1 DEF NewKeys
<1>5. CASE w.ready
  <2>1. Forgotten(d, w) = d
    BY <1>5 DEF Forgotten
  <2>2. Updated(d, w) =
          [seq |-> w.seq, keys |-> NewKeys(w), gaps |-> d.gaps + Delta(d, w) - 1,
           native |-> d.native, spell |-> d.spell,
           first |-> IF d.seq = Absent THEN w.number ELSE d.first,
           last |-> w.number, received |-> d.received + 1]
    BY <2>1 DEF Updated
  <2>3. Updated(d, w) \in Decoders
    <3> DEFINE f == IF d.seq = Absent THEN w.number ELSE d.first
    <3>1. f \in Int /\ d.gaps + Delta(d, w) - 1 \in Int /\ d.received + 1 \in Int /\ w.number \in Int
      BY <1>1, <1>2, <1>3
    <3> HIDE DEF f
    <3> QED BY <1>1, <1>2, <1>4, <2>2, <3>1 DEF Decoders, f
  <2> QED BY <1>2, <1>3, <1>4, <1>5, <2>1, <2>3
<1>6. CASE ~w.ready
  <2>1. Forgotten(d, w) = [d EXCEPT !.native = Absent, !.spell = @ + 1]
    BY <1>6 DEF Forgotten
  <2>2. /\ Forgotten(d, w) \in Decoders /\ Forgotten(d, w).spell = d.spell + 1
        /\ Forgotten(d, w).native = Absent
    <3> DEFINE x == Forgotten(d, w)
    <3>1. d = [seq |-> d.seq, keys |-> d.keys, gaps |-> d.gaps, native |-> d.native,
               first |-> d.first, last |-> d.last, received |-> d.received, spell |-> d.spell]
      BY DEF Decoders
    <3>2. x = [seq |-> d.seq, keys |-> d.keys, gaps |-> d.gaps, native |-> Absent,
               first |-> d.first, last |-> d.last, received |-> d.received,
               spell |-> d.spell + 1]
      BY <2>1, <3>1, Zenon
    <3> HIDE DEF x
    <3>3. d.spell + 1 \in Nat /\ d.last \in Int
      BY <1>2 DEF Decoders
    <3>4. x \in Decoders
      BY <1>2, <3>2, <3>3 DEF Decoders
    <3>5. x.spell = d.spell + 1 /\ x.native = Absent
      BY <3>2
    <3> QED BY <3>4, <3>5 DEF x
  <2>3. Updated(d, w) =
          [seq |-> w.seq, keys |-> NewKeys(w), gaps |-> d.gaps + Delta(d, w) - 1,
           native |-> Absent, spell |-> d.spell + 1,
           first |-> IF d.seq = Absent THEN w.number ELSE d.first,
           last |-> w.number, received |-> d.received + 1]
    BY <2>2 DEF Updated
  <2>4. Updated(d, w) \in Decoders
    <3> DEFINE f == IF d.seq = Absent THEN w.number ELSE d.first
    <3>1. f \in Int /\ d.gaps + Delta(d, w) - 1 \in Int /\ d.received + 1 \in Int /\ w.number \in Int
      BY <1>1, <1>2, <1>3
    <3>2. d.spell + 1 \in Nat
      BY <1>2
    <3> HIDE DEF f
    <3> QED BY <1>1, <1>2, <1>4, <2>3, <3>1, <3>2 DEF Decoders, f
  <2> QED BY <1>2, <1>3, <1>4, <1>6, <2>2, <2>4
<1> QED BY <1>5, <1>6

\* What a remote that has gone makes of the keys the host held.
LEMMA ForgottenTells ==
  ASSUME NEW d \in Decoders, NEW w \in RemoteReports, NEW d2 \in Decoders, NEW new,
         d2.keys = new, new \in SUBSET Keys,
         d2.native = Forgotten(d, w).native, d2.spell = Forgotten(d, w).spell
  PROVE  /\ d.spell <= d2.spell
         /\ \A k \in Keys : /\ Spell(d2, k) = 0 /\ Spell(d, k) = 0
                            /\ HeldBy(d, k) <=> k \in d.keys
                            /\ HeldBy(d2, k) <=> k \in new
         /\ \A k \in Native : Spell(d2, k) = Spell(d, k) => (HeldBy(d2, k) <=> HeldBy(d, k))
<1>1. d.spell \in Nat /\ d2.spell \in Nat /\ d.spell <= d2.spell
  BY RemoteType DEF Decoders
<1>2. \A k \in Keys : /\ Spell(d2, k) = 0 /\ Spell(d, k) = 0
                      /\ HeldBy(d, k) <=> k \in d.keys
                      /\ HeldBy(d2, k) <=> k \in new
  BY DEF HeldBy, Spell
<1>3. ASSUME NEW k \in Native, Spell(d2, k) = Spell(d, k)
      PROVE  HeldBy(d2, k) <=> HeldBy(d, k)
  <2>1. k \notin Keys
    BY ViewConstants
  <2>2. d2.spell = d.spell
    BY <1>3, <2>1 DEF Spell
  <2>3. w.ready
    <3>1. w.ready \in BOOLEAN
      BY DEF RemoteReports
    <3>2. ~w.ready => d2.spell = d.spell + 1
      <4>1. ~w.ready => Forgotten(d, w).spell = d.spell + 1
        BY RemoteType
      <4> QED BY <4>1
    <3>3. d.spell # d.spell + 1
      BY <1>1
    <3> QED BY <2>2, <3>2, <3>3
  <2>4. d2.native = d.native
    BY <2>3, RemoteType
  <2> QED BY <2>1, <2>4 DEF HeldBy
<1> QED BY <1>1, <1>2, <1>3

\* The remote's own report, whether it is new or comes again.
LEMMA RemoteFacts ==
  ASSUME NEW d \in Decoders, NEW w \in RemoteReports, run \in Nat, debugMode \in Modes
  PROVE  /\ Consume(d, w).decoder \in Decoders
         /\ Consume(d, w).decoder = IF Delta(d, w) = 0 THEN Forgotten(d, w) ELSE Updated(d, w)
         /\ Tells(d, Consume(d, w).decoder, Consume(d, w).events, run, debugMode)
<1> DEFINE d2 == Consume(d, w).decoder
           e == Consume(d, w).events
<1>1. w.source # "native"
  BY DEF RemoteReports
<1>2. d.keys \in SUBSET Keys
  BY DEF Decoders
<1>3. CASE Delta(d, w) = 0
  <2>1. d2 = Forgotten(d, w) /\ e = <<>>
    BY <1>1, <1>3 DEF Consume
  <2>2. d2 \in Decoders /\ d2.keys = d.keys
    <3>1. w.ready \in BOOLEAN
      BY DEF RemoteReports
    <3>2. Forgotten(d, w).keys = d.keys
      BY DEF Forgotten, Decoders
    <3> QED BY <2>1, <3>2, RemoteType
  <2>3. /\ d.spell <= d2.spell
        /\ \A k \in Keys : /\ Spell(d2, k) = 0 /\ Spell(d, k) = 0
                           /\ HeldBy(d, k) <=> k \in d.keys
                           /\ HeldBy(d2, k) <=> k \in d.keys
        /\ \A k \in Native : Spell(d2, k) = Spell(d, k) => (HeldBy(d2, k) <=> HeldBy(d, k))
    <3> HIDE DEF d2
    <3> QED BY <1>2, <2>1, <2>2, ForgottenTells
  <2>4. e \in Seq(EventSet) /\ Len(e) = 0
    BY <2>1
  <2> HIDE DEF d2, e
  <2>5. Tells(d, d2, e, run, debugMode)
    BY <2>3, <2>4 DEF Tells
  <2> QED BY <1>3, <2>1, <2>2, <2>5 DEF d2, e
<1>4. CASE Delta(d, w) # 0
  <2> DEFINE old == d.keys
             new == NewKeys(w)
             how == IF w.input /\ d.seq # Absent THEN "press" ELSE "restored"
             again == IF w.input /\ new = old THEN new ELSE {}
             A == Events(0, old \ new, "release")
             B == Events(0, new \ old, how)
             C == Events(0, again, "repeat")
  <2>1. d2 = Updated(d, w) /\ e = (A \o B) \o C
    BY <1>1, <1>4 DEF Consume, ButtonEvents
  <2>2. /\ d2 \in Decoders /\ d2.keys = new /\ d2.native = Forgotten(d, w).native
        /\ d2.spell = Forgotten(d, w).spell
    <3>0. Updated(d, w) \in Decoders
      BY RemoteType
    <3>1. Updated(d, w).keys = new /\ Updated(d, w).native = Forgotten(d, w).native
          /\ Updated(d, w).spell = Forgotten(d, w).spell
      BY DEF Updated
    <3> QED BY <2>1, <3>0, <3>1
  <2>3. old \in SUBSET Keys /\ new \in SUBSET Keys /\ again \in SUBSET new
    BY <1>2, RemoteType
  <2> HIDE DEF old, new, how, again, d2, e
  <2>4. /\ old \ new \in SUBSET (Keys \cup Native) /\ IsFiniteSet(old \ new)
        /\ new \ old \in SUBSET (Keys \cup Native) /\ IsFiniteSet(new \ old)
        /\ again \in SUBSET (Keys \cup Native) /\ IsFiniteSet(again)
    <3>1. old \ new \in SUBSET Keys /\ new \ old \in SUBSET Keys /\ again \in SUBSET Keys
      BY <2>3
    <3> QED BY <3>1, SubsetsAreFinite
  <2>5. Spread(A, old \ new, 0, run, debugMode) /\ \A i \in 1..Len(A) : Up(A[i]) /\ ~Quiet(A[i])
    BY <2>4, ReleaseEvents
  <2>6. Spread(B, new \ old, 0, run, debugMode) /\ \A i \in 1..Len(B) : ~Up(B[i]) /\ ~Quiet(B[i])
    <3>1. how \in {"press", "restored"}
      BY DEF how
    <3> QED BY <2>4, <3>1, DownEvents
  <2>7. Spread(C, again, 0, run, debugMode) /\ \A i \in 1..Len(C) : Quiet(C[i])
    BY <2>4, RepeatEvents
  <2> HIDE DEF A, B, C
  <2>8. Turns(A \o B, old, new, 0, run, debugMode)
    BY <2>5, <2>6, ChangeFacts, Zenon
  <2>9. Turns(e, old, new, 0, run, debugMode)
    BY <2>1, <2>3, <2>7, <2>8, RepeatFacts, Zenon
  <2>10. /\ d.spell <= d2.spell
         /\ \A k \in Keys : /\ Spell(d2, k) = 0 /\ Spell(d, k) = 0
                            /\ HeldBy(d, k) <=> k \in old
                            /\ HeldBy(d2, k) <=> k \in new
         /\ \A k \in Native : Spell(d2, k) = Spell(d, k) => (HeldBy(d2, k) <=> HeldBy(d, k))
    BY <2>2, <2>3, ForgottenTells DEF old
  <2>11. Tells(d, d2, e, run, debugMode)
    <3>1. /\ e \in Seq(EventSet)
          /\ \A i \in 1..Len(e) : /\ e[i].under = debugMode /\ e[i].of = <<run, 0>>
                                  /\ e[i].key \in Keys
          /\ \A i \in 1..Len(e) :
               ~Quiet(e[i]) => /\ Up(e[i]) <=> e[i].key \in old
                               /\ e[i].key \in new <=> e[i].key \notin old
          /\ \A i, j \in 1..Len(e) : i # j /\ ~Quiet(e[i]) /\ ~Quiet(e[j]) => e[i].key # e[j].key
          /\ \A k : (k \in old <=> k \notin new) => \E i \in 1..Len(e) : e[i].key = k /\ ~Quiet(e[i])
      BY <2>3, <2>9 DEF Turns
    <3>2. \A i \in 1..Len(e) : e[i].under = debugMode /\ e[i].of = <<run, Spell(d, e[i].key)>>
      BY <2>10, <3>1
    <3>3. \A i \in 1..Len(e) : ~Quiet(e[i]) => /\ Spell(d2, e[i].key) = Spell(d, e[i].key)
                                               /\ Up(e[i]) <=> HeldBy(d, e[i].key)
                                               /\ HeldBy(d2, e[i].key) <=> ~HeldBy(d, e[i].key)
      BY <2>10, <3>1
    <3>4. ASSUME NEW k \in Keys \cup Native, Spell(d2, k) = Spell(d, k),
                 \A i \in 1..Len(e) : e[i].key = k => Quiet(e[i])
          PROVE  HeldBy(d2, k) <=> HeldBy(d, k)
      <4>1. CASE k \in Native
        BY <2>10, <3>4, <4>1
      <4>2. CASE k \in Keys
        BY <2>10, <3>1, <3>4, <4>2
      <4> QED BY <4>1, <4>2
    <3> QED BY <2>10, <3>1, <3>2, <3>3, <3>4 DEF Tells
  <2> QED BY <1>4, <2>1, <2>2, <2>11 DEF d2, e
<1> QED BY <1>3, <1>4

-----------------------------------------------------------------------------
(* The stream of events: rows, batches and what waits.                     *)

\* The rows of the history, the events on their way in batches and those that
\* wait for the next batch, as one stream.
ItemSet == [event : EventSet, left : {0, 1}, change : Nat]

\* What is kept of an event: whether some were left out before it, and the
\* recording it is shown in.
Mark(n) == IF n = 0 THEN 0 ELSE 1

RowItem(row) ==
  [event |-> row.event, left |-> IF row.whole THEN 0 ELSE 1, change |-> row.change]

Waiting(event, left, change) ==
  [event |-> event, left |-> Mark(left), change |-> change]

\* The events a signal brings, if it is a batch.
IsBatch(s) == s.kind = "batch"
Size(s)    == IF IsBatch(s) THEN Len(s.events) ELSE 0

\* F[1..N] is the stream; the events of signal s begin behind B[s].
Laid(N, F, B, rows, sigs, pend, c, left) ==
  /\ N \in Nat /\ F \in [1..N -> ItemSet]
  /\ B \in [1..Len(sigs) + 1 -> Nat] /\ B[1] = Len(rows)
  /\ \A s \in 1..Len(sigs) : B[s + 1] = B[s] + Size(sigs[s])
  /\ \A s, t \in 1..Len(sigs) + 1 : s <= t => B[s] <= B[t]
  /\ N = B[Len(sigs) + 1] + Len(pend)
  /\ \A i \in 1..Len(rows) : F[i] = RowItem(rows[i])
  /\ \A s \in 1..Len(sigs) :
       IsBatch(sigs[s]) =>
         \A i \in 1..Len(sigs[s].events) :
           F[B[s] + i] = Waiting(sigs[s].events[i], sigs[s].dropped, c)
  /\ \A i \in 1..Len(pend) : F[B[Len(sigs) + 1] + i] = Waiting(pend[i], left, c)
  /\ \A i \in 1..N : Len(rows) < i => F[i].change = c

\* Runs do not go back, and each has one label.
Runs(N, F, d, r, m, c) ==
  /\ \A i \in 1..N : F[i].event.of[1] <= r /\ F[i].change <= c
  /\ \A i, j \in 1..N : i <= j => F[i].event.of[1] <= F[j].event.of[1]
  /\ \A i, j \in 1..N : F[i].event.of[1] = F[j].event.of[1] => F[i].event.under = F[j].event.under
  /\ \A i \in 1..N :
       F[i].event.of[1] = r =>
         F[i].event.under = m /\ F[i].event.of[2] <= Spell(d, F[i].event.key)

\* The events up to b are of earlier runs than those behind it.
Apart(N, F, b, r) ==
  /\ \A i \in 1..N : i <= b => F[i].event.of[1] < r
  /\ \A i, j \in 1..N : i <= b /\ b < j => F[i].event.of[1] < F[j].event.of[1]

\* Rows of the recording under way are followed by what will be shown too.
Meet(N, F, B, rows, sigs, p, r) ==
  /\ \A i \in 1..Len(rows) : rows[i].change = p.change => p.enabled /\ rows[i].mode = p.mode
  /\ \A s \in 1..Len(sigs) : ~IsBatch(sigs[s]) => Apart(N, F, B[s], r)
  /\ ~p.connected => Apart(N, F, Len(rows), r)

\* Events of one key, spell and recording.
Match(F, i, j) ==
  /\ F[i].event.key = F[j].event.key /\ F[i].event.of = F[j].event.of
  /\ F[i].change = F[j].change

\* Two changes of a key with none in between: one up, one down.
Alternates(N, F) ==
  \A i, j \in 1..N :
    /\ i < j /\ Match(F, i, j) /\ ~Quiet(F[i].event) /\ ~Quiet(F[j].event) /\ F[j].left = 0
    /\ \A k \in 1..N : i < k /\ k < j /\ Match(F, i, k) => Quiet(F[k].event)
    => (Up(F[i].event) <=> ~Up(F[j].event))

\* The last event of a key tells what the decoder takes it for.
Ends(N, F, c, d, r, left) ==
  left = 0 =>
    \A i \in 1..N :
      /\ F[i].change = c /\ F[i].event.of = <<r, Spell(d, F[i].event.key)>>
      /\ ~Quiet(F[i].event)
      /\ \A k \in 1..N : i < k /\ Match(F, i, k) => Quiet(F[k].event)
      => (Up(F[i].event) <=> ~HeldBy(d, F[i].event.key))

\* What is left of a stream when some of it goes: nothing goes between two
\* events that belong together.
Embeds(N, F, N2, F2, g) ==
  /\ g \in [1..N2 -> 1..N] /\ \A i, j \in 1..N2 : i < j => g[i] < g[j]
  /\ \A i \in 1..N2 : F2[i].event = F[g[i]].event /\ (F2[i].left = 0 => F[g[i]].left = 0)
  /\ \A i, j \in 1..N2 : Match(F2, i, j) => Match(F, g[i], g[j])
  /\ \A i, j \in 1..N2, k \in 1..N :
       Match(F2, i, j) /\ g[i] < k /\ k < g[j] /\ Match(F, g[i], k)
         => \E q \in 1..N2 : g[q] = k /\ Match(F2, i, q)

\* What is left of an alternating stream alternates.
LEMMA EmbedAlternates ==
  ASSUME NEW N \in Nat, NEW F, NEW N2 \in Nat, NEW F2, NEW g,
         Embeds(N, F, N2, F2, g), Alternates(N, F)
  PROVE  Alternates(N2, F2)
<1>1. /\ g \in [1..N2 -> 1..N] /\ \A i, j \in 1..N2 : i < j => g[i] < g[j]
      /\ \A i \in 1..N2 : F2[i].event = F[g[i]].event /\ (F2[i].left = 0 => F[g[i]].left = 0)
      /\ \A i, j \in 1..N2 : Match(F2, i, j) => Match(F, g[i], g[j])
      /\ \A i, j \in 1..N2, k \in 1..N :
           Match(F2, i, j) /\ g[i] < k /\ k < g[j] /\ Match(F, g[i], k)
             => \E q \in 1..N2 : g[q] = k /\ Match(F2, i, q)
  BY DEF Embeds
<1> SUFFICES ASSUME NEW i \in 1..N2, NEW j \in 1..N2,
                    i < j, Match(F2, i, j), ~Quiet(F2[i].event), ~Quiet(F2[j].event),
                    F2[j].left = 0,
                    \A k \in 1..N2 : i < k /\ k < j /\ Match(F2, i, k) => Quiet(F2[k].event)
             PROVE  Up(F2[i].event) <=> ~Up(F2[j].event)
  BY DEF Alternates
<1>2. g[i] \in 1..N /\ g[j] \in 1..N /\ g[i] < g[j] /\ Match(F, g[i], g[j])
  BY <1>1
<1>3. /\ F2[i].event = F[g[i]].event /\ F2[j].event = F[g[j]].event /\ F[g[j]].left = 0
  BY <1>1
<1>4. ASSUME NEW k \in 1..N, g[i] < k, k < g[j], Match(F, g[i], k)
      PROVE  Quiet(F[k].event)
  <2>1. PICK q \in 1..N2 : g[q] = k /\ Match(F2, i, q)
    BY <1>1, <1>4
  <2>2. i < q
    <3>1. CASE q < i
      BY <1>1, <1>2, <1>4, <2>1, <3>1
    <3>2. CASE q = i
      BY <1>2, <1>4, <2>1, <3>2
    <3> QED BY <3>1, <3>2
  <2>3. q < j
    <3>1. CASE j < q
      BY <1>1, <1>2, <1>4, <2>1, <3>1
    <3>2. CASE q = j
      BY <1>2, <1>4, <2>1, <3>2
    <3> QED BY <3>1, <3>2
  <2>4. F2[q].event = F[k].event
    BY <1>1, <2>1
  <2> QED BY <2>1, <2>2, <2>3, <2>4
<1>5. Up(F[g[i]].event) <=> ~Up(F[g[j]].event)
  BY <1>2, <1>3, <1>4 DEF Alternates
<1> QED BY <1>3, <1>5

\* Nothing goes behind an event of the last recording and run.
Keeps(N, F, N2, F2, g, c, c2, r) ==
  /\ \A i \in 1..N2 : F2[i].change = c2 => F[g[i]].change = c
  /\ \A i \in 1..N2, k \in 1..N :
       F2[i].change = c2 /\ F2[i].event.of[1] = r /\ g[i] < k /\ Match(F, g[i], k)
         => \E q \in 1..N2 : g[q] = k /\ Match(F2, i, q)

\* The decoder still takes the keys for what the last events tell.
LEMMA EmbedEnds ==
  ASSUME NEW N \in Nat, NEW F, NEW N2 \in Nat, NEW F2, NEW g, NEW c, NEW c2, NEW d, NEW r, NEW n,
         Embeds(N, F, N2, F2, g), Ends(N, F, c, d, r, n),
         Keeps(N, F, N2, F2, g, c, c2, r)
  PROVE  Ends(N2, F2, c2, d, r, n)
<1>1. /\ g \in [1..N2 -> 1..N] /\ \A i, j \in 1..N2 : i < j => g[i] < g[j]
      /\ \A i \in 1..N2 : F2[i].event = F[g[i]].event
  BY DEF Embeds
<1> SUFFICES ASSUME n = 0, NEW i \in 1..N2, F2[i].change = c2,
                    F2[i].event.of = <<r, Spell(d, F2[i].event.key)>>,
                    ~Quiet(F2[i].event),
                    \A k \in 1..N2 : i < k /\ Match(F2, i, k) => Quiet(F2[k].event)
             PROVE  Up(F2[i].event) <=> ~HeldBy(d, F2[i].event.key)
  BY DEF Ends
<1>2. g[i] \in 1..N /\ F2[i].event = F[g[i]].event /\ F[g[i]].change = c
  BY <1>1 DEF Keeps
<1>3. F2[i].event.of[1] = r
  OBVIOUS
<1>4. ASSUME NEW k \in 1..N, g[i] < k, Match(F, g[i], k)
      PROVE  Quiet(F[k].event)
  <2>1. PICK q \in 1..N2 : g[q] = k /\ Match(F2, i, q)
    BY <1>3, <1>4 DEF Keeps
  <2>2. i < q
    <3>1. CASE q < i
      BY <1>1, <1>2, <1>4, <2>1, <3>1
    <3>2. CASE q = i
      BY <1>2, <1>4, <2>1, <3>2
    <3> QED BY <3>1, <3>2
  <2>3. F2[q].event = F[k].event
    BY <1>1, <2>1
  <2> QED BY <2>1, <2>2, <2>3
<1>5. Up(F[g[i]].event) <=> ~HeldBy(d, F[g[i]].event.key)
  BY <1>2, <1>4 DEF Ends
<1> QED BY <1>2, <1>5

\* The rest of the flow survives when some of it goes.
LEMMA EmbedRuns ==
  ASSUME NEW N \in Nat, NEW F, NEW N2 \in Nat, NEW F2, NEW g, NEW c, NEW c2 \in Nat, NEW d, NEW r, NEW m,
         Embeds(N, F, N2, F2, g), Runs(N, F, d, r, m, c),
         \A i \in 1..N2 : F2[i].change <= c2
  PROVE  Runs(N2, F2, d, r, m, c2)
<1>1. /\ g \in [1..N2 -> 1..N] /\ \A i, j \in 1..N2 : i < j => g[i] < g[j]
      /\ \A i \in 1..N2 : F2[i].event = F[g[i]].event
  BY DEF Embeds
<1>2. \A i, j \in 1..N2 : i <= j => g[i] <= g[j]
  BY <1>1
<1>3. /\ \A i \in 1..N : F[i].event.of[1] <= r
      /\ \A i, j \in 1..N : i <= j => F[i].event.of[1] <= F[j].event.of[1]
      /\ \A i, j \in 1..N :
           F[i].event.of[1] = F[j].event.of[1] => F[i].event.under = F[j].event.under
      /\ \A i \in 1..N :
           F[i].event.of[1] = r =>
             F[i].event.under = m /\ F[i].event.of[2] <= Spell(d, F[i].event.key)
  BY DEF Runs
<1>4. ASSUME NEW i \in 1..N2
      PROVE  /\ F2[i].event.of[1] <= r /\ F2[i].change <= c2
             /\ F2[i].event.of[1] = r =>
                  F2[i].event.under = m /\ F2[i].event.of[2] <= Spell(d, F2[i].event.key)
  <2>1. g[i] \in 1..N /\ F2[i].event = F[g[i]].event
    BY <1>1
  <2> QED BY <1>3, <2>1
<1>5. ASSUME NEW i \in 1..N2, NEW j \in 1..N2
      PROVE  /\ i <= j => F2[i].event.of[1] <= F2[j].event.of[1]
             /\ F2[i].event.of[1] = F2[j].event.of[1] => F2[i].event.under = F2[j].event.under
  <2>1. /\ g[i] \in 1..N /\ F2[i].event = F[g[i]].event
        /\ g[j] \in 1..N /\ F2[j].event = F[g[j]].event
    BY <1>1
  <2>2. i <= j => g[i] <= g[j]
    BY <1>2
  <2> QED BY <1>3, <2>1, <2>2
<1> QED BY <1>4, <1>5 DEF Runs

\* Earlier runs stay on their side.
LEMMA EmbedApart ==
  ASSUME NEW N \in Nat, NEW F, NEW N2 \in Nat, NEW F2, NEW g, NEW b, NEW b2, NEW r,
         Embeds(N, F, N2, F2, g), Apart(N, F, b, r),
         \A i \in 1..N2 : i <= b2 => g[i] <= b,
         \A i \in 1..N2 : b2 < i => b < g[i]
  PROVE  Apart(N2, F2, b2, r)
<1>1. /\ g \in [1..N2 -> 1..N]
      /\ \A i \in 1..N2 : F2[i].event = F[g[i]].event
  BY DEF Embeds
<1> QED BY <1>1 DEF Apart

\* Signals and rows.
BatchSet ==
  [kind : {"batch"}, mode : Modes, events : Seq(EventSet), gaps : Int, dropped : Nat, lost : Int]
SignalSet == BatchSet \cup [kind : {"ready", "gone"}]

RowSet == [event : EventSet, mode : Modes, change : Nat, whole : BOOLEAN]

\* A batch has events, other signals have none.
LEMMA SignalFacts ==
  /\ \A s \in SignalSet : IsBatch(s) => s \in BatchSet
  /\ \A s \in SignalSet : IsBatch(s) => /\ s.events \in Seq(EventSet) /\ Len(s.events) \in Nat
                                        /\ s.mode \in Modes /\ s.dropped \in Nat
  /\ \A s \in SignalSet : Size(s) \in Nat
<1>1. \A s \in SignalSet : IsBatch(s) => s \in BatchSet
  BY DEF SignalSet, IsBatch
<1>2. \A s \in BatchSet : /\ s.events \in Seq(EventSet) /\ Len(s.events) \in Nat
                          /\ s.mode \in Modes /\ s.dropped \in Nat
  BY DEF BatchSet
<1>3. ASSUME NEW s \in SignalSet PROVE Size(s) \in Nat
  BY <1>1, <1>2 DEF Size
<1> QED BY <1>1, <1>2, <1>3

\* Where the events of a stream lie.
Placed(N, B, rows, sigs, pend) ==
  /\ Len(sigs) \in Nat /\ Len(rows) \in Nat /\ Len(pend) \in Nat /\ N \in Nat
  /\ \A s \in 1..Len(sigs) + 1 : /\ B[s] \in Nat /\ Len(rows) <= B[s]
                                 /\ B[s] <= B[Len(sigs) + 1] /\ B[s] <= N
  /\ N = B[Len(sigs) + 1] + Len(pend) /\ Len(rows) <= N
  /\ \A s \in 1..Len(sigs) :
       IsBatch(sigs[s]) =>
         /\ Len(sigs[s].events) \in Nat
         /\ B[s + 1] = B[s] + Len(sigs[s].events)
         /\ B[s] + Len(sigs[s].events) <= B[Len(sigs) + 1]

\* Rows come first, then the batches in their order, then what waits.
LEMMA Places ==
  ASSUME NEW N, NEW F, NEW B, NEW rows \in Seq(RowSet), NEW sigs \in Seq(SignalSet),
         NEW pend \in Seq(EventSet), NEW c, NEW left,
         Laid(N, F, B, rows, sigs, pend, c, left)
  PROVE  Placed(N, B, rows, sigs, pend)
<1>1. Len(sigs) \in Nat /\ Len(rows) \in Nat /\ Len(pend) \in Nat /\ N \in Nat
  BY DEF Laid
<1> DEFINE n == Len(sigs)
<1>2. /\ B \in [1..n + 1 -> Nat] /\ B[1] = Len(rows) /\ N = B[n + 1] + Len(pend)
      /\ \A s, t \in 1..n + 1 : s <= t => B[s] <= B[t]
      /\ \A s \in 1..n : B[s + 1] = B[s] + Size(sigs[s])
  BY DEF Laid
<1> HIDE DEF n
<1>3. n \in Nat
  BY <1>1 DEF n
<1>4. \A s \in 1..n + 1 : B[s] \in Nat /\ Len(rows) <= B[s] /\ B[s] <= B[n + 1] /\ B[s] <= N
  <2> SUFFICES ASSUME NEW s \in 1..n + 1
               PROVE  B[s] \in Nat /\ Len(rows) <= B[s] /\ B[s] <= B[n + 1] /\ B[s] <= N
    OBVIOUS
  <2>1. 1 \in 1..n + 1 /\ n + 1 \in 1..n + 1 /\ 1 <= s /\ s <= n + 1
    BY <1>3
  <2>2. B[s] \in Nat /\ B[1] <= B[s] /\ B[s] <= B[n + 1] /\ B[n + 1] \in Nat
    BY <1>2, <2>1
  <2> QED BY <1>1, <1>2, <2>2
<1>5. ASSUME NEW s \in 1..n, IsBatch(sigs[s])
      PROVE  /\ Len(sigs[s].events) \in Nat /\ B[s + 1] = B[s] + Len(sigs[s].events)
             /\ B[s] + Len(sigs[s].events) <= B[n + 1]
  <2>1. sigs[s] \in SignalSet
    BY DEF n
  <2>2. Len(sigs[s].events) \in Nat /\ Size(sigs[s]) = Len(sigs[s].events)
    BY <1>5, <2>1, SignalFacts DEF Size
  <2>3. s + 1 \in 1..n + 1
    BY <1>3
  <2> QED BY <1>2, <1>4, <2>2, <2>3
<1>6. Len(rows) <= N
  <2>1. 1 \in 1..n + 1
    BY <1>3
  <2> QED BY <1>1, <1>2, <1>4, <2>1
<1> QED BY <1>1, <1>2, <1>4, <1>5, <1>6 DEF n, Placed

\* All that is said of the events the window has and will have.
Flow(N, F, B, rows, sigs, pend, left, p, d, r, m) ==
  /\ Laid(N, F, B, rows, sigs, pend, p.change, left)
  /\ Runs(N, F, d, r, m, p.change)
  /\ Meet(N, F, B, rows, sigs, p, r)
  /\ Alternates(N, F)
  /\ Ends(N, F, p.change, d, r, left)

\* Items with the same parts are the same.
LEMMA SameItem ==
  ASSUME NEW a \in ItemSet, NEW b \in ItemSet,
         a.event = b.event, a.left = b.left, a.change = b.change
  PROVE  a = b
BY DEF ItemSet

\* Steps of arithmetic and of records that the provers want by themselves.
LEMMA Minus ==
  ASSUME NEW x \in Int, NEW y \in Int, NEW z \in Int
  PROVE  (x + y) - z = (x - z) + y
OBVIOUS

LEMMA RowParts ==
  ASSUME NEW row
  PROVE  RowItem(row).event = row.event /\ RowItem(row).change = row.change
BY DEF RowItem

LEMMA WaitingParts ==
  ASSUME NEW event, NEW left, NEW change
  PROVE  /\ Waiting(event, left, change).event = event
         /\ Waiting(event, left, change).left = Mark(left)
         /\ Waiting(event, left, change).change = change
BY DEF Waiting

\* A reset: what waited for the next batch goes, and a new run begins.
LEMMA CutFlow ==
  ASSUME NEW N, NEW F, NEW B, NEW rows \in Seq(RowSet), NEW sigs \in Seq(SignalSet),
         NEW pend \in Seq(EventSet), NEW left, NEW p, NEW d, NEW r \in Nat, NEW m, NEW m2,
         p.change \in Nat, Flow(N, F, B, rows, sigs, pend, left, p, d, r, m)
  PROVE  \E N2, F2 :
           /\ Flow(N2, F2, B, rows, sigs, <<>>, 0, p, NewDecoder, r + 1, m2)
           /\ Apart(N2, F2, N2, r + 1)
<1> DEFINE n  == Len(sigs)
           c  == p.change
           N2 == B[n + 1]
           F2 == [i \in 1..N2 |-> F[i]]
           g  == [i \in 1..N2 |-> i]
<1>1. Laid(N, F, B, rows, sigs, pend, c, left)
  BY DEF Flow
<1>2. /\ n \in Nat /\ Len(rows) \in Nat /\ Len(pend) \in Nat /\ N \in Nat
      /\ \A s \in 1..n + 1 : B[s] \in Nat /\ Len(rows) <= B[s] /\ B[s] <= N2 /\ B[s] <= N
      /\ N = N2 + Len(pend)
      /\ \A s \in 1..n :
              IsBatch(sigs[s]) =>
                /\ Len(sigs[s].events) \in Nat
                /\ B[s] + Len(sigs[s].events) <= N2
  <2>1. Placed(N, B, rows, sigs, pend)
    BY <1>1, Places
  <2> QED BY <2>1 DEF Placed
<1>3. /\ F \in [1..N -> ItemSet] /\ B \in [1..n + 1 -> Nat] /\ B[1] = Len(rows)
      /\ \A s \in 1..n : B[s + 1] = B[s] + Size(sigs[s])
      /\ \A s, t \in 1..n + 1 : s <= t => B[s] <= B[t]
      /\ \A i \in 1..Len(rows) : F[i] = RowItem(rows[i])
      /\ \A s \in 1..n :
           IsBatch(sigs[s]) =>
             \A i \in 1..Len(sigs[s].events) :
               F[B[s] + i] = Waiting(sigs[s].events[i], sigs[s].dropped, c)
      /\ \A i \in 1..N : Len(rows) < i => F[i].change = c
  BY <1>1 DEF Laid
<1>4. N2 \in Nat /\ N2 <= N /\ Len(rows) <= N2
  <2>1. n + 1 \in 1..n + 1
    BY <1>2
  <2> QED BY <1>2, <2>1
<1> HIDE DEF n, c, N2
<1>5. \A i \in 1..N2 : F2[i] = F[i] /\ g[i] = i /\ i \in 1..N
  BY <1>2, <1>4
<1>6. F2 \in [1..N2 -> ItemSet] /\ g \in [1..N2 -> 1..N]
  BY <1>3, <1>5
<1> HIDE DEF F2, g
<1>7. Laid(N2, F2, B, rows, sigs, <<>>, c, 0)
  <2>1. \A i \in 1..Len(rows) : F2[i] = RowItem(rows[i])
    <3>1. \A i \in 1..Len(rows) : i \in 1..N2
      BY <1>2, <1>4
    <3> QED BY <1>3, <1>5, <3>1
  <2>2. ASSUME NEW s \in 1..n, IsBatch(sigs[s]), NEW i \in 1..Len(sigs[s].events)
        PROVE  F2[B[s] + i] = Waiting(sigs[s].events[i], sigs[s].dropped, c)
    <3>1. B[s] \in Nat
      BY <1>2
    <3>2. B[s] + i \in 1..N2
      <4>1. Len(sigs[s].events) \in Nat /\ B[s] + Len(sigs[s].events) <= N2
        BY <1>2, <2>2, Zenon
      <4>2. \A l \in Nat : B[s] + l <= N2 /\ i \in 1..l => B[s] + i \in 1..N2
        BY <1>4, <3>1, SMTT(60)
      <4> QED BY <4>1, <4>2, Zenon
    <3>3. F[B[s] + i] = Waiting(sigs[s].events[i], sigs[s].dropped, c)
      BY <1>3, <2>2, Zenon
    <3>4. F2[B[s] + i] = F[B[s] + i]
      BY <1>5, <3>2, Zenon
    <3> QED BY <3>3, <3>4, Zenon
  <2>3. Len(<<>>) = 0
    OBVIOUS
  <2>4. N2 = B[Len(sigs) + 1] + Len(<<>>)
    BY <1>4, <2>3 DEF N2, n
  <2>5. \A i \in 1..Len(<<>>) : F2[B[Len(sigs) + 1] + i] = Waiting(<<>>[i], 0, c)
    BY <2>3
  <2>6. \A i \in 1..N2 : Len(rows) < i => F2[i].change = c
    BY <1>3, <1>5
  <2> QED BY <1>3, <1>4, <1>6, <2>1, <2>2, <2>4, <2>5, <2>6 DEF Laid, n
<1>8. Runs(N, F, d, r, m, c) /\ Meet(N, F, B, rows, sigs, p, r) /\ Alternates(N, F)
  BY DEF Flow, c
<1>9. \A i \in 1..N2 : F2[i].event.of[1] \in Nat /\ F2[i].event.of[1] <= r
  <2>1. \A i \in 1..N2 : F2[i] \in ItemSet
    BY <1>6
  <2>2. \A i \in 1..N2 : F2[i].event.of[1] \in Nat
    BY <2>1 DEF ItemSet, EventSet
  <2> QED BY <1>5, <1>8, <2>2 DEF Runs
<1>10. Runs(N2, F2, NewDecoder, r + 1, m2, c)
  <2>1. \A i \in 1..N2 : F2[i].event.of[1] <= r + 1 /\ F2[i].event.of[1] # r + 1
    BY <1>9
  <2>2. \A i \in 1..N2 : F2[i].change <= c
    BY <1>5, <1>8 DEF Runs
  <2>3. \A i, j \in 1..N2 : i <= j => F2[i].event.of[1] <= F2[j].event.of[1]
    BY <1>5, <1>8 DEF Runs
  <2>4. \A i, j \in 1..N2 :
           F2[i].event.of[1] = F2[j].event.of[1] => F2[i].event.under = F2[j].event.under
    BY <1>5, <1>8 DEF Runs
  <2> QED BY <2>1, <2>2, <2>3, <2>4 DEF Runs
<1>11. \A b : Apart(N, F, b, r) => Apart(N2, F2, b, r + 1)
  <2> SUFFICES ASSUME NEW b, Apart(N, F, b, r) PROVE Apart(N2, F2, b, r + 1)
    OBVIOUS
  <2>1. \A i \in 1..N2 : F2[i].event.of[1] < r + 1
    BY <1>9
  <2> QED BY <1>5, <2>1 DEF Apart
<1>12. Meet(N2, F2, B, rows, sigs, p, r + 1)
  BY <1>8, <1>11 DEF Meet
<1>13. Alternates(N2, F2)
  <2>1. Embeds(N, F, N2, F2, g)
    <3>1. \A i, j \in 1..N2 : i < j => g[i] < g[j]
      BY <1>5
    <3>2. \A i \in 1..N2 : F2[i].event = F[g[i]].event /\ (F2[i].left = 0 => F[g[i]].left = 0)
      BY <1>5
    <3>3. \A i, j \in 1..N2 : Match(F2, i, j) => Match(F, g[i], g[j])
      BY <1>5 DEF Match
    <3>4. ASSUME NEW i \in 1..N2, NEW j \in 1..N2, NEW k \in 1..N, g[i] < k, k < g[j],
                 Match(F, g[i], k)
          PROVE  \E q \in 1..N2 : g[q] = k /\ Match(F2, i, q)
      <4>1. k \in 1..N2
        BY <1>2, <1>4, <1>5, <3>4
      <4>2. g[k] = k /\ Match(F2, i, k)
        BY <1>5, <3>4, <4>1 DEF Match
      <4> QED BY <4>1, <4>2
    <3> QED BY <1>6, <3>1, <3>2, <3>3, <3>4 DEF Embeds
  <2> QED BY <1>2, <1>4, <1>8, <2>1, EmbedAlternates
<1>14. Ends(N2, F2, c, NewDecoder, r + 1, 0)
  <2>1. ASSUME NEW i \in 1..N2, NEW x, F2[i].event.of = <<r + 1, x>>
        PROVE  FALSE
    <3>1. F2[i].event.of[1] = r + 1
      BY <2>1
    <3> QED BY <1>9, <3>1
  <2> QED BY <2>1 DEF Ends
<1>15. Apart(N2, F2, N2, r + 1)
  <2>1. \A i \in 1..N2 : F2[i].event.of[1] < r + 1
    BY <1>9
  <2> QED BY <1>4, <2>1 DEF Apart
<1>16. Flow(N2, F2, B, rows, sigs, <<>>, 0, p, NewDecoder, r + 1, m2)
  BY <1>7, <1>10, <1>12, <1>13, <1>14 DEF Flow, c
<1> QED BY <1>15, <1>16

\* A signal: the events that wait go with it, or there are none.
LEMMA AppendFlow ==
  ASSUME NEW N, NEW F, NEW B, NEW rows \in Seq(RowSet), NEW sigs \in Seq(SignalSet),
         NEW pend \in Seq(EventSet), NEW left, NEW p, NEW d, NEW r \in Nat, NEW m,
         NEW sig \in SignalSet, Flow(N, F, B, rows, sigs, pend, left, p, d, r, m),
         \/ IsBatch(sig) /\ sig.events = pend /\ sig.dropped = left
         \/ ~IsBatch(sig) /\ pend = <<>> /\ Apart(N, F, N, r)
  PROVE  \E B2 : Flow(N, F, B2, rows, Append(sigs, sig), <<>>, left, p, d, r, m)
<1> DEFINE n  == Len(sigs)
           t  == Append(sigs, sig)
           B2 == [s \in 1..n + 2 |-> IF s <= n + 1 THEN B[s] ELSE N]
<1>1. Laid(N, F, B, rows, sigs, pend, p.change, left)
  BY DEF Flow
<1>2. /\ n \in Nat /\ Len(rows) \in Nat /\ Len(pend) \in Nat /\ N \in Nat
      /\ \A s \in 1..n + 1 : B[s] \in Nat /\ B[s] <= N
      /\ N = B[n + 1] + Len(pend)
  <2>1. Placed(N, B, rows, sigs, pend)
    BY <1>1, Places
  <2> QED BY <2>1 DEF Placed
<1>3. /\ F \in [1..N -> ItemSet] /\ B \in [1..n + 1 -> Nat] /\ B[1] = Len(rows)
      /\ \A s \in 1..n : B[s + 1] = B[s] + Size(sigs[s])
      /\ \A s, u \in 1..n + 1 : s <= u => B[s] <= B[u]
      /\ \A i \in 1..Len(rows) : F[i] = RowItem(rows[i])
      /\ \A s \in 1..n :
           IsBatch(sigs[s]) =>
             \A i \in 1..Len(sigs[s].events) :
               F[B[s] + i] = Waiting(sigs[s].events[i], sigs[s].dropped, p.change)
      /\ \A i \in 1..Len(pend) : F[B[n + 1] + i] = Waiting(pend[i], left, p.change)
      /\ \A i \in 1..N : Len(rows) < i => F[i].change = p.change
  BY <1>1 DEF Laid
<1>4. /\ Len(t) = n + 1 /\ t[n + 1] = sig /\ \A s \in 1..n : t[s] = sigs[s]
  OBVIOUS
<1>5. Size(sig) = Len(pend)
  <2>1. Len(<<>>) = 0
    OBVIOUS
  <2> QED BY <2>1 DEF Size
<1> HIDE DEF n, t
<1>6. /\ \A s \in 1..n + 1 : B2[s] = B[s]
      /\ B2[n + 2] = N /\ B2 \in [1..n + 2 -> Nat]
  <2>1. \A s \in 1..n + 1 : s \in 1..n + 2 /\ s <= n + 1
    BY <1>2
  <2>2. n + 2 \in 1..n + 2 /\ ~(n + 2 <= n + 1)
    BY <1>2
  <2>3. ASSUME NEW s \in 1..n + 2 PROVE (IF s <= n + 1 THEN B[s] ELSE N) \in Nat
    <3>1. CASE s <= n + 1
      BY <1>2, <3>1
    <3>2. CASE ~(s <= n + 1)
      BY <1>2, <3>2
    <3> QED BY <3>1, <3>2
  <2> QED BY <2>1, <2>2, <2>3
<1> HIDE DEF B2
<1>7. \A s \in 1..n + 2 : s \in 1..n + 1 \/ s = n + 2
  BY <1>2
<1>8. 1 \in 1..n + 1 /\ n + 1 \in 1..n + 1 /\ \A s \in 1..n : s \in 1..n + 1 /\ s + 1 \in 1..n + 1
  BY <1>2
<1>9. Laid(N, F, B2, rows, t, <<>>, p.change, left)
  <2>1. B2[1] = Len(rows) /\ B2 \in [1..Len(t) + 1 -> Nat]
    <3>1. Len(t) + 1 = n + 2
      BY <1>2, <1>4
    <3> QED BY <1>3, <1>6, <1>8, <3>1
  <2>2. ASSUME NEW s \in 1..Len(t) PROVE B2[s + 1] = B2[s] + Size(t[s])
    <3>1. CASE s \in 1..n
      BY <1>3, <1>4, <1>6, <1>8, <3>1
    <3>2. CASE s = n + 1
      <4>1. B2[s + 1] = N /\ B2[s] = B[n + 1]
        <5>1. s + 1 = n + 2
          BY <1>2, <3>2
        <5> QED BY <1>6, <1>8, <3>2, <5>1
      <4> QED BY <1>2, <1>4, <1>5, <3>2, <4>1
    <3> QED BY <1>2, <1>4, <3>1, <3>2
  <2>3. ASSUME NEW s \in 1..Len(t) + 1, NEW u \in 1..Len(t) + 1, s <= u PROVE B2[s] <= B2[u]
    <3>1. s \in 1..n + 2 /\ u \in 1..n + 2
      BY <1>2, <1>4
    <3>2. CASE u = n + 2
      <4>1. B2[s] <= N
        <5>1. CASE s \in 1..n + 1
          BY <1>2, <1>6, <5>1
        <5>2. CASE s = n + 2
          BY <1>2, <1>6, <5>2
        <5> QED BY <1>7, <3>1, <5>1, <5>2
      <4> QED BY <1>6, <3>2, <4>1
    <3>3. CASE u \in 1..n + 1
      <4>1. s \in 1..n + 1
        BY <1>2, <2>3, <3>1, <3>3
      <4> QED BY <1>3, <1>6, <2>3, <3>3, <4>1
    <3> QED BY <1>7, <3>1, <3>2, <3>3
  <2>4. Len(<<>>) = 0
    OBVIOUS
  <2>5. N = B2[Len(t) + 1] + Len(<<>>)
    <3>1. Len(t) + 1 = n + 2
      BY <1>2, <1>4
    <3> QED BY <1>2, <1>6, <2>4, <3>1
  <2>6. ASSUME NEW s \in 1..Len(t), IsBatch(t[s]), NEW i \in 1..Len(t[s].events)
        PROVE  F[B2[s] + i] = Waiting(t[s].events[i], t[s].dropped, p.change)
    <3>1. CASE s \in 1..n
      BY <1>3, <1>4, <1>6, <1>8, <2>6, <3>1, SMTT(60)
    <3>2. CASE s = n + 1
      <4>1. t[s] = sig /\ sig.events = pend /\ sig.dropped = left
        BY <1>4, <2>6, <3>2
      <4>2. B2[s] = B[n + 1]
        BY <1>6, <1>8, <3>2
      <4> QED BY <1>3, <2>6, <4>1, <4>2
    <3> QED BY <1>2, <1>4, <3>1, <3>2
  <2>7. \A i \in 1..Len(<<>>) : F[B2[Len(t) + 1] + i] = Waiting(<<>>[i], left, p.change)
    BY <2>4
  <2> QED BY <1>2, <1>3, <2>1, <2>2, <2>3, <2>5, <2>6, <2>7 DEF Laid
<1>10. Meet(N, F, B2, rows, t, p, r)
  <2>1. Meet(N, F, B, rows, sigs, p, r)
    BY DEF Flow
  <2>2. ASSUME NEW s \in 1..Len(t), ~IsBatch(t[s]) PROVE Apart(N, F, B2[s], r)
    <3>1. CASE s \in 1..n
      BY <1>4, <1>6, <1>8, <2>1, <2>2, <3>1 DEF Meet, n
    <3>2. CASE s = n + 1
      <4>1. pend = <<>> /\ Apart(N, F, N, r)
        BY <1>4, <2>2, <3>2
      <4>2. B2[s] = N
        <5>1. Len(<<>>) = 0
          OBVIOUS
        <5> QED BY <1>2, <1>6, <1>8, <3>2, <4>1, <5>1
      <4> QED BY <4>1, <4>2
    <3> QED BY <1>2, <1>4, <3>1, <3>2, SMTT(60)
  <2> QED BY <2>1, <2>2 DEF Meet
<1> QED BY <1>9, <1>10 DEF Flow, t

\* A report was decoded: its events go on, but for those that do not fit.
LEMMA ReceiveFlow ==
  ASSUME NEW N, NEW F, NEW B, NEW rows \in Seq(RowSet), NEW sigs \in Seq(SignalSet),
         NEW pend \in Seq(EventSet), NEW left \in Nat, NEW p, NEW d \in Decoders, NEW r \in Nat, NEW m,
         NEW d2 \in Decoders, NEW e, NEW room \in Nat, NEW left2 \in Nat,
         Flow(N, F, B, rows, sigs, pend, left, p, d, r, m), Tells(d, d2, e, r, m),
         room <= Len(e), left2 = left + (Len(e) - room), p.change \in Nat
  PROVE  \E F2 : Flow(N + room, F2, B, rows, sigs, pend \o SubSeq(e, 1, room), left2, p, d2, r, m)
<1> DEFINE n  == Len(sigs)
           c  == p.change
           q  == B[n + 1]
           N2 == N + room
           t  == pend \o SubSeq(e, 1, room)
           F2 == [i \in 1..N2 |->
                    [event |-> IF i <= N THEN F[i].event ELSE e[i - N],
                     left |-> IF i <= q THEN F[i].left ELSE Mark(left2),
                     change |-> IF i <= N THEN F[i].change ELSE c]]
<1>1. Laid(N, F, B, rows, sigs, pend, c, left)
  BY DEF Flow
<1>2. /\ n \in Nat /\ Len(rows) \in Nat /\ Len(pend) \in Nat /\ N \in Nat
      /\ \A s \in 1..n + 1 : B[s] \in Nat /\ Len(rows) <= B[s] /\ B[s] <= q /\ B[s] <= N
      /\ N = q + Len(pend)
      /\ \A s \in 1..n :
              IsBatch(sigs[s]) =>
                /\ Len(sigs[s].events) \in Nat
                /\ B[s] + Len(sigs[s].events) <= q
  <2>1. Placed(N, B, rows, sigs, pend)
    BY <1>1, Places
  <2> QED BY <2>1 DEF Placed
<1>3. /\ F \in [1..N -> ItemSet] /\ B \in [1..n + 1 -> Nat] /\ B[1] = Len(rows)
      /\ \A s \in 1..n : B[s + 1] = B[s] + Size(sigs[s])
      /\ \A s, u \in 1..n + 1 : s <= u => B[s] <= B[u]
      /\ \A i \in 1..Len(rows) : F[i] = RowItem(rows[i])
      /\ \A s \in 1..n :
           IsBatch(sigs[s]) =>
             \A i \in 1..Len(sigs[s].events) :
               F[B[s] + i] = Waiting(sigs[s].events[i], sigs[s].dropped, c)
      /\ \A i \in 1..Len(pend) : F[q + i] = Waiting(pend[i], left, c)
      /\ \A i \in 1..N : Len(rows) < i => F[i].change = c
  BY <1>1 DEF Laid
<1>4. q \in Nat /\ q <= N /\ Len(rows) <= q /\ N2 \in Nat /\ c \in Nat /\ Len(e) \in Nat
  <2>1. n + 1 \in 1..n + 1
    BY <1>2
  <2>2. Len(e) \in Nat
    BY DEF Tells
  <2> QED BY <1>2, <2>1, <2>2, SMTT(60)
<1>5. Runs(N, F, d, r, m, c) /\ Meet(N, F, B, rows, sigs, p, r) /\ Alternates(N, F) /\ Ends(N, F, c, d, r, left)
  BY DEF Flow
<1>6. left2 = 0 => left = 0 /\ room = Len(e)
  BY <1>4
<1>7. /\ e \in Seq(EventSet) /\ d.spell <= d2.spell
      /\ \A i \in 1..Len(e) : e[i].under = m /\ e[i].of = <<r, Spell(d, e[i].key)>>
      /\ \A i \in 1..Len(e) :
           ~Quiet(e[i]) => /\ Spell(d2, e[i].key) = Spell(d, e[i].key)
                           /\ Up(e[i]) <=> HeldBy(d, e[i].key)
                           /\ HeldBy(d2, e[i].key) <=> ~HeldBy(d, e[i].key)
      /\ \A i, j \in 1..Len(e) : i # j /\ ~Quiet(e[i]) /\ ~Quiet(e[j]) => e[i].key # e[j].key
      /\ \A k \in Keys \cup Native :
           /\ Spell(d2, k) = Spell(d, k)
           /\ \A i \in 1..Len(e) : e[i].key = k => Quiet(e[i])
           => (HeldBy(d2, k) <=> HeldBy(d, k))
  BY DEF Tells
<1>8. /\ t \in Seq(EventSet) /\ Len(t) = Len(pend) + room
      /\ \A i \in 1..Len(pend) : t[i] = pend[i]
      /\ \A i \in 1..Len(t) : i \in 1..Len(pend) \/ (i - Len(pend) \in 1..room /\ t[i] = e[i - Len(pend)])
  <2> DEFINE x == SubSeq(e, 1, room)
  <2>1. x \in Seq(EventSet) /\ Len(x) = room /\ \A i \in 1..room : x[i] = e[i]
    BY <1>4, <1>7, SMTT(60)
  <2> HIDE DEF x
  <2>0. x \in Seq(EventSet)
    BY <2>1
  <2>2. /\ pend \o x \in Seq(EventSet) /\ Len(pend \o x) = Len(pend) + Len(x)
        /\ \A i \in 1..Len(pend) : (pend \o x)[i] = pend[i]
        /\ \A i \in 1..Len(pend \o x) :
              i \in 1..Len(pend) \/ (i - Len(pend) \in 1..Len(x) /\ (pend \o x)[i] = x[i - Len(pend)])
    BY <2>0, Concat, SMTT(60)
  <2> QED BY <2>1, <2>2 DEF x
<1> HIDE DEF n, c, q, N2, t
<1>9. \A s \in Keys \cup Native : Spell(d, s) \in Nat /\ Spell(d2, s) \in Nat /\ Spell(d, s) <= Spell(d2, s)
  <2>1. d.spell \in Nat /\ d2.spell \in Nat
    BY DEF Decoders
  <2> QED BY <1>7, <2>1 DEF Spell
<1>10. \A i \in 1..N : F[i] \in ItemSet /\ F[i].event \in EventSet
  BY <1>3 DEF ItemSet
<1>11. ASSUME NEW i \in 1..N
       PROVE  /\ i \in 1..N2 /\ F2[i].event = F[i].event /\ F2[i].change = F[i].change
              /\ i <= q => F2[i].left = F[i].left
              /\ ~(i <= q) => F2[i].left = Mark(left2)
  <2>1. i \in 1..N2 /\ i <= N
    BY <1>2 DEF N2
  <2> QED BY <2>1
<1>12. ASSUME NEW i \in 1..N2
       PROVE  \/ i \in 1..N
              \/ /\ i - N \in 1..room /\ i - N \in 1..Len(e) /\ ~(i <= N) /\ F2[i].event = e[i - N]
                 /\ F2[i].left = Mark(left2) /\ F2[i].change = c
  <2>1. CASE i <= N
    BY <1>2, <2>1
  <2>2. CASE ~(i <= N)
    <3>1. i - N \in 1..room /\ i - N \in 1..Len(e) /\ ~(i <= q)
      BY <1>2, <1>4, <2>2 DEF N2
    <3> QED BY <2>2, <3>1
  <2> QED BY <2>1, <2>2
<1>13. \A i \in 1..N : F2[i].left = 0 => F[i].left = 0
  <2> SUFFICES ASSUME NEW i \in 1..N, F2[i].left = 0 PROVE F[i].left = 0
    OBVIOUS
  <2>1. CASE i <= q
    BY <1>11, <2>1
  <2>2. CASE ~(i <= q)
    <3>1. left2 = 0
      BY <1>11, <2>2 DEF Mark
    <3>2. i - q \in 1..Len(pend) /\ q + (i - q) = i
      BY <1>2, <1>4, <2>2, SMTT(60)
    <3>3. F[i] = Waiting(pend[i - q], left, c)
      BY <1>3, <3>2
    <3> QED BY <1>6, <3>1, <3>3 DEF Waiting, Mark
  <2> QED BY <2>1, <2>2
<1>14. Mark(left2) \in {0, 1} /\ (Mark(left2) = 0 => left2 = 0)
  BY DEF Mark
<1>15. F2 \in [1..N2 -> ItemSet]
  <2> SUFFICES ASSUME NEW i \in 1..N2
               PROVE  [event |-> IF i <= N THEN F[i].event ELSE e[i - N],
                       left |-> IF i <= q THEN F[i].left ELSE Mark(left2),
                       change |-> IF i <= N THEN F[i].change ELSE c] \in ItemSet
    OBVIOUS
  <2>1. CASE i \in 1..N
    <3>1. /\ F[i].event \in EventSet /\ F[i].left \in {0, 1} /\ F[i].change \in Nat /\ i <= N
      BY <1>10, <2>1, SMTT(60) DEF ItemSet
    <3> QED BY <1>14, <3>1 DEF ItemSet
  <2>2. CASE i \notin 1..N
    <3>1. i - N \in 1..Len(e) /\ ~(i <= N)
      BY <1>12, <2>2
    <3>2. e[i - N] \in EventSet /\ ~(i <= q)
      BY <1>2, <1>4, <1>7, <3>1, SMTT(60)
    <3> QED BY <1>4, <1>14, <3>1, <3>2 DEF ItemSet
  <2> QED BY <2>1, <2>2
<1> HIDE DEF F2
<1>16. Laid(N2, F2, B, rows, sigs, t, c, left2)
  <2>1. \A i \in 1..Len(rows) : F2[i] = RowItem(rows[i])
    <3> SUFFICES ASSUME NEW i \in 1..Len(rows) PROVE F2[i] = RowItem(rows[i])
      OBVIOUS
    <3>1. i \in 1..N /\ i <= q
      BY <1>2, <1>4
    <3>2. F[i] = RowItem(rows[i]) /\ F2[i] \in ItemSet /\ F[i] \in ItemSet
      BY <1>3, <1>10, <1>11, <1>15, <3>1
    <3>3. F2[i].event = F[i].event /\ F2[i].change = F[i].change /\ F2[i].left = F[i].left
      BY <1>11, <3>1
    <3>4. F2[i] = F[i]
      BY <3>2, <3>3, SameItem
    <3> QED BY <3>2, <3>4
  <2>2. ASSUME NEW s \in 1..n, IsBatch(sigs[s]), NEW i \in 1..Len(sigs[s].events)
        PROVE  F2[B[s] + i] = Waiting(sigs[s].events[i], sigs[s].dropped, c)
    <3> DEFINE x == B[s] + i
    <3>0. B[s] \in Nat
      BY <1>2
    <3>1. x \in 1..N /\ x <= q
      <4>1. Len(sigs[s].events) \in Nat /\ B[s] + Len(sigs[s].events) <= q
        BY <1>2, <2>2
      <4> DEFINE b == B[s]
                 l == Len(sigs[s].events)
      <4>2. b \in Nat /\ l \in Nat /\ b + l <= q /\ i \in 1..l
        BY <3>0, <4>1
      <4>3. q \in Nat /\ N \in Nat /\ q <= N
        BY <1>2, <1>4
      <4> HIDE DEF b, l
      <4>4. b + i \in 1..N /\ b + i <= q
        BY <4>2, <4>3
      <4> QED BY <4>4 DEF b
    <3> HIDE DEF x
    <3>2. F2[x].event = F[x].event /\ F2[x].change = F[x].change /\ F2[x].left = F[x].left
      BY <1>11, <3>1
    <3>3. F2[x] \in ItemSet /\ F[x] \in ItemSet
      BY <1>10, <1>11, <1>15, <3>1
    <3>4. F2[x] = F[x]
      BY <3>2, <3>3, SameItem
    <3>5. F[x] = Waiting(sigs[s].events[i], sigs[s].dropped, c)
      BY <1>3, <2>2 DEF x
    <3> QED BY <3>4, <3>5 DEF x
  <2>3. N2 = q + Len(t)
    BY <1>2, <1>4, <1>8 DEF N2
  <2>4. ASSUME NEW i \in 1..Len(t) PROVE F2[q + i] = Waiting(t[i], left2, c)
    <3> DEFINE x == q + i
    <3>1. x \in 1..N2 /\ ~(x <= q)
      BY <1>4, <1>8, <2>3, SMTT(60)
    <3>2. CASE i \in 1..Len(pend)
      <4>0. q + i \in 1..N
        BY <1>2, <1>4, <3>2
      <4>1. x \in 1..N /\ F[x] = Waiting(pend[i], left, c) /\ t[i] = pend[i]
        <5>1. F[q + i] = Waiting(pend[i], left, c)
          BY <1>3, <3>2, Zenon
        <5>2. t[i] = pend[i]
          BY <1>8, <3>2, Zenon
        <5> QED BY <4>0, <5>1, <5>2, Zenon
      <4> HIDE DEF x
      <4>2. F2[x].event = t[i] /\ F2[x].change = c /\ F2[x].left = Mark(left2) /\ F2[x] \in ItemSet
        BY <1>11, <1>15, <3>1, <4>1, SMTT(60) DEF Waiting
      <4>3. F2[x] = Waiting(t[i], left2, c)
        BY <4>2 DEF Waiting, ItemSet
      <4> QED BY <4>3 DEF x
    <3>3. CASE i - Len(pend) \in 1..room /\ t[i] = e[i - Len(pend)]
      <4>1. x - N = i - Len(pend) /\ x \notin 1..N
        BY <1>2, <1>4, <3>3, SMTT(60)
      <4> HIDE DEF x
      <4>2. F2[x].event = t[i] /\ F2[x].change = c /\ F2[x].left = Mark(left2) /\ F2[x] \in ItemSet
        BY <1>12, <1>15, <3>1, <3>3, <4>1
      <4>3. F2[x] = Waiting(t[i], left2, c)
        BY <4>2 DEF Waiting, ItemSet
      <4> QED BY <4>3 DEF x
    <3> QED BY <1>8, <3>2, <3>3
  <2>5. \A i \in 1..N2 : Len(rows) < i => F2[i].change = c
    BY <1>3, <1>11, <1>12
  <2> QED BY <1>3, <1>4, <1>15, <2>1, <2>2, <2>3, <2>4, <2>5 DEF Laid, n, q
<1>17. \A i \in 1..N : F[i].event.of[1] \in Nat /\ F[i].event.of[2] \in Nat /\ F[i].event.key \in Keys \cup Native
  BY <1>10 DEF EventSet
<1>18. ASSUME NEW i \in 1..Len(e)
       PROVE  /\ e[i].of[1] = r /\ e[i].of[2] = Spell(d, e[i].key) /\ e[i].under = m
              /\ e[i].key \in Keys \cup Native
  <2>1. e[i].of = <<r, Spell(d, e[i].key)>> /\ e[i].under = m
    BY <1>7
  <2>2. e[i] \in EventSet
    BY <1>7
  <2> QED BY <2>1, <2>2 DEF EventSet
<1>19. Runs(N2, F2, d2, r, m, c)
  <2>1. /\ \A i \in 1..N : F[i].event.of[1] <= r /\ F[i].change <= c
        /\ \A i, j \in 1..N : i <= j => F[i].event.of[1] <= F[j].event.of[1]
        /\ \A i, j \in 1..N :
             F[i].event.of[1] = F[j].event.of[1] => F[i].event.under = F[j].event.under
        /\ \A i \in 1..N :
             F[i].event.of[1] = r =>
               F[i].event.under = m /\ F[i].event.of[2] <= Spell(d, F[i].event.key)
    BY <1>5 DEF Runs
  <2>2. ASSUME NEW i \in 1..N2
        PROVE  /\ F2[i].event.of[1] <= r /\ F2[i].change <= c
               /\ F2[i].event.of[1] = r =>
                    F2[i].event.under = m /\ F2[i].event.of[2] <= Spell(d2, F2[i].event.key)
               /\ i \notin 1..N => F2[i].event.of[1] = r
    <3>1. CASE i \in 1..N
      <4>1. F2[i].event = F[i].event /\ F2[i].change = F[i].change
        BY <1>11, <3>1
      <4> DEFINE k == F[i].event.key
                 y == F[i].event.of[2]
      <4>2. k \in Keys \cup Native /\ y \in Nat
        BY <1>17, <3>1
      <4>3. Spell(d, k) \in Nat /\ Spell(d2, k) \in Nat /\ Spell(d, k) <= Spell(d2, k)
        BY <1>9, <4>2
      <4>4. F[i].event.of[1] = r => F[i].event.under = m /\ y <= Spell(d, k)
        BY <2>1, <3>1
      <4> HIDE DEF k, y
      <4>5. F[i].event.of[1] = r => F[i].event.under = m /\ y <= Spell(d2, k)
        BY <4>2, <4>3, <4>4
      <4> QED BY <2>1, <3>1, <4>1, <4>5 DEF k, y
    <3>2. CASE i \notin 1..N
      <4>1. /\ i - N \in 1..Len(e) /\ F2[i].event = e[i - N] /\ F2[i].change = c
        BY <1>12, <3>2
      <4> DEFINE v == e[i - N]
      <4>2. /\ v.of[1] = r /\ v.of[2] = Spell(d, v.key) /\ v.under = m
            /\ v.key \in Keys \cup Native
        BY <1>18, <4>1
      <4> HIDE DEF v
      <4>3. v.of[2] <= Spell(d2, v.key)
        BY <1>9, <4>2
      <4>4. F2[i].event = v
        BY <4>1 DEF v
      <4>5. r <= r /\ c <= c
        BY <1>4
      <4> QED BY <4>1, <4>2, <4>3, <4>4, <4>5
    <3> QED BY <3>1, <3>2
  <2>3. ASSUME NEW i \in 1..N2, NEW j \in 1..N2
        PROVE  /\ i <= j => F2[i].event.of[1] <= F2[j].event.of[1]
               /\ F2[i].event.of[1] = F2[j].event.of[1] => F2[i].event.under = F2[j].event.under
    <3>1. CASE i \in 1..N /\ j \in 1..N
      <4>1. F2[i].event = F[i].event /\ F2[j].event = F[j].event
        BY <1>11, <3>1
      <4> QED BY <2>1, <3>1, <4>1
    <3>2. CASE j \notin 1..N
      <4>1. F2[j].event.of[1] = r /\ F2[i].event.of[1] <= r /\ F2[j].event.under = m
        BY <2>2, <3>2
      <4>2. F2[i].event.of[1] = r => F2[i].event.under = m
        BY <2>2
      <4> QED BY <4>1, <4>2
    <3>3. CASE i \notin 1..N /\ j \in 1..N
      <4>1. F2[i].event.of[1] = r /\ F2[i].event.under = m /\ ~(i <= j)
        BY <1>2, <1>4, <2>2, <3>3
      <4>2. F2[j].event.of[1] = r => F2[j].event.under = m
        BY <2>2
      <4> QED BY <4>1, <4>2
    <3> QED BY <3>1, <3>2, <3>3
  <2> QED BY <2>2, <2>3 DEF Runs
<1>20. Meet(N2, F2, B, rows, sigs, p, r)
  <2>1. ASSUME NEW b, b \in Nat, b <= N, Apart(N, F, b, r) PROVE Apart(N2, F2, b, r)
    <3>1. /\ \A i \in 1..N : i <= b => F[i].event.of[1] < r
          /\ \A i, j \in 1..N : i <= b /\ b < j => F[i].event.of[1] < F[j].event.of[1]
      BY <2>1 DEF Apart
    <3>2. ASSUME NEW i \in 1..N2, i <= b
          PROVE  i \in 1..N /\ F2[i].event = F[i].event /\ F2[i].event.of[1] < r
      <4>1. i \in 1..N
        BY <1>2, <1>4, <2>1, <3>2
      <4> QED BY <1>11, <3>1, <3>2, <4>1
    <3>3. ASSUME NEW i \in 1..N2, NEW j \in 1..N2, i <= b, b < j
          PROVE  F2[i].event.of[1] < F2[j].event.of[1]
      <4>1. CASE j \in 1..N
        BY <1>11, <3>1, <3>2, <3>3, <4>1
      <4>2. CASE j \notin 1..N
        <5>1. j - N \in 1..Len(e) /\ F2[j].event = e[j - N]
          BY <1>12, <4>2
        <5>2. e[j - N].of[1] = r
          BY <1>18, <5>1
        <5> QED BY <3>2, <3>3, <5>1, <5>2
      <4> QED BY <4>1, <4>2
    <3> QED BY <3>2, <3>3 DEF Apart
  <2>2. /\ \A i \in 1..Len(rows) : rows[i].change = p.change => p.enabled /\ rows[i].mode = p.mode
        /\ \A s \in 1..Len(sigs) : ~IsBatch(sigs[s]) => Apart(N, F, B[s], r)
        /\ ~p.connected => Apart(N, F, Len(rows), r)
    BY <1>5 DEF Meet
  <2>3. \A s \in 1..Len(sigs) : B[s] \in Nat /\ B[s] <= N
    BY <1>2 DEF n
  <2>4. Len(rows) \in Nat /\ Len(rows) <= N
    BY <1>2, <1>4
  <2> QED BY <2>1, <2>2, <2>3, <2>4 DEF Meet
<1>21. \A i, j \in 1..N : Match(F2, i, j) <=> Match(F, i, j)
  BY <1>11 DEF Match
<1>22. Alternates(N2, F2)
  <2> SUFFICES ASSUME NEW i \in 1..N2, NEW j \in 1..N2,
                      i < j, Match(F2, i, j), ~Quiet(F2[i].event), ~Quiet(F2[j].event),
                      F2[j].left = 0,
                      \A k \in 1..N2 : i < k /\ k < j /\ Match(F2, i, k) => Quiet(F2[k].event)
               PROVE  Up(F2[i].event) <=> ~Up(F2[j].event)
    BY DEF Alternates
  <2>1. CASE i \in 1..N /\ j \in 1..N
    <3>1. \A k \in 1..N : i < k /\ k < j /\ Match(F, i, k) => Quiet(F[k].event)
      BY <1>11, <1>21, <2>1
    <3>2. F2[i].event = F[i].event /\ F2[j].event = F[j].event /\ F[j].left = 0 /\ Match(F, i, j)
      BY <1>11, <1>13, <1>21, <2>1
    <3>3. Up(F[i].event) <=> ~Up(F[j].event)
      BY <1>5, <2>1, <3>1, <3>2 DEF Alternates
    <3> QED BY <3>2, <3>3
  <2>2. CASE j \notin 1..N
    <3> DEFINE v == e[j - N]
    <3>1. /\ j - N \in 1..Len(e) /\ F2[j].event = v /\ left2 = 0 /\ F2[j].change = c
          /\ F2[j].left = Mark(left2)
      BY <1>12, <1>14, <2>2
    <3>2. /\ ~Quiet(v) /\ (Up(v) <=> HeldBy(d, v.key)) /\ v.of = <<r, Spell(d, v.key)>>
      BY <1>7, <3>1
    <3> HIDE DEF v
    <3>3. F2[i].event.key = v.key /\ F2[i].event.of = v.of /\ F2[i].change = c
      BY <3>1 DEF Match
    <3>4. CASE i \in 1..N
      <4>1. F2[i].event = F[i].event /\ F[i].change = c
        BY <1>11, <3>3, <3>4
      <4>2. ASSUME NEW k \in 1..N, i < k, Match(F, i, k) PROVE Quiet(F[k].event)
        <5>1. k < j /\ k \in 1..N2 /\ Match(F2, i, k) /\ F2[k].event = F[k].event
          BY <1>2, <1>4, <1>11, <1>21, <2>2, <3>4, <4>2
        <5> QED BY <4>2, <5>1
      <4>3. left = 0
        BY <1>6, <3>1
      <4>4. F[i].event.of = <<r, Spell(d, F[i].event.key)>>
        BY <3>2, <3>3, <4>1
      <4>5. Up(F[i].event) <=> ~HeldBy(d, F[i].event.key)
        BY <1>5, <3>4, <4>1, <4>2, <4>3, <4>4 DEF Ends
      <4> QED BY <3>1, <3>2, <3>3, <4>1, <4>5
    <3>5. CASE i \notin 1..N
      <4>1. i - N \in 1..Len(e) /\ F2[i].event = e[i - N]
        BY <1>12, <3>5
      <4>2. i - N # j - N
        BY <1>2, <1>4
      <4>3. e[i - N].key # e[j - N].key
        BY <1>7, <3>1, <3>2, <4>1, <4>2 DEF v
      <4> QED BY <3>3, <4>1, <4>3 DEF v
    <3> QED BY <3>4, <3>5
  <2>3. CASE j \in 1..N /\ i \notin 1..N
    BY <1>2, <1>4, <2>3
  <2> QED BY <2>1, <2>2, <2>3
<1>23. Ends(N2, F2, c, d2, r, left2)
  <2> SUFFICES ASSUME left2 = 0, NEW i \in 1..N2, F2[i].change = c,
                      F2[i].event.of = <<r, Spell(d2, F2[i].event.key)>>,
                      ~Quiet(F2[i].event),
                      \A k \in 1..N2 : i < k /\ Match(F2, i, k) => Quiet(F2[k].event)
               PROVE  Up(F2[i].event) <=> ~HeldBy(d2, F2[i].event.key)
    BY DEF Ends
  <2>0. left = 0 /\ room = Len(e)
    BY <1>6
  <2>1. CASE i \notin 1..N
    <3> DEFINE v == e[i - N]
    <3>1. i - N \in 1..Len(e) /\ F2[i].event = v
      BY <1>12, <2>1
    <3>2. (Up(v) <=> HeldBy(d, v.key)) /\ (HeldBy(d2, v.key) <=> ~HeldBy(d, v.key))
      BY <1>7, <3>1
    <3> HIDE DEF v
    <3> QED BY <3>1, <3>2
  <2>2. CASE i \in 1..N
    <3> DEFINE x == F[i].event
               k == F[i].event.key
    <3>1. F2[i].event = x /\ F[i].change = c
      BY <1>11, <2>2
    <3>2. k \in Keys \cup Native /\ x.of[1] \in Nat /\ x.of[2] \in Nat
      BY <1>17, <2>2
    <3>3. x.of[1] = r /\ x.of[2] = Spell(d2, k)
      BY <3>1
    <3>4. x.of[2] <= Spell(d, k)
      BY <1>5, <2>2, <3>3 DEF Runs
    <3>5. Spell(d, k) = Spell(d2, k)
      <4>1. Spell(d, k) \in Nat /\ Spell(d2, k) \in Nat /\ Spell(d, k) <= Spell(d2, k)
        BY <1>9, <3>2
      <4> HIDE DEF x, k
      <4> QED BY <3>2, <3>3, <3>4, <4>1
    <3>6. x.of = <<r, Spell(d, k)>>
      BY <3>1, <3>5
    <3>7. ASSUME NEW y \in 1..N, i < y, Match(F, i, y) PROVE Quiet(F[y].event)
      <4>1. y \in 1..N2 /\ Match(F2, i, y) /\ F2[y].event = F[y].event
        BY <1>11, <1>21, <2>2, <3>7
      <4> QED BY <3>7, <4>1
    <3>8. Up(x) <=> ~HeldBy(d, k)
      BY <1>5, <2>0, <2>2, <3>1, <3>6, <3>7 DEF Ends
    <3>9. ASSUME NEW y \in 1..Len(e), e[y].key = k PROVE Quiet(e[y])
      <4> DEFINE z == N + y
      <4>1. z \in 1..N2 /\ z - N = y /\ z \notin 1..N /\ i < z
        BY <1>2, <1>4, <2>0, <2>2, SMTT(60) DEF N2
      <4> HIDE DEF z
      <4>2. F2[z].event = e[y] /\ F2[z].change = c
        BY <1>12, <4>1
      <4>3. e[y].of = <<r, Spell(d, k)>>
        BY <1>7, <3>9
      <4>4. Match(F2, i, z)
        <5>1. F2[i].event.key = F2[z].event.key
          BY <3>1, <3>9, <4>2
        <5>2. F2[i].event.of = F2[z].event.of
          BY <3>1, <3>6, <4>2, <4>3
        <5> QED BY <4>2, <5>1, <5>2 DEF Match
      <4> QED BY <4>1, <4>2, <4>4
    <3>10. HeldBy(d2, k) <=> HeldBy(d, k)
      BY <1>7, <3>2, <3>5, <3>9
    <3> HIDE DEF x, k
    <3>11. F2[i].event.key = k
      BY <3>1 DEF x, k
    <3> QED BY <3>1, <3>8, <3>10, <3>11
  <2> QED BY <2>1, <2>2
<1> QED BY <1>16, <1>19, <1>20, <1>22, <1>23 DEF Flow, c, t, N2

\* The first o events of a stream go, and those behind b get another recording.
Shifted(F, N2, F2, o, b, c, c2) ==
  \A i \in 1..N2 : /\ F2[i].event = F[i + o].event /\ F2[i].left = F[i + o].left
                   /\ i <= b => F2[i].change = F[i + o].change
                   /\ ~(i <= b) => F2[i].change = c2 /\ F[i + o].change = c

\* The stream without its first o events, renumbered.
LEMMA ShiftFlow ==
  ASSUME NEW N \in Nat, NEW F \in [1..N -> ItemSet], NEW o \in 0..N, NEW N2, N2 = N - o, NEW F2,
         NEW b, NEW c \in Nat, NEW c2 \in Nat, c <= c2, NEW d, NEW r, NEW m, NEW n,
         b \in Nat, Runs(N, F, d, r, m, c), Alternates(N, F), Ends(N, F, c, d, r, n),
         Shifted(F, N2, F2, o, b, c, c2)
  PROVE  /\ Alternates(N2, F2) /\ Ends(N2, F2, c2, d, r, n) /\ Runs(N2, F2, d, r, m, c2)
         /\ \A b0 \in Nat : Apart(N, F, b0, r) => Apart(N2, F2, b0 - o, r)
<1> DEFINE g == [i \in 1..N2 |-> i + o]
<1>1. N2 \in Nat /\ o \in Nat
  OBVIOUS
<1>2. \A i \in 1..N2 : g[i] = i + o /\ g[i] \in 1..N
  BY <1>1
<1>3. g \in [1..N2 -> 1..N]
  BY <1>2
<1> HIDE DEF g
<1>4. \A i \in 1..N : F[i].change \in Nat /\ F[i].change <= c
  <2>1. \A i \in 1..N : F[i].change \in Nat
    BY DEF ItemSet
  <2> QED BY <2>1 DEF Runs
<1>5. ASSUME NEW i \in 1..N2
      PROVE  /\ F2[i].event = F[g[i]].event /\ F2[i].left = F[g[i]].left
             /\ F2[i].change <= c2
             /\ i <= b => F2[i].change = F[g[i]].change
             /\ ~(i <= b) => F2[i].change = c2 /\ F[g[i]].change = c
             /\ F2[i].change = c2 => F[g[i]].change = c
             /\ F2[i].change \in Nat /\ F[g[i]].change \in Nat
  <2>1. g[i] = i + o /\ g[i] \in 1..N
    BY <1>2
  <2>2. F[g[i]].change \in Nat /\ F[g[i]].change <= c
    BY <1>4, <2>1
  <2>3. CASE i <= b
    BY <2>1, <2>2, <2>3 DEF Shifted
  <2>4. CASE ~(i <= b)
    BY <2>1, <2>2, <2>4 DEF Shifted
  <2> QED BY <2>3, <2>4
<1>6. \A i, j \in 1..N2 : F2[i].change = F2[j].change => F[g[i]].change = F[g[j]].change
  <2> SUFFICES ASSUME NEW i \in 1..N2, NEW j \in 1..N2, F2[i].change = F2[j].change
               PROVE  F[g[i]].change = F[g[j]].change
    OBVIOUS
  <2>1. CASE i <= b /\ j <= b
    BY <1>5, <2>1
  <2>2. CASE ~(i <= b)
    BY <1>5, <2>2
  <2>3. CASE ~(j <= b)
    BY <1>5, <2>3
  <2> QED BY <2>1, <2>2, <2>3
<1>7. ASSUME NEW i \in 1..N2, NEW k \in 1..N, g[i] < k, F[g[i]].change = F[k].change,
             \/ F2[i].change = c2
             \/ \E j \in 1..N2 : F2[i].change = F2[j].change /\ k < g[j]
      PROVE  k - o \in 1..N2 /\ g[k - o] = k /\ F2[i].change = F2[k - o].change
  <2> DEFINE q == k - o
  <2>1. q \in 1..N2 /\ q + o = k /\ i < q
    BY <1>1, <1>2, <1>7
  <2>2. g[q] = k
    BY <1>2, <2>1
  <2> HIDE DEF q
  <2>3. F[g[i]].change = F[g[q]].change
    BY <1>7, <2>2
  <2>4. CASE q <= b
    <3>1. i <= b
      BY <1>1, <2>1, <2>4
    <3> QED BY <1>5, <2>1, <2>2, <2>3, <2>4, <3>1 DEF q
  <2>5. CASE ~(q <= b)
    <3>1. F2[q].change = c2 /\ F[g[q]].change = c
      BY <1>5, <2>1, <2>5
    <3>2. F2[i].change = c2
      <4>1. CASE F2[i].change = c2
        BY <4>1
      <4>2. CASE \E j \in 1..N2 : F2[i].change = F2[j].change /\ k < g[j]
        <5>1. PICK j \in 1..N2 : F2[i].change = F2[j].change /\ k < g[j]
          BY <4>2
        <5>2. ~(j <= b)
          BY <1>1, <1>2, <2>1, <2>5, <5>1
        <5> QED BY <1>5, <5>1, <5>2
      <4> QED BY <1>7, <4>1, <4>2
    <3> QED BY <2>1, <2>2, <3>1, <3>2 DEF q
  <2> QED BY <2>4, <2>5
<1>8. Embeds(N, F, N2, F2, g)
  <2>1. \A i, j \in 1..N2 : i < j => g[i] < g[j]
    BY <1>1, <1>2
  <2>2. \A i, j \in 1..N2 : Match(F2, i, j) => Match(F, g[i], g[j])
    BY <1>5, <1>6 DEF Match
  <2>3. ASSUME NEW i \in 1..N2, NEW j \in 1..N2, NEW k \in 1..N,
               Match(F2, i, j), g[i] < k, k < g[j], Match(F, g[i], k)
        PROVE  \E q \in 1..N2 : g[q] = k /\ Match(F2, i, q)
    <3>1. k - o \in 1..N2 /\ g[k - o] = k /\ F2[i].change = F2[k - o].change
      BY <1>7, <2>3 DEF Match
    <3>2. Match(F2, i, k - o)
      BY <1>5, <2>3, <3>1 DEF Match
    <3> QED BY <3>1, <3>2
  <2> QED BY <1>3, <1>5, <2>1, <2>2, <2>3 DEF Embeds
<1>9. Alternates(N2, F2)
  BY <1>1, <1>8, EmbedAlternates
<1>10. Ends(N2, F2, c2, d, r, n)
  <2>1. ASSUME NEW i \in 1..N2, NEW k \in 1..N, F2[i].change = c2, g[i] < k, Match(F, g[i], k)
        PROVE  \E q \in 1..N2 : g[q] = k /\ Match(F2, i, q)
    <3>1. k - o \in 1..N2 /\ g[k - o] = k /\ F2[i].change = F2[k - o].change
      BY <1>7, <2>1 DEF Match
    <3>2. Match(F2, i, k - o)
      BY <1>5, <2>1, <3>1 DEF Match
    <3> QED BY <3>1, <3>2
  <2>2. \A i \in 1..N2 : F2[i].change = c2 => F[g[i]].change = c
    BY <1>5
  <2>3. Keeps(N, F, N2, F2, g, c, c2, r)
    BY <2>1, <2>2 DEF Keeps
  <2> QED BY <1>1, <1>8, <2>3, EmbedEnds
<1>11. Runs(N2, F2, d, r, m, c2)
  <2>1. \A i \in 1..N2 : F2[i].change <= c2
    BY <1>5
  <2> QED BY <1>1, <1>8, <2>1, EmbedRuns
<1>12. ASSUME NEW b0 \in Nat, Apart(N, F, b0, r) PROVE Apart(N2, F2, b0 - o, r)
  <2>1. \A i \in 1..N2 : i <= b0 - o => g[i] <= b0
    BY <1>1, <1>2
  <2>2. \A i \in 1..N2 : b0 - o < i => b0 < g[i]
    BY <1>1, <1>2
  <2> QED BY <1>1, <1>8, <1>12, <2>1, <2>2, EmbedApart
<1> QED BY <1>9, <1>10, <1>11, <1>12

\* The user changes what is recorded, or clears it.
LEMMA ChangeFlow ==
  ASSUME NEW N, NEW F, NEW B, NEW rows \in Seq(RowSet), NEW sigs \in Seq(SignalSet),
         NEW pend \in Seq(EventSet), NEW left, NEW p, NEW d, NEW r \in Nat, NEW m,
         NEW p2, NEW rows2 \in Seq(RowSet), rows2 = rows \/ rows2 = <<>>,
         p.change \in Nat, p2.change = p.change + 1, p2.connected = p.connected,
         Flow(N, F, B, rows, sigs, pend, left, p, d, r, m)
  PROVE  \E N2, F2, B2 : Flow(N2, F2, B2, rows2, sigs, pend, left, p2, d, r, m)
<1> DEFINE n  == Len(sigs)
           c  == p.change
           c2 == p2.change
           l  == Len(rows)
           b  == Len(rows2)
           q  == B[n + 1]
           o  == l - b
           N2 == N - o
           F2 == [i \in 1..N2 |->
                    [event |-> F[i + o].event, left |-> F[i + o].left,
                     change |-> IF i <= b THEN F[i + o].change ELSE c2]]
           B2 == [s \in 1..n + 1 |-> B[s] - o]
<1>1. Laid(N, F, B, rows, sigs, pend, c, left)
  BY DEF Flow
<1>2. /\ n \in Nat /\ l \in Nat /\ Len(pend) \in Nat /\ N \in Nat
      /\ \A s \in 1..n + 1 : B[s] \in Nat /\ l <= B[s] /\ B[s] <= N
      /\ N = q + Len(pend) /\ l <= N
      /\ \A s \in 1..n :
              IsBatch(sigs[s]) =>
                /\ Len(sigs[s].events) \in Nat
                /\ B[s] + Len(sigs[s].events) <= q
  <2>1. Placed(N, B, rows, sigs, pend)
    BY <1>1, Places
  <2> QED BY <2>1 DEF Placed
<1>3. /\ F \in [1..N -> ItemSet] /\ B \in [1..n + 1 -> Nat] /\ B[1] = l
      /\ \A s \in 1..n : B[s + 1] = B[s] + Size(sigs[s])
      /\ \A s, u \in 1..n + 1 : s <= u => B[s] <= B[u]
      /\ \A i \in 1..l : F[i] = RowItem(rows[i])
      /\ \A s \in 1..n :
           IsBatch(sigs[s]) =>
             \A i \in 1..Len(sigs[s].events) :
               F[B[s] + i] = Waiting(sigs[s].events[i], sigs[s].dropped, c)
      /\ \A i \in 1..Len(pend) : F[q + i] = Waiting(pend[i], left, c)
      /\ \A i \in 1..N : l < i => F[i].change = c
  BY <1>1 DEF Laid
<1>4. /\ o \in 0..N /\ b \in Nat /\ o + b = l /\ o <= l /\ b <= N2 /\ N2 \in Nat /\ o \in Nat
      /\ o = 0 \/ b = 0
      /\ rows2 = rows => o = 0
      /\ rows2 = <<>> => b = 0
  <2>1. Len(<<>>) = 0
    OBVIOUS
  <2>2. b = l \/ b = 0
    BY <2>1
  <2>3. b \in Nat /\ (rows2 = rows => b = l) /\ (rows2 = <<>> => b = 0)
    BY <2>1
  <2> HIDE DEF b, l
  <2> QED BY <1>2, <2>2, <2>3, SMTT(60)
<1>5. c \in Nat /\ c2 \in Nat /\ c <= c2 /\ c2 = c + 1
  OBVIOUS
<1> HIDE DEF n, c, c2, l, b, q, o, N2
<1>6. \A i \in 1..N2 : i + o \in 1..N
  BY <1>2, <1>4 DEF N2
<1>7. \A i \in 1..N : F[i] \in ItemSet /\ F[i].event \in EventSet /\ F[i].left \in {0, 1} /\ F[i].change \in Nat
  BY <1>3 DEF ItemSet
<1>8. ASSUME NEW i \in 1..N2
      PROVE  /\ F2[i].event = F[i + o].event /\ F2[i].left = F[i + o].left
             /\ i <= b => F2[i].change = F[i + o].change
             /\ ~(i <= b) => F2[i].change = c2 /\ F[i + o].change = c
  <2>1. ~(i <= b) => l < i + o
    BY <1>2, <1>4
  <2>2. ~(i <= b) => F[i + o].change = c
    BY <1>3, <1>6, <2>1
  <2> QED BY <2>2
<1>9. F2 \in [1..N2 -> ItemSet]
  <2> SUFFICES ASSUME NEW i \in 1..N2
               PROVE  [event |-> F[i + o].event, left |-> F[i + o].left,
                       change |-> IF i <= b THEN F[i + o].change ELSE c2] \in ItemSet
    OBVIOUS
  <2> DEFINE x == IF i <= b THEN F[i + o].change ELSE c2
  <2>1. x \in Nat
    BY <1>5, <1>6, <1>7
  <2> HIDE DEF x
  <2>2. [event |-> F[i + o].event, left |-> F[i + o].left, change |-> x] \in ItemSet
    BY <1>6, <1>7, <2>1 DEF ItemSet
  <2> QED BY <2>2 DEF x
<1> HIDE DEF F2
<1>10. /\ Alternates(N2, F2) /\ Ends(N2, F2, c2, d, r, left) /\ Runs(N2, F2, d, r, m, c2)
       /\ \A b0 \in Nat : Apart(N, F, b0, r) => Apart(N2, F2, b0 - o, r)
  <2>1. Runs(N, F, d, r, m, c) /\ Alternates(N, F) /\ Ends(N, F, c, d, r, left)
    BY DEF Flow, c
  <2>2. N2 = N - o
    BY DEF N2
  <2>3. Shifted(F, N2, F2, o, b, c, c2)
    BY <1>8 DEF Shifted
  <2>4. /\ N \in Nat /\ F \in [1..N -> ItemSet] /\ o \in 0..N /\ b \in Nat
        /\ c \in Nat /\ c2 \in Nat /\ c <= c2
    BY <1>2, <1>3, <1>4, <1>5
  <2> QED BY <2>1, <2>2, <2>3, <2>4, ShiftFlow
<1>11. \A s \in 1..n + 1 : B2[s] = B[s] - o /\ B2[s] \in Nat
  BY <1>2, <1>4
<1>12. B2 \in [1..n + 1 -> Nat]
  BY <1>11
<1> HIDE DEF B2
<1>13. 1 \in 1..n + 1 /\ n + 1 \in 1..n + 1 /\ \A s \in 1..n : s \in 1..n + 1 /\ s + 1 \in 1..n + 1
  BY <1>2
<1>14. ASSUME NEW i \in Nat, l < i, i <= N, NEW e, NEW y, F[i] = Waiting(e, y, c)
       PROVE  F2[i - o] = Waiting(e, y, c2)
  <2> DEFINE x == i - o
  <2>1. x \in 1..N2 /\ x + o = i /\ ~(x <= b)
    BY <1>2, <1>4, <1>14 DEF N2
  <2> HIDE DEF x
  <2>2. F2[x].event = e /\ F2[x].left = Mark(y) /\ F2[x].change = c2
    BY <1>8, <1>14, <2>1 DEF Waiting
  <2>3. F2[x] \in ItemSet
    BY <1>9, <2>1
  <2>4. F2[x] = [event |-> e, left |-> Mark(y), change |-> c2]
    BY <2>2, <2>3 DEF ItemSet
  <2> QED BY <2>4 DEF Waiting, x
<1>15. Laid(N2, F2, B2, rows2, sigs, pend, c2, left)
  <2>1. B2[1] = Len(rows2)
    BY <1>2, <1>3, <1>4, <1>11, <1>13, SMTT(60) DEF b
  <2>2. \A s \in 1..n : B2[s + 1] = B2[s] + Size(sigs[s])
    <3> SUFFICES ASSUME NEW s \in 1..n PROVE B2[s + 1] = B2[s] + Size(sigs[s])
      OBVIOUS
    <3>1. B2[s] = B[s] - o /\ B2[s + 1] = B[s + 1] - o /\ B[s] \in Nat
      BY <1>2, <1>11, <1>13
    <3>2. Size(sigs[s]) \in Nat
      BY SignalFacts DEF n
    <3>3. B[s + 1] = B[s] + Size(sigs[s])
      BY <1>3
    <3>4. (B[s] + Size(sigs[s])) - o = (B[s] - o) + Size(sigs[s])
      BY <1>4, <3>1, <3>2, Minus
    <3> QED BY <3>1, <3>3, <3>4
  <2>3. \A s, u \in 1..n + 1 : s <= u => B2[s] <= B2[u]
    <3> SUFFICES ASSUME NEW s \in 1..n + 1, NEW u \in 1..n + 1, s <= u PROVE B2[s] <= B2[u]
      OBVIOUS
    <3>1. B[s] <= B[u] /\ B[s] \in Nat /\ B[u] \in Nat /\ B2[s] = B[s] - o /\ B2[u] = B[u] - o
      BY <1>2, <1>3, <1>11
    <3> QED BY <1>4, <3>1
  <2>4. N2 = B2[n + 1] + Len(pend)
    <3>1. q \in Nat /\ B2[n + 1] = q - o
      BY <1>2, <1>11, <1>13 DEF q
    <3>2. (q + Len(pend)) - o = (q - o) + Len(pend)
      BY <1>2, <1>4, <3>1, Minus
    <3> QED BY <1>2, <3>1, <3>2 DEF N2
  <2>5. ASSUME NEW i \in 1..Len(rows2) PROVE F2[i] = RowItem(rows2[i])
    <3>1. rows2 = rows /\ o = 0 /\ i \in 1..l /\ i <= b /\ i \in 1..N2
      <4>1. i \in 1..b
        BY <2>5 DEF b
      <4>2. b # 0
        BY <1>4, <4>1
      <4> QED BY <1>4, <4>1, <4>2
    <3>2. i + o = i
      BY <3>1
    <3>3. F2[i].event = F[i].event /\ F2[i].left = F[i].left /\ F2[i].change = F[i].change
      BY <1>8, <3>1, <3>2
    <3>4. F2[i] \in ItemSet /\ F[i] \in ItemSet
      BY <1>6, <1>7, <1>9, <3>1, <3>2
    <3>5. F2[i] = F[i]
      BY <3>3, <3>4, SameItem
    <3> QED BY <1>3, <3>1, <3>5
  <2>6. ASSUME NEW s \in 1..n, IsBatch(sigs[s]), NEW i \in 1..Len(sigs[s].events)
        PROVE  F2[B2[s] + i] = Waiting(sigs[s].events[i], sigs[s].dropped, c2)
    <3> DEFINE k == B[s] + i
    <3>1. /\ B[s] \in Nat /\ l <= B[s] /\ Len(sigs[s].events) \in Nat
          /\ B[s] + Len(sigs[s].events) <= q /\ q \in Nat /\ q <= N
      BY <1>2, <1>13, <2>6 DEF q
    <3>2. k \in Nat /\ l < k /\ k <= N
      <4> DEFINE y == B[s]
                 z == Len(sigs[s].events)
      <4>1. y \in Nat /\ l <= y /\ z \in Nat /\ y + z <= q /\ i \in 1..z
        BY <3>1
      <4> HIDE DEF y, z
      <4>2. y + i \in Nat /\ l < y + i /\ y + i <= N
        BY <1>2, <3>1, <4>1, SMTT(60)
      <4> QED BY <4>2 DEF y
    <3>3. F[k] = Waiting(sigs[s].events[i], sigs[s].dropped, c)
      BY <1>3, <2>6
    <3>4. B2[s] + i = k - o
      <4>1. B2[s] = B[s] - o
        BY <1>11, <1>13
      <4>2. (B[s] + i) - o = (B[s] - o) + i
        BY <1>4, <3>1, Minus
      <4> QED BY <4>1, <4>2
    <3> HIDE DEF k
    <3> QED BY <1>14, <3>2, <3>3, <3>4
  <2>7. ASSUME NEW i \in 1..Len(pend) PROVE F2[B2[n + 1] + i] = Waiting(pend[i], left, c2)
    <3> DEFINE k == q + i
    <3>1. q \in Nat /\ l <= q /\ B2[n + 1] = q - o
      BY <1>2, <1>11, <1>13 DEF q
    <3>2. k \in Nat /\ l < k /\ k <= N /\ B2[n + 1] + i = k - o
      <4>1. (q + i) - o = (q - o) + i
        BY <1>4, <3>1, Minus
      <4>2. k \in Nat /\ l < k /\ k <= N
        BY <1>2, <3>1
      <4> QED BY <3>1, <4>1, <4>2
    <3>3. F[k] = Waiting(pend[i], left, c)
      BY <1>3
    <3> HIDE DEF k
    <3> QED BY <1>14, <3>2, <3>3
  <2>8. \A i \in 1..N2 : Len(rows2) < i => F2[i].change = c2
    BY <1>4, <1>8 DEF b
  <2> QED BY <1>4, <1>9, <1>12, <2>1, <2>2, <2>3, <2>4, <2>5, <2>6, <2>7, <2>8 DEF Laid, n
<1>16. Meet(N2, F2, B2, rows2, sigs, p2, r)
  <2>1. /\ \A s \in 1..Len(sigs) : ~IsBatch(sigs[s]) => Apart(N, F, B[s], r)
        /\ ~p.connected => Apart(N, F, Len(rows), r)
    BY DEF Flow, Meet
  <2>2. \A s \in 1..Len(sigs) : ~IsBatch(sigs[s]) => Apart(N2, F2, B2[s], r)
    BY <1>2, <1>10, <1>11, <1>13, <2>1 DEF n
  <2>3. ~p2.connected => Apart(N2, F2, Len(rows2), r)
    <3>1. Len(rows2) = Len(rows) - o
      BY <1>2, <1>4 DEF l, b
    <3>2. Len(rows) \in Nat
      BY <1>2 DEF l
    <3> QED BY <1>10, <2>1, <3>1, <3>2
  <2>4. ASSUME NEW i \in 1..Len(rows2), rows2[i].change = p2.change PROVE FALSE
    <3>1. rows2 = rows /\ i \in 1..l /\ i \in 1..N
      <4>1. i \in 1..b
        BY <2>4 DEF b
      <4>2. b # 0
        BY <1>4, <4>1
      <4> QED BY <1>2, <1>4, <4>1, <4>2
    <3>2. F[i].change = rows[i].change
      BY <1>3, <3>1, RowParts
    <3>3. F[i].change <= c /\ F[i].change \in Nat
      BY <1>7, <3>1 DEF Flow, Runs, c
    <3> QED BY <1>5, <2>4, <3>1, <3>2, <3>3 DEF c2
  <2> QED BY <2>2, <2>3, <2>4 DEF Meet
<1> QED BY <1>10, <1>15, <1>16 DEF Flow, c2

\* The window takes the first signal: where what is left lies.
Later(B, n, o) == [s \in 1..n |-> B[s + 1] - o]

\* The stream with the rows of rows2 and without o of the events before the rest.
Rest(F, N2, F2, o, rows2) ==
  /\ \A i \in 1..Len(rows2) : F2[i] = RowItem(rows2[i])
  /\ \A i \in 1..N2 : Len(rows2) < i => F2[i] = F[i + o]

\* The other signals keep their places in it.
Behind(N, B, B2, rows, sigs, o) ==
  \A s \in 1..Len(Tail(sigs)) : /\ B2[s] = B[s + 1] - o
                                /\ B[s + 1] \in Nat /\ B[s + 1] <= N
                                /\ Len(rows) + Size(sigs[1]) <= B[s + 1]

\* One signal fewer, its events among the rows or gone.
LEMMA TailLaid ==
  ASSUME NEW N, NEW F, NEW B, NEW rows \in Seq(RowSet), NEW sigs \in Seq(SignalSet),
         NEW pend \in Seq(EventSet), NEW left, NEW c, Laid(N, F, B, rows, sigs, pend, c, left),
         sigs # <<>>, NEW o \in Nat, NEW N2, N2 = N - o, NEW F2 \in [1..N2 -> ItemSet],
         NEW rows2 \in Seq(RowSet), Len(rows2) = Len(rows) + Size(sigs[1]) - o,
         Rest(F, N2, F2, o, rows2)
  PROVE  /\ Laid(N2, F2, Later(B, Len(sigs), o), rows2, Tail(sigs), pend, c, left)
         /\ Behind(N, B, Later(B, Len(sigs), o), rows, sigs, o)
<1> DEFINE n  == Len(sigs)
           l  == Len(rows)
           b  == Len(rows2)
           k  == Size(sigs[1])
           q  == B[n + 1]
           t  == Tail(sigs)
           B2 == Later(B, n, o)
<1>1. /\ n \in Nat /\ l \in Nat /\ Len(pend) \in Nat /\ N \in Nat
      /\ \A s \in 1..n + 1 : B[s] \in Nat /\ l <= B[s] /\ B[s] <= N
      /\ N = q + Len(pend) /\ l <= N
      /\ \A s \in 1..n :
              IsBatch(sigs[s]) =>
                /\ Len(sigs[s].events) \in Nat
                /\ B[s] + Len(sigs[s].events) <= q
  <2>1. Placed(N, B, rows, sigs, pend)
    BY Places
  <2> QED BY <2>1 DEF Placed
<1>2. /\ F \in [1..N -> ItemSet] /\ B \in [1..n + 1 -> Nat] /\ B[1] = l
      /\ \A s \in 1..n : B[s + 1] = B[s] + Size(sigs[s])
      /\ \A s, u \in 1..n + 1 : s <= u => B[s] <= B[u]
      /\ \A s \in 1..n :
           IsBatch(sigs[s]) =>
             \A i \in 1..Len(sigs[s].events) :
               F[B[s] + i] = Waiting(sigs[s].events[i], sigs[s].dropped, c)
      /\ \A i \in 1..Len(pend) : F[q + i] = Waiting(pend[i], left, c)
      /\ \A i \in 1..N : l < i => F[i].change = c
  BY DEF Laid
<1>3. n \in Nat \ {0}
  OBVIOUS
<1>4. /\ Len(t) = n - 1 /\ \A s \in 1..n - 1 : t[s] = sigs[s + 1]
  BY <1>3
<1>5. \A s \in 1..n : sigs[s] \in SignalSet
  OBVIOUS
<1> HIDE DEF n, t, l, b
<1>6. k \in Nat
  <2>1. 1 \in 1..n
    BY <1>3
  <2> QED BY <1>5, <2>1, SignalFacts
<1>7. b \in Nat /\ b + o = l + k
  <2>1. b \in Nat
    BY DEF b
  <2>2. b = l + k - o
    BY DEF b, l
  <2> QED BY <1>1, <1>6, <2>1, <2>2, SMTT(60)
<1> HIDE DEF k, q, B2
<1>8. ASSUME NEW s \in 1..n
      PROVE  /\ B2[s] = B[s + 1] - o /\ s + 1 \in 1..n + 1 /\ B[s + 1] \in Nat
             /\ l + k <= B[s + 1] /\ B[s + 1] <= N /\ B2[s] \in Nat /\ b <= B2[s]
  <2>1. s + 1 \in 1..n + 1 /\ 2 \in 1..n + 1 /\ 1 \in 1..n /\ 2 <= s + 1 /\ 2 = 1 + 1
    BY <1>3
  <2>2. B2[s] = B[s + 1] - o
    BY DEF B2, Later
  <2>3. B[2] <= B[s + 1] /\ B[2] = l + k
    BY <1>2, <2>1 DEF k
  <2>4. B[s + 1] \in Nat /\ B[s + 1] <= N
    BY <1>1, <2>1
  <2>5. l + k <= B[s + 1]
    BY <2>3
  <2>6. ASSUME NEW x \in Nat, l + k <= x PROVE x - o \in Nat /\ b <= x - o
    BY <1>1, <1>6, <1>7, <2>6
  <2> QED BY <2>1, <2>2, <2>4, <2>5, <2>6
<1>9. q \in Nat /\ B2[n] = q - o /\ l + k <= q /\ q <= N /\ b <= q - o /\ N2 \in Nat /\ q - o <= N2
  <2>1. n \in 1..n
    BY <1>3
  <2>2. q \in Nat /\ B2[n] = q - o /\ l + k <= q /\ q <= N /\ b <= q - o /\ B2[n] \in Nat
    BY <1>8, <2>1 DEF q
  <2> QED BY <1>1, <2>2
<1>10. B2 \in [1..n -> Nat]
  BY <1>8 DEF B2, Later
<1>11. ASSUME NEW x \in Nat, l + k < x, x <= N
       PROVE  F2[x - o] = F[x]
  <2> DEFINE y == x - o
  <2>1. y \in 1..N2 /\ b < y /\ y + o = x
    BY <1>1, <1>6, <1>7, <1>11
  <2> HIDE DEF y
  <2>2. F2[y] = F[y + o]
    BY <2>1 DEF b, Rest
  <2> QED BY <2>1, <2>2 DEF y
<1>12. Laid(N2, F2, B2, rows2, t, pend, c, left)
  <2>1. B2 \in [1..Len(t) + 1 -> Nat]
    <3>1. Len(t) + 1 = n
      BY <1>3, <1>4
    <3> QED BY <1>10, <3>1
  <2>2. B2[1] = Len(rows2)
    <3>1. 1 \in 1..n /\ 1 + 1 = 2
      BY <1>3
    <3>2. B2[1] = B[2] - o /\ B[2] = l + k
      BY <1>2, <1>8, <3>1 DEF k
    <3>3. (l + k) - o = b
      BY <1>1, <1>6, <1>7
    <3> QED BY <3>2, <3>3 DEF b
  <2>3. ASSUME NEW s \in 1..Len(t) PROVE B2[s + 1] = B2[s] + Size(t[s])
    <3>1. s \in 1..n /\ s + 1 \in 1..n /\ s \in 1..n - 1
      BY <1>3, <1>4
    <3>2. B2[s] = B[s + 1] - o /\ B2[s + 1] = B[s + 1 + 1] - o /\ B[s + 1] \in Nat
      BY <1>8, <3>1
    <3>3. B[s + 1 + 1] = B[s + 1] + Size(sigs[s + 1])
      BY <1>2, <3>1
    <3>4. Size(sigs[s + 1]) \in Nat /\ t[s] = sigs[s + 1]
      BY <1>4, <1>5, <3>1, SignalFacts
    <3>5. (B[s + 1] + Size(sigs[s + 1])) - o = (B[s + 1] - o) + Size(sigs[s + 1])
      BY <3>2, <3>4, Minus
    <3> QED BY <3>2, <3>3, <3>4, <3>5
  <2>4. ASSUME NEW s \in 1..Len(t) + 1, NEW u \in 1..Len(t) + 1, s <= u PROVE B2[s] <= B2[u]
    <3>1. s \in 1..n /\ u \in 1..n /\ s + 1 <= u + 1
      BY <1>3, <1>4, <2>4
    <3>2. /\ B2[s] = B[s + 1] - o /\ B2[u] = B[u + 1] - o /\ B[s + 1] \in Nat /\ B[u + 1] \in Nat
          /\ s + 1 \in 1..n + 1 /\ u + 1 \in 1..n + 1
      BY <1>8, <3>1
    <3>3. B[s + 1] <= B[u + 1]
      BY <1>2, <3>1, <3>2
    <3> QED BY <3>2, <3>3, SMTT(60)
  <2>5. N2 = B2[Len(t) + 1] + Len(pend)
    <3>1. Len(t) + 1 = n
      BY <1>3, <1>4
    <3>2. (q + Len(pend)) - o = (q - o) + Len(pend)
      BY <1>1, <1>9, Minus
    <3> QED BY <1>1, <1>9, <3>1, <3>2
  <2>6. ASSUME NEW s \in 1..Len(t), IsBatch(t[s]), NEW i \in 1..Len(t[s].events)
        PROVE  F2[B2[s] + i] = Waiting(t[s].events[i], t[s].dropped, c)
    <3>1. s \in 1..n /\ s + 1 \in 1..n /\ s \in 1..n - 1 /\ t[s] = sigs[s + 1]
      BY <1>3, <1>4
    <3> DEFINE x == B[s + 1] + i
    <3>2. /\ B2[s] = B[s + 1] - o /\ B[s + 1] \in Nat /\ l + k <= B[s + 1]
      BY <1>8, <3>1
    <3>3. /\ Len(sigs[s + 1].events) \in Nat /\ B[s + 1] + Len(sigs[s + 1].events) <= q
          /\ i \in 1..Len(sigs[s + 1].events)
      BY <1>1, <2>6, <3>1
    <3>4. x \in Nat /\ l + k < x /\ x <= N
      <4> DEFINE y == B[s + 1]
                 z == Len(sigs[s + 1].events)
      <4>1. y \in Nat /\ l + k <= y /\ z \in Nat /\ y + z <= q /\ i \in 1..z
        BY <3>2, <3>3
      <4>2. l + k \in Nat
        BY <1>1, <1>6
      <4> HIDE DEF y, z
      <4>4. q \in Nat /\ q <= N /\ N \in Nat
        BY <1>1, <1>9
      <4>3. y + i \in Nat /\ l + k < y + i /\ y + i <= N
        BY <4>1, <4>2, <4>4
      <4> QED BY <4>3 DEF y
    <3>5. F[x] = Waiting(t[s].events[i], t[s].dropped, c)
      BY <1>2, <2>6, <3>1, <3>3
    <3>6. B2[s] + i = x - o
      <4>1. (B[s + 1] + i) - o = (B[s + 1] - o) + i
        BY <3>2, Minus
      <4> QED BY <3>2, <4>1
    <3> HIDE DEF x
    <3>7. F2[x - o] = F[x]
      BY <1>11, <3>4
    <3> QED BY <3>5, <3>6, <3>7
  <2>7. ASSUME NEW i \in 1..Len(pend)
        PROVE  F2[B2[Len(t) + 1] + i] = Waiting(pend[i], left, c)
    <3> DEFINE x == q + i
    <3>1. Len(t) + 1 = n
      BY <1>3, <1>4
    <3>2. x \in Nat /\ l + k < x /\ x <= N
      BY <1>1, <1>6, <1>9
    <3>3. F[x] = Waiting(pend[i], left, c)
      BY <1>2
    <3>4. B2[n] + i = x - o
      <4>1. (q + i) - o = (q - o) + i
        BY <1>9, Minus
      <4> QED BY <1>9, <4>1
    <3> HIDE DEF x
    <3>5. F2[x - o] = F[x]
      BY <1>11, <3>2
    <3> QED BY <3>1, <3>3, <3>4, <3>5
  <2>8. ASSUME NEW i \in 1..N2, Len(rows2) < i PROVE F2[i].change = c
    <3>1. i + o \in 1..N /\ l < i + o
      BY <1>1, <1>6, <1>7, <1>9, <2>8, SMTT(60) DEF b
    <3>2. F2[i] = F[i + o]
      BY <2>8 DEF Rest
    <3> QED BY <1>2, <3>1, <3>2
  <2> QED BY <1>9, <2>1, <2>2, <2>3, <2>4, <2>5, <2>6, <2>7, <2>8 DEF Laid, Rest
<1>13. \A s \in 1..Len(t) : /\ B2[s] = B[s + 1] - o /\ B[s + 1] \in Nat /\ B[s + 1] <= N
                            /\ l + k <= B[s + 1]
  <2>1. \A s \in 1..Len(t) : s \in 1..n
    BY <1>3, <1>4
  <2> QED BY <1>8, <2>1
<1> QED BY <1>12, <1>13 DEF t, B2, n, l, k, Behind

\* The device came or went.
LEMMA ConnectFlow ==
  ASSUME NEW N, NEW F, NEW B, NEW rows \in Seq(RowSet), NEW sigs \in Seq(SignalSet),
         NEW pend \in Seq(EventSet), NEW left, NEW p, NEW d, NEW r \in Nat, NEW m,
         NEW p2, sigs # <<>>, ~IsBatch(sigs[1]),
         p2.change = p.change, p2.enabled = p.enabled, p2.mode = p.mode,
         Flow(N, F, B, rows, sigs, pend, left, p, d, r, m)
  PROVE  \E B2 : Flow(N, F, B2, rows, Tail(sigs), pend, left, p2, d, r, m)
<1> DEFINE c  == p.change
           t  == Tail(sigs)
           B2 == Later(B, Len(sigs), 0)
<1>1. Laid(N, F, B, rows, sigs, pend, c, left)
  BY DEF Flow
<1>2. /\ N \in Nat /\ F \in [1..N -> ItemSet] /\ B[1] = Len(rows) /\ Len(rows) \in Nat
      /\ \A i \in 1..Len(rows) : F[i] = RowItem(rows[i])
  BY <1>1 DEF Laid
<1>3. Size(sigs[1]) = 0
  BY DEF Size
<1>4. /\ Laid(N, F, B2, rows, t, pend, c, left)
      /\ \A s \in 1..Len(t) : /\ B2[s] = B[s + 1] - 0
                              /\ B[s + 1] \in Nat /\ B[s + 1] <= N
                              /\ Len(rows) + Size(sigs[1]) <= B[s + 1]
  <2>1. N = N - 0 /\ Len(rows) = Len(rows) + Size(sigs[1]) - 0 /\ 0 \in Nat
    BY <1>2, <1>3
  <2>2. Rest(F, N, F, 0, rows)
    BY <1>2 DEF Rest
  <2> HIDE DEF t, c, B2
  <2>3. /\ Laid(N, F, Later(B, Len(sigs), 0), rows, Tail(sigs), pend, c, left)
        /\ Behind(N, B, Later(B, Len(sigs), 0), rows, sigs, 0)
    BY <1>1, <1>2, <2>1, <2>2, TailLaid
  <2> QED BY <2>3 DEF t, B2, Behind
<1>5. Len(sigs) \in Nat \ {0} /\ Len(t) = Len(sigs) - 1 /\ \A s \in 1..Len(t) : t[s] = sigs[s + 1]
  OBVIOUS
<1> HIDE DEF t, B2
<1>6. Meet(N, F, B, rows, sigs, p, r)
  BY DEF Flow
<1>7. Meet(N, F, B2, rows, t, p2, r)
  <2>1. Apart(N, F, Len(rows), r)
    <3>1. 1 \in 1..Len(sigs)
      BY <1>5
    <3> QED BY <1>2, <1>6, <3>1 DEF Meet
  <2>2. ASSUME NEW s \in 1..Len(t), ~IsBatch(t[s]) PROVE Apart(N, F, B2[s], r)
    <3>1. s + 1 \in 1..Len(sigs) /\ t[s] = sigs[s + 1]
      BY <1>5
    <3>2. Apart(N, F, B[s + 1], r)
      BY <1>6, <2>2, <3>1 DEF Meet
    <3>3. B2[s] = B[s + 1]
      BY <1>4
    <3> QED BY <3>2, <3>3
  <2> QED BY <1>6, <2>1, <2>2 DEF Meet
<1> QED BY <1>4, <1>7 DEF Flow, t, c

\* What is recorded under one label was decoded under it.
Labels(rows, sigs, pend, m) ==
  /\ \A i \in 1..Len(rows) : rows[i].mode = rows[i].event.under
  /\ \A s \in 1..Len(sigs) :
       IsBatch(sigs[s]) =>
         \A i \in 1..Len(sigs[s].events) : sigs[s].events[i].under = sigs[s].mode
  /\ \A i \in 1..Len(pend) : pend[i].under = m

\* A batch that is not shown: none of the rows of the recording is of its run.
LEMMA SkipFlow ==
  ASSUME NEW N, NEW F, NEW B, NEW rows \in Seq(RowSet), NEW sigs \in Seq(SignalSet),
         NEW pend \in Seq(EventSet), NEW left, NEW p, NEW d, NEW r \in Nat, NEW m,
         sigs # <<>>, IsBatch(sigs[1]), ~(p.enabled /\ p.connected /\ sigs[1].mode = p.mode),
         Labels(rows, sigs, pend, m), p.change \in Nat,
         Flow(N, F, B, rows, sigs, pend, left, p, d, r, m)
  PROVE  \E N2, F2, B2 : Flow(N2, F2, B2, rows, Tail(sigs), pend, left, p, d, r, m)
<1> DEFINE c  == p.change
           t  == Tail(sigs)
           l  == Len(rows)
           k  == Len(sigs[1].events)
           N2 == N - k
           g  == [i \in 1..N2 |-> IF i <= l THEN i ELSE i + k]
           F2 == [i \in 1..N2 |-> F[g[i]]]
           B2 == Later(B, Len(sigs), k)
<1>1. /\ Laid(N, F, B, rows, sigs, pend, c, left) /\ Runs(N, F, d, r, m, c)
      /\ Meet(N, F, B, rows, sigs, p, r) /\ Alternates(N, F) /\ Ends(N, F, c, d, r, left)
  BY DEF Flow
<1>2. /\ N \in Nat /\ F \in [1..N -> ItemSet] /\ B[1] = l /\ l \in Nat
      /\ \A i \in 1..l : F[i] = RowItem(rows[i])
      /\ \A i \in 1..N : l < i => F[i].change = c
      /\ \A s \in 1..Len(sigs) :
           IsBatch(sigs[s]) =>
             \A i \in 1..Len(sigs[s].events) :
               F[B[s] + i] = Waiting(sigs[s].events[i], sigs[s].dropped, c)
  BY <1>1 DEF Laid
<1>3. Len(sigs) \in Nat \ {0} /\ Len(t) = Len(sigs) - 1 /\ \A s \in 1..Len(t) : t[s] = sigs[s + 1]
  OBVIOUS
<1>4. 1 \in 1..Len(sigs) /\ sigs[1] \in SignalSet
  BY <1>3
<1>5. k \in Nat /\ Size(sigs[1]) = k
  BY <1>4, SignalFacts DEF Size
<1>6. l + k <= N
  <2>1. Placed(N, B, rows, sigs, pend)
    BY <1>1, Places
  <2>2. B[1] + k <= B[Len(sigs) + 1] /\ B[Len(sigs) + 1] <= N /\ B[Len(sigs) + 1] \in Nat
    <3>1. Len(sigs) + 1 \in 1..Len(sigs) + 1
      BY <1>3
    <3> QED BY <1>4, <2>1, <3>1 DEF Placed
  <2> QED BY <1>2, <1>5, <2>2
<1>7. \A i \in 1..k : F[l + i] = Waiting(sigs[1].events[i], sigs[1].dropped, c)
  BY <1>2, <1>4
<1> HIDE DEF c, t, l, k, N2
<1>8. N2 \in Nat /\ l <= N2 /\ N2 + k = N
  BY <1>2, <1>5, <1>6 DEF N2
<1>9. ASSUME NEW i \in 1..N2
      PROVE  /\ g[i] \in 1..N /\ F2[i] = F[g[i]]
             /\ i <= l => g[i] = i
             /\ ~(i <= l) => g[i] = i + k
  <2>1. g[i] = IF i <= l THEN i ELSE i + k
    OBVIOUS
  <2>2. g[i] \in 1..N
    <3>1. CASE i <= l
      BY <1>2, <1>5, <1>8, <2>1, <3>1
    <3>2. CASE ~(i <= l)
      BY <1>2, <1>5, <1>8, <2>1, <3>2
    <3> QED BY <3>1, <3>2
  <2> QED BY <2>1, <2>2
<1>10. g \in [1..N2 -> 1..N] /\ F2 \in [1..N2 -> ItemSet]
  <2>1. \A i \in 1..N2 : g[i] \in 1..N /\ F[g[i]] \in ItemSet
    BY <1>2, <1>9
  <2> QED BY <2>1
<1> HIDE DEF g, F2
<1>11. \A i, j \in 1..N2 : i < j => g[i] < g[j]
  <2> SUFFICES ASSUME NEW i \in 1..N2, NEW j \in 1..N2, i < j PROVE g[i] < g[j]
    OBVIOUS
  <2>1. CASE j <= l
    <3>1. i <= l
      BY <1>2, <2>1
    <3> QED BY <1>9, <2>1, <3>1
  <2>2. CASE ~(j <= l) /\ i <= l
    BY <1>2, <1>5, <1>9, <2>2
  <2>3. CASE ~(j <= l) /\ ~(i <= l)
    BY <1>2, <1>5, <1>9, <2>3
  <2> QED BY <2>1, <2>2, <2>3
<1>12. ASSUME NEW i \in 1..l, NEW x \in 1..k, F[i].change = c,
              F[i].event.of[1] = F[l + x].event.of[1]
       PROVE  FALSE
  <2>1. i \in 1..N /\ l + x \in 1..N /\ i <= l /\ l < l + x
    BY <1>2, <1>5, <1>6
  <2>2. F[i].event = rows[i].event /\ rows[i].change = c
    BY <1>2, <1>12, RowParts
  <2>3. rows[i].mode = F[i].event.under
    BY <2>2 DEF Labels, l
  <2>4. p.enabled /\ rows[i].mode = p.mode
    BY <1>1, <2>2 DEF Meet, c, l
  <2>5. F[l + x].event = sigs[1].events[x]
    BY <1>7, WaitingParts
  <2>6. F[l + x].event.under = sigs[1].mode
    BY <1>4, <2>5 DEF Labels, k
  <2>7. F[i].event.under = F[l + x].event.under
    BY <1>1, <1>12, <2>1 DEF Runs
  <2>8. p.connected
    <3>1. ASSUME ~p.connected PROVE FALSE
      <4>1. Apart(N, F, l, r)
        BY <1>1, <3>1 DEF Meet, l
      <4>2. F[i].event.of[1] < F[l + x].event.of[1]
        BY <2>1, <4>1 DEF Apart
      <4>3. F[i].event.of[1] \in Nat
        <5>1. F[i] \in ItemSet
          BY <1>2, <2>1
        <5> QED BY <5>1 DEF ItemSet, EventSet
      <4> QED BY <1>12, <4>2, <4>3
    <3> QED BY <3>1
  <2> QED BY <2>3, <2>4, <2>6, <2>7, <2>8
<1>13. ASSUME NEW i \in 1..N2, NEW x \in 1..N, g[i] < x, Match(F, g[i], x)
       PROVE  \E q \in 1..N2 : g[q] = x /\ Match(F2, i, q)
  <2>1. ASSUME NEW q \in 1..N2, g[q] = x
        PROVE  Match(F2, i, q)
    <3>1. F2[i] = F[g[i]] /\ F2[q] = F[x]
      BY <1>9, <2>1
    <3> QED BY <1>13, <3>1 DEF Match
  <2>2. CASE x <= l
    <3>1. x \in 1..N2 /\ g[x] = x
      BY <1>2, <1>8, <1>9, <2>2
    <3> QED BY <2>1, <3>1
  <2>3. CASE l < x /\ x <= l + k
    <3>1. x - l \in 1..k /\ l + (x - l) = x
      BY <1>2, <1>5, <2>3
    <3>2. i <= l /\ i \in 1..l
      BY <1>2, <1>5, <1>9, <1>13, <2>3
    <3>3. g[i] = i
      BY <1>9, <3>2
    <3>4. F[x].change = c
      BY <1>2, <2>3
    <3>5. F[i].change = c /\ F[i].event.of = F[x].event.of
      BY <1>13, <3>3, <3>4 DEF Match
    <3> QED BY <1>12, <3>1, <3>2, <3>5
  <2>4. CASE l + k < x
    <3>1. x - k \in 1..N2 /\ ~(x - k <= l) /\ (x - k) + k = x
      BY <1>2, <1>5, <1>8, <2>4, SMTT(60)
    <3>2. g[x - k] = x
      BY <1>9, <3>1
    <3> QED BY <2>1, <3>1, <3>2
  <2> QED BY <1>2, <1>5, <2>2, <2>3, <2>4
<1>14. Embeds(N, F, N2, F2, g)
  <2>1. \A i, j \in 1..N2 : Match(F2, i, j) => Match(F, g[i], g[j])
    BY <1>9 DEF Match
  <2>2. \A i \in 1..N2 : F2[i].event = F[g[i]].event /\ (F2[i].left = 0 => F[g[i]].left = 0)
    BY <1>9
  <2> QED BY <1>10, <1>11, <1>13, <2>1, <2>2 DEF Embeds
<1>15. Keeps(N, F, N2, F2, g, c, c, r)
  BY <1>9, <1>13 DEF Keeps
<1>16. Alternates(N2, F2)
  BY <1>1, <1>2, <1>8, <1>14, EmbedAlternates
<1>17. Ends(N2, F2, c, d, r, left)
  BY <1>1, <1>2, <1>8, <1>14, <1>15, EmbedEnds
<1>18. Runs(N2, F2, d, r, m, c)
  <2>1. \A i \in 1..N2 : F2[i].change <= c
    BY <1>1, <1>9 DEF Runs
  <2>2. c \in Nat
    BY DEF c
  <2> QED BY <1>1, <1>2, <1>8, <1>14, <2>1, <2>2, EmbedRuns
<1>19. /\ Laid(N2, F2, B2, rows, t, pend, c, left)
       /\ \A s \in 1..Len(t) : /\ B2[s] = B[s + 1] - k
                               /\ B[s + 1] \in Nat /\ B[s + 1] <= N
                               /\ l + Size(sigs[1]) <= B[s + 1]
  <2>1. N2 = N - k /\ l = l + Size(sigs[1]) - k
    BY <1>2, <1>5 DEF N2
  <2>2. ASSUME NEW i \in 1..N2, l < i PROVE F2[i] = F[i + k]
    <3>1. ~(i <= l)
      BY <1>2, <2>2
    <3> QED BY <1>9, <3>1
  <2>3. ASSUME NEW i \in 1..l PROVE F2[i] = RowItem(rows[i])
    <3>1. i \in 1..N2 /\ i <= l
      BY <1>2, <1>8
    <3>2. g[i] = i
      BY <1>9, <3>1
    <3> QED BY <1>2, <1>9, <3>1, <3>2
  <2>4. Rest(F, N2, F2, k, rows)
    BY <2>2, <2>3 DEF Rest, l
  <2>5. Len(rows) = Len(rows) + Size(sigs[1]) - k
    BY <2>1 DEF l
  <2> HIDE DEF B2
  <2>6. /\ Laid(N2, F2, Later(B, Len(sigs), k), rows, Tail(sigs), pend, c, left)
        /\ Behind(N, B, Later(B, Len(sigs), k), rows, sigs, k)
    BY <1>1, <1>5, <1>10, <2>1, <2>4, <2>5, TailLaid
  <2> QED BY <2>6 DEF t, B2, Behind, l
<1>20. Meet(N2, F2, B2, rows, t, p, r)
  <2>1. ASSUME NEW s \in 1..Len(t), ~IsBatch(t[s]) PROVE Apart(N2, F2, B2[s], r)
    <3>1. s + 1 \in 1..Len(sigs) /\ t[s] = sigs[s + 1]
      BY <1>3
    <3>2. Apart(N, F, B[s + 1], r)
      BY <1>1, <2>1, <3>1 DEF Meet
    <3> DEFINE x == B[s + 1]
               y == B2[s]
    <3>3. y = x - k /\ x \in Nat /\ l + k <= x
      BY <1>5, <1>19
    <3> HIDE DEF x, y
    <3>4. \A i \in 1..N2 : i <= y => g[i] <= x
      <4> SUFFICES ASSUME NEW i \in 1..N2, i <= y PROVE g[i] <= x
        OBVIOUS
      <4>1. CASE i <= l
        BY <1>2, <1>5, <1>9, <3>3, <4>1
      <4>2. CASE ~(i <= l)
        BY <1>2, <1>5, <1>9, <3>3, <4>2
      <4> QED BY <4>1, <4>2
    <3>5. \A i \in 1..N2 : y < i => x < g[i]
      <4> SUFFICES ASSUME NEW i \in 1..N2, y < i PROVE x < g[i]
        OBVIOUS
      <4>1. ~(i <= l)
        BY <1>2, <1>5, <3>3
      <4>2. g[i] = i + k
        BY <1>9, <4>1
      <4> QED BY <1>5, <3>3, <4>2
    <3> QED BY <1>2, <1>8, <1>14, <3>2, <3>4, <3>5, EmbedApart DEF x, y
  <2>2. ASSUME ~p.connected PROVE Apart(N2, F2, l, r)
    <3>1. Apart(N, F, l, r)
      BY <1>1, <2>2 DEF Meet, l
    <3>2. \A i \in 1..N2 : i <= l => g[i] <= l
      BY <1>9
    <3>3. \A i \in 1..N2 : l < i => l < g[i]
      <4> SUFFICES ASSUME NEW i \in 1..N2, l < i PROVE l < g[i]
        OBVIOUS
      <4>1. ~(i <= l)
        BY <1>2
      <4> QED BY <1>2, <1>5, <1>9, <4>1
    <3> QED BY <1>2, <1>8, <1>14, <3>1, <3>2, <3>3, EmbedApart
  <2> QED BY <1>1, <2>1, <2>2 DEF Meet, l
<1> QED BY <1>16, <1>17, <1>18, <1>19, <1>20 DEF Flow, t, c

\* What the table becomes when a batch is shown: the newest rows, o of them
\* having gone.
Grown(rows, batch, c, o, rows2) ==
  /\ Len(rows2) = Len(rows) + Len(batch.events) - o
  /\ \A i \in 1..Len(rows2) :
       \/ /\ i + o \in 1..Len(rows) /\ rows2[i] = rows[i + o]
       \/ /\ i + o - Len(rows) \in 1..Len(batch.events)
          /\ rows2[i].mode = batch.mode /\ rows2[i].change = c
          /\ RowItem(rows2[i]) = Waiting(batch.events[i + o - Len(rows)], batch.dropped, c)

\* A batch that is shown: what went are the oldest rows.
LEMMA ShowFlow ==
  ASSUME NEW N, NEW F, NEW B, NEW rows \in Seq(RowSet), NEW sigs \in Seq(SignalSet),
         NEW pend \in Seq(EventSet), NEW left, NEW p, NEW d, NEW r \in Nat, NEW m,
         sigs # <<>>, IsBatch(sigs[1]), p.enabled, p.connected, sigs[1].mode = p.mode,
         NEW o \in Nat, NEW rows2 \in Seq(RowSet), Grown(rows, sigs[1], p.change, o, rows2),
         NEW p2, p2.change = p.change, p2.enabled = p.enabled, p2.mode = p.mode,
         p2.connected = p.connected, p.change \in Nat,
         Flow(N, F, B, rows, sigs, pend, left, p, d, r, m)
  PROVE  \E N2, F2, B2 : Flow(N2, F2, B2, rows2, Tail(sigs), pend, left, p2, d, r, m)
<1> DEFINE c  == p.change
           t  == Tail(sigs)
           l  == Len(rows)
           k  == Len(sigs[1].events)
           b  == Len(rows2)
           N2 == N - o
           F2 == [i \in 1..N2 |-> F[i + o]]
           B2 == Later(B, Len(sigs), o)
<1>1. /\ Laid(N, F, B, rows, sigs, pend, c, left) /\ Runs(N, F, d, r, m, c)
      /\ Meet(N, F, B, rows, sigs, p, r) /\ Alternates(N, F) /\ Ends(N, F, c, d, r, left)
  BY DEF Flow
<1>2. /\ N \in Nat /\ F \in [1..N -> ItemSet] /\ B[1] = l /\ l \in Nat
      /\ \A i \in 1..l : F[i] = RowItem(rows[i])
      /\ \A i \in 1..N : l < i => F[i].change = c
      /\ \A s \in 1..Len(sigs) :
           IsBatch(sigs[s]) =>
             \A i \in 1..Len(sigs[s].events) :
               F[B[s] + i] = Waiting(sigs[s].events[i], sigs[s].dropped, c)
  BY <1>1 DEF Laid
<1>3. Len(sigs) \in Nat \ {0} /\ Len(t) = Len(sigs) - 1 /\ \A s \in 1..Len(t) : t[s] = sigs[s + 1]
  OBVIOUS
<1>4. 1 \in 1..Len(sigs) /\ sigs[1] \in SignalSet
  BY <1>3
<1>5. k \in Nat /\ Size(sigs[1]) = k
  BY <1>4, SignalFacts DEF Size
<1>6. l + k <= N
  <2>1. Placed(N, B, rows, sigs, pend)
    BY <1>1, Places
  <2>2. B[1] + k <= B[Len(sigs) + 1] /\ B[Len(sigs) + 1] <= N /\ B[Len(sigs) + 1] \in Nat
    <3>1. Len(sigs) + 1 \in 1..Len(sigs) + 1
      BY <1>3
    <3> QED BY <1>4, <2>1, <3>1 DEF Placed
  <2> QED BY <1>2, <1>5, <2>2
<1>7. \A i \in 1..k : F[l + i] = Waiting(sigs[1].events[i], sigs[1].dropped, c)
  BY <1>2, <1>4
<1>8. b \in Nat /\ b = l + k - o
  BY DEF Grown
<1> HIDE DEF c, t, l, k, b, N2
<1>9. N2 \in Nat /\ b <= N2 /\ o \in 0..N /\ b + o = l + k
  BY <1>2, <1>5, <1>6, <1>8 DEF N2
<1>10. \A i \in 1..N2 : i + o \in 1..N /\ F2[i] = F[i + o] /\ F[i + o] \in ItemSet
  BY <1>2, <1>9 DEF N2
<1>11. F2 \in [1..N2 -> ItemSet]
  BY <1>10
<1> HIDE DEF F2
<1>12. /\ Alternates(N2, F2) /\ Ends(N2, F2, c, d, r, left) /\ Runs(N2, F2, d, r, m, c)
       /\ \A b0 \in Nat : Apart(N, F, b0, r) => Apart(N2, F2, b0 - o, r)
  <2>1. ASSUME NEW i \in 1..N2
        PROVE  /\ F2[i].event = F[i + o].event /\ F2[i].left = F[i + o].left
               /\ i <= b => F2[i].change = F[i + o].change
               /\ ~(i <= b) => F2[i].change = c /\ F[i + o].change = c
    <3>1. F2[i] = F[i + o] /\ i + o \in 1..N
      BY <1>10
    <3>2. ~(i <= b) => l < i + o
      BY <1>2, <1>5, <1>8, <1>9
    <3>3. ~(i <= b) => F[i + o].change = c
      BY <1>2, <3>1, <3>2
    <3> QED BY <3>1, <3>3
  <2>2. Shifted(F, N2, F2, o, b, c, c)
    BY <2>1 DEF Shifted
  <2>3. c \in Nat /\ c <= c /\ N2 = N - o
    BY DEF c, N2
  <2>4. Runs(N, F, d, r, m, c) /\ Alternates(N, F) /\ Ends(N, F, c, d, r, left)
    BY <1>1
  <2>5. N \in Nat /\ F \in [1..N -> ItemSet] /\ o \in 0..N /\ b \in Nat
    BY <1>2, <1>8, <1>9
  <2> QED BY <2>2, <2>3, <2>4, <2>5, ShiftFlow, ZenonT(60)
<1>13. ASSUME NEW i \in 1..b
       PROVE  F2[i] = RowItem(rows2[i])
  <2>1. F2[i] = F[i + o]
    BY <1>8, <1>9, <1>10
  <2>2. CASE i + o \in 1..l /\ rows2[i] = rows[i + o]
    BY <1>2, <2>1, <2>2
  <2>3. CASE /\ i + o - l \in 1..k
             /\ RowItem(rows2[i]) = Waiting(sigs[1].events[i + o - l], sigs[1].dropped, c)
    <3>1. l + (i + o - l) = i + o
      BY <1>2, <1>9
    <3> QED BY <1>7, <2>1, <2>3, <3>1
  <2> QED BY <2>2, <2>3 DEF Grown, b, l, k, c
<1>14. /\ Laid(N2, F2, B2, rows2, t, pend, c, left)
       /\ \A s \in 1..Len(t) : /\ B2[s] = B[s + 1] - o
                               /\ B[s + 1] \in Nat /\ B[s + 1] <= N
                               /\ l + Size(sigs[1]) <= B[s + 1]
  <2>1. N2 = N - o /\ Len(rows2) = Len(rows) + Size(sigs[1]) - o
    BY <1>5, <1>8 DEF N2, l, b
  <2>2. Rest(F, N2, F2, o, rows2)
    BY <1>10, <1>13 DEF Rest, b
  <2> HIDE DEF B2
  <2>3. /\ Laid(N2, F2, Later(B, Len(sigs), o), rows2, Tail(sigs), pend, c, left)
        /\ Behind(N, B, Later(B, Len(sigs), o), rows, sigs, o)
    BY <1>1, <1>11, <2>1, <2>2, TailLaid
  <2> QED BY <2>3 DEF t, B2, Behind, l
<1>15. Meet(N2, F2, B2, rows2, t, p2, r)
  <2>1. ASSUME NEW s \in 1..Len(t), ~IsBatch(t[s]) PROVE Apart(N2, F2, B2[s], r)
    <3>1. s + 1 \in 1..Len(sigs) /\ t[s] = sigs[s + 1]
      BY <1>3
    <3>2. Apart(N, F, B[s + 1], r)
      BY <1>1, <2>1, <3>1 DEF Meet
    <3>3. B[s + 1] \in Nat /\ B2[s] = B[s + 1] - o
      BY <1>14
    <3>4. Apart(N2, F2, B[s + 1] - o, r)
      BY <1>12, <3>2, <3>3
    <3> QED BY <3>3, <3>4
  <2>2. ASSUME NEW i \in 1..Len(rows2), rows2[i].change = p2.change
        PROVE  p2.enabled /\ rows2[i].mode = p2.mode
    <3>1. CASE i + o \in 1..l /\ rows2[i] = rows[i + o]
      BY <1>1, <2>2, <3>1 DEF Meet, l
    <3>2. CASE rows2[i].mode = sigs[1].mode
      BY <3>2
    <3> QED BY <3>1, <3>2 DEF Grown, l
  <2> QED BY <2>1, <2>2 DEF Meet
<1> QED BY <1>12, <1>14, <1>15 DEF Flow, t, c

-----------------------------------------------------------------------------
(* The invariant of the debug view.                                        *)

\* The types of everything.
Remotes ==
  [keys : SUBSET Keys, native : SUBSET Native, ready : BOOLEAN, number : Nat, total : Nat]

Wires == RemoteReports \cup NativeReports

Panels ==
  [enabled : BOOLEAN, mode : Modes, connected : BOOLEAN,
   counts : [Keys \cup Native -> [Modes -> Nat]],
   rows : Seq(RowSet), gaps : Int, lost : Int, dropped : Nat, change : Nat]

\* The type of the state.
ViewTypes ==
  /\ remote \in Remotes /\ wire \in Seq(Wires) /\ session \in BOOLEAN
  /\ decoder \in Decoders /\ debugMode \in Modes \cup {Absent}
  /\ pending \in Seq(EventSet) /\ Len(pending) <= PendingCap /\ dropped \in Nat
  /\ commands \in Seq(Modes \cup {Absent}) /\ signals \in Seq(SignalSet)
  /\ panel \in Panels /\ Len(panel.rows) <= MaxRows
  /\ run \in Nat /\ lost \in Nat /\ lost <= MaxLost

\* Losses: the decoder, the batches and the panel agree with the ghost.
Missed(d) == IF d.seq = Absent THEN 0 ELSE d.last - d.first + 1 - d.received

\* The count of the decoder is exact, its sequence that of the last report.
Exact(d) ==
  /\ d.gaps = Missed(d)
  /\ d.seq = Absent => d.received = 0
  /\ d.seq # Absent => d.last \in Nat /\ d.seq = d.last % Seqs

\* So are the counts in the batches.
Told == \A s \in 1..Len(signals) : IsBatch(signals[s]) => signals[s].gaps = signals[s].lost

\* The numbers of the reports on their way and of the last one read: between two
\* that follow each other there are no more than were lost.
IsRemote(w) == w.source = "remote"

Near(a, b, n) == a <= b /\ b <= a + n

Silent(w)          == \A k \in 1..Len(w) : ~IsRemote(w[k])
Earliest(w, i)     == IsRemote(w[i]) /\ \A k \in 1..Len(w) : k < i => ~IsRemote(w[k])
Latest(w, i)       == IsRemote(w[i]) /\ \A k \in 1..Len(w) : i < k => ~IsRemote(w[k])
Following(w, i, j) ==
  /\ i < j /\ IsRemote(w[i]) /\ IsRemote(w[j])
  /\ \A k \in 1..Len(w) : i < k /\ k < j => ~IsRemote(w[k])

Spaced(w, d, x, n) ==
  /\ \A i \in 1..Len(w) : IsRemote(w[i]) => w[i].seq = w[i].number % Seqs
  /\ \A i, j \in 1..Len(w) : Following(w, i, j) => Near(w[i].number, w[j].number, n + 1)
  /\ \A i \in 1..Len(w) : Latest(w, i) => Near(w[i].number, x, n)
  /\ d.seq # Absent =>
       /\ \A i \in 1..Len(w) : Earliest(w, i) => Near(d.last, w[i].number, n + 1)
       /\ Silent(w) => Near(d.last, x, n)

\* The counts of losses agree everywhere, and reports keep their distance.
LossInv ==
  /\ panel.gaps = panel.lost /\ Told /\ Exact(decoder)
  /\ debugMode = Absent => decoder.seq = Absent
  /\ Spaced(wire, decoder, remote.number, lost)

\* Labels are right in rows, batches and what waits.
LabelInv == Labels(panel.rows, signals, pending, debugMode)

\* There is a stream of events behind rows, batches and what waits.
FlowInv ==
  \E N, F, B : Flow(N, F, B, panel.rows, signals, pending, dropped, panel, decoder, run, debugMode)

\* The invariant.
ViewInv == ViewTypes /\ LossInv /\ LabelInv /\ CountsMatchRows /\ FlowInv

\* At first there is nothing in the stream.
LEMMA EmptyFlow ==
  ASSUME NEW p, NEW r \in Nat, NEW m, NEW d, p.change \in Nat
  PROVE  Flow(0, [i \in 1..0 |-> 0], [s \in 1..1 |-> 0], <<>>, <<>>, <<>>, 0, p, d, r, m)
<1> DEFINE F == [i \in 1..0 |-> 0]
           B == [s \in 1..1 |-> 0]
           e == <<>>
<1>1. Len(e) = 0 /\ 1..0 = {} /\ 1 \in 1..1
  OBVIOUS
<1>2. F \in [1..0 -> ItemSet] /\ B \in [1..1 -> Nat] /\ B[1] = 0
  BY <1>1
<1> HIDE DEF F, B, e
<1>3. Laid(0, F, B, e, e, e, p.change, 0)
  BY <1>1, <1>2 DEF Laid
<1>4. Runs(0, F, d, r, m, p.change)
  BY <1>1 DEF Runs
<1>5. Meet(0, F, B, e, e, p, r)
  BY <1>1 DEF Meet, Apart
<1>6. Alternates(0, F) /\ Ends(0, F, p.change, d, r, 0)
  BY <1>1 DEF Alternates, Ends
<1>7. Flow(0, F, B, e, e, e, 0, p, d, r, m)
  BY <1>3, <1>4, <1>5, <1>6 DEF Flow
<1> QED BY <1>7 DEF F, B, e

\* The invariant holds in a new application.
LEMMA ViewStarts == ViewInit => ViewInv
<1> SUFFICES ASSUME ViewInit PROVE ViewInv
  OBVIOUS
<1>1. /\ remote = [keys |-> {}, native |-> {}, ready |-> TRUE, number |-> 0, total |-> 0]
      /\ wire = <<>> /\ session = FALSE /\ decoder = NewDecoder /\ debugMode = Absent
      /\ pending = <<>> /\ dropped = 0 /\ commands = <<>> /\ signals = <<>>
      /\ panel = NewPanel /\ run = 0 /\ lost = 0
  BY DEF ViewInit
<1>2. panel \in Panels /\ panel.rows = <<>> /\ panel.change = 0 /\ panel.gaps = 0 /\ panel.lost = 0
      /\ \A k \in Keys \cup Native, m \in Modes : panel.counts[k][m] = 0
  <2> DEFINE m0 == CHOOSE m \in Modes : TRUE
  <2>1. m0 \in Modes
    BY DebugViewAssumption
  <2> HIDE DEF m0
  <2>2. panel = [enabled |-> FALSE, mode |-> m0, connected |-> FALSE,
                 counts |-> [k \in Keys \cup Native |-> [m \in Modes |-> 0]],
                 rows |-> <<>>, gaps |-> 0, lost |-> 0, dropped |-> 0, change |-> 0]
    BY <1>1 DEF NewPanel, m0
  <2>3. <<>> \in Seq(RowSet)
    OBVIOUS
  <2> DEFINE z == [k \in Keys \cup Native |-> [m \in Modes |-> 0]]
  <2>4. z \in [Keys \cup Native -> [Modes -> Nat]] /\ \A k \in Keys \cup Native, m \in Modes : z[k][m] = 0
    OBVIOUS
  <2> HIDE DEF z
  <2>5. panel = [enabled |-> FALSE, mode |-> m0, connected |-> FALSE, counts |-> z,
                 rows |-> <<>>, gaps |-> 0, lost |-> 0, dropped |-> 0, change |-> 0]
    BY <2>2 DEF z
  <2> QED BY <2>1, <2>3, <2>4, <2>5 DEF Panels
<1>3. decoder \in Decoders /\ Exact(decoder) /\ decoder.seq = Absent
  <2>1. decoder = [seq |-> Absent, keys |-> {}, gaps |-> 0, native |-> Absent,
                   first |-> 0, last |-> 0, received |-> 0, spell |-> 0]
    BY <1>1 DEF NewDecoder
  <2> QED BY <2>1 DEF Decoders, Exact, Missed
<1>4. Len(<<>>) = 0
  OBVIOUS
<1>5. ViewTypes
  <2>1. remote \in Remotes
    BY <1>1 DEF Remotes
  <2>0. /\ <<>> \in Seq(Wires) /\ <<>> \in Seq(EventSet) /\ <<>> \in Seq(Modes \cup {Absent})
        /\ <<>> \in Seq(SignalSet)
    OBVIOUS
  <2>2. /\ wire \in Seq(Wires) /\ session \in BOOLEAN /\ debugMode \in Modes \cup {Absent}
        /\ pending \in Seq(EventSet) /\ dropped \in Nat /\ commands \in Seq(Modes \cup {Absent})
        /\ signals \in Seq(SignalSet) /\ run \in Nat /\ lost \in Nat
    BY <1>1, <2>0
  <2>3. Len(pending) <= PendingCap /\ Len(panel.rows) <= MaxRows /\ lost <= MaxLost
    BY <1>1, <1>2, <1>4, ViewConstants
  <2> QED BY <1>2, <1>3, <2>1, <2>2, <2>3 DEF ViewTypes
<1>6. LossInv
  <2>1. Len(wire) = 0 /\ Len(signals) = 0 /\ remote.number = 0
    BY <1>1, <1>4
  <2>2. Told
    BY <2>1 DEF Told
  <2>3. Spaced(wire, decoder, remote.number, lost)
    BY <1>3, <2>1 DEF Spaced
  <2> QED BY <1>2, <1>3, <2>2, <2>3 DEF LossInv
<1>7. LabelInv
  BY <1>1, <1>2, <1>4 DEF LabelInv, Labels
<1>8. CountsMatchRows
  <2> SUFFICES ASSUME NEW k \in Keys \cup Native, NEW m \in Modes
               PROVE  panel.counts[k][m] =
                        Cardinality({i \in DOMAIN panel.rows :
                          /\ panel.rows[i].mode = m /\ panel.rows[i].event.key = k
                          /\ panel.rows[i].event.action \in {"press", "restored"}})
    BY DEF CountsMatchRows
  <2>1. {i \in DOMAIN panel.rows :
           /\ panel.rows[i].mode = m /\ panel.rows[i].event.key = k
           /\ panel.rows[i].event.action \in {"press", "restored"}} = {}
    BY <1>2
  <2>2. Cardinality({}) = 0
    BY FS_EmptySet
  <2> QED BY <1>2, <2>1, <2>2
<1>9. FlowInv
  <2>1. Flow(0, [i \in 1..0 |-> 0], [s \in 1..1 |-> 0], panel.rows, signals, pending, dropped,
             panel, decoder, run, debugMode)
    BY <1>1, <1>2, EmptyFlow
  <2> QED BY <2>1 DEF FlowInv
<1> QED BY <1>5, <1>6, <1>7, <1>8, <1>9 DEF ViewInv

-----------------------------------------------------------------------------
(* Losses are counted exactly.                                             *)

\* Two numbers that are close, from what is sent of them.
LEMMA Wrapped ==
  ASSUME NEW S \in Nat \ {0}, NEW a \in Nat, NEW b \in Nat, b <= a, a - b < S
  PROVE  ((a % S) - (b % S)) % S = a - b
<1> DEFINE p == a \div S
           q == b \div S
           x == a % S
           y == b % S
<1>1. a = S * p + x /\ x \in 0..S - 1 /\ p \in Int
  OBVIOUS
<1>2. b = S * q + y /\ y \in 0..S - 1 /\ q \in Int
  OBVIOUS
<1> HIDE DEF p, q, x, y
<1>3. a - b = S * (p - q) + (x - y)
  BY <1>1, <1>2
<1> DEFINE t == p - q
           z == x - y
<1>4. t \in Int /\ z \in Int /\ z < S /\ -S < z /\ a - b = S * t + z
  BY <1>1, <1>2, <1>3
<1> HIDE DEF t, z
<1>5. t = 0 \/ t = 1
  <2>1. CASE t >= 2
    <3>1. S * t >= S * 2
      BY <1>4, <2>1
    <3> QED BY <1>4, <3>1
  <2>2. CASE t <= -1
    <3>1. S * t <= -S
      BY <1>4, <2>2
    <3> QED BY <1>4, <3>1
  <2> QED BY <1>4, <2>1, <2>2
<1> DEFINE v == a - b
<1>6. v \in Nat /\ v < S
  OBVIOUS
<1>7. z = v \/ z = v - S
  BY <1>4, <1>5
<1> HIDE DEF v
<1>8. v % S = v /\ (v - S) % S = v
  BY <1>6
<1>9. z % S = v
  BY <1>7, <1>8
<1> QED BY <1>9 DEF z, x, y, v

\* The step of the sequence is the number of reports since the last one.
LEMMA DeltaCounts ==
  ASSUME NEW d, d.seq # Absent, d.last \in Nat, d.seq = d.last % Seqs,
         NEW w, w.number \in Nat, w.seq = w.number % Seqs,
         d.last <= w.number, w.number <= d.last + MaxLost + 1
  PROVE  Delta(d, w) = w.number - d.last
<1> DEFINE a == w.number
           b == d.last
<1>1. a - b < Seqs /\ b <= a /\ a \in Nat /\ b \in Nat
  BY ViewConstants
<1>2. Delta(d, w) = ((a % Seqs) - (b % Seqs)) % Seqs
  BY DEF Delta
<1> HIDE DEF a, b
<1>3. ((a % Seqs) - (b % Seqs)) % Seqs = a - b
  BY <1>1, ViewConstants, Wrapped, ZenonT(60)
<1> QED BY <1>2, <1>3 DEF a, b

\* The count of the losses stays exact.
LEMMA NativeExact ==
  ASSUME NEW d \in Decoders, NEW k, NEW d2, d2 = [d EXCEPT !.native = k]
  PROVE  /\ d2.seq = d.seq /\ d2.last = d.last /\ d2.first = d.first
         /\ d2.received = d.received /\ d2.gaps = d.gaps
BY DEF Decoders

\* A report that comes again does not count.
LEMMA ForgottenExact ==
  ASSUME NEW d \in Decoders, NEW w \in RemoteReports, NEW d2, d2 = Forgotten(d, w)
  PROVE  /\ d2.seq = d.seq /\ d2.last = d.last /\ d2.first = d.first
         /\ d2.received = d.received /\ d2.gaps = d.gaps
<1>1. d = [seq |-> d.seq, keys |-> d.keys, gaps |-> d.gaps, native |-> d.native,
           first |-> d.first, last |-> d.last, received |-> d.received, spell |-> d.spell]
  BY DEF Decoders
<1>2. CASE w.ready
  BY <1>2 DEF Forgotten
<1>3. CASE ~w.ready
  <2>1. d2 = [d EXCEPT !.native = Absent, !.spell = @ + 1]
    BY <1>3 DEF Forgotten
  <2>2. d2 = [seq |-> d.seq, keys |-> d.keys, gaps |-> d.gaps, native |-> Absent,
               first |-> d.first, last |-> d.last, received |-> d.received,
               spell |-> d.spell + 1]
    BY <1>1, <2>1, Zenon
  <2> QED BY <2>2
<1> QED BY <1>2, <1>3

\* Nor do reports of the keyboard and the mouse.
LEMMA SameExact ==
  ASSUME NEW d, NEW d2, Exact(d),
         d2.seq = d.seq, d2.last = d.last, d2.first = d.first,
         d2.received = d.received, d2.gaps = d.gaps
  PROVE  Exact(d2)
BY DEF Exact, Missed

\* consume keeps the count exact when the report is close to the last one.
LEMMA ConsumeExact ==
  ASSUME NEW d \in Decoders, NEW w \in RemoteReports, Exact(d), w.seq = w.number % Seqs,
         d.seq # Absent => d.last <= w.number /\ w.number <= d.last + MaxLost + 1,
         NEW d2, d2 = IF Delta(d, w) = 0 THEN Forgotten(d, w) ELSE Updated(d, w)
  PROVE  Exact(d2) /\ d2.seq # Absent /\ d2.last = w.number
<1>1. /\ w.number \in Nat /\ w.seq \in 0..Seqs - 1 /\ w.seq # Absent
      /\ d.gaps \in Int /\ d.first \in Int /\ d.last \in Int /\ d.received \in Int
  BY ViewConstants DEF RemoteReports, Decoders
<1>2. CASE d.seq = Absent
  <2>1. Delta(d, w) = 1 /\ d.gaps = 0 /\ d.received = 0
    BY <1>2 DEF Delta, Exact, Missed
  <2>2. d2 = Updated(d, w)
    BY <2>1
  <2>3. /\ d2.seq = w.seq /\ d2.gaps = 0 + 1 - 1 /\ d2.first = w.number /\ d2.last = w.number
        /\ d2.received = 0 + 1
    BY <1>2, <2>1, <2>2 DEF Updated
  <2> QED BY <1>1, <2>3 DEF Exact, Missed
<1>3. CASE d.seq # Absent /\ Delta(d, w) = 0
  <2>1. w.number = d.last
    <3>1. Delta(d, w) = w.number - d.last
      BY <1>1, <1>3, DeltaCounts DEF Exact
    <3> QED BY <1>1, <1>3, <3>1
  <2>2. /\ d2.seq = d.seq /\ d2.last = d.last /\ d2.first = d.first
        /\ d2.received = d.received /\ d2.gaps = d.gaps
    BY <1>3, ForgottenExact
  <2> QED BY <1>3, <2>1, <2>2, SameExact
<1>4. CASE d.seq # Absent /\ Delta(d, w) # 0
  <2>1. Delta(d, w) = w.number - d.last
    BY <1>1, <1>4, DeltaCounts DEF Exact
  <2>2. d2 = Updated(d, w)
    BY <1>4
  <2>3. /\ d2.seq = w.seq /\ d2.gaps = d.gaps + Delta(d, w) - 1 /\ d2.first = d.first
        /\ d2.last = w.number /\ d2.received = d.received + 1
    BY <1>4, <2>2 DEF Updated
  <2>4. d.gaps = d.last - d.first + 1 - d.received
    BY <1>4 DEF Exact, Missed
  <2>5. d2.gaps = d2.last - d2.first + 1 - d2.received
    BY <1>1, <2>1, <2>3, <2>4
  <2> QED BY <1>1, <2>3, <2>5 DEF Exact, Missed
<1> QED BY <1>2, <1>3, <1>4

\* The reports on their way.
LEMMA WireFacts ==
  ASSUME NEW w \in Seq(Wires)
  PROVE  /\ Len(w) \in Nat
         /\ \A i \in 1..Len(w) : w[i] \in Wires
         /\ \A i \in 1..Len(w) : IsRemote(w[i]) => w[i] \in RemoteReports /\ w[i].number \in Nat
         /\ \A i \in 1..Len(w) : ~IsRemote(w[i]) => w[i] \in NativeReports
<1>1. \A r \in Wires : IsRemote(r) => r \in RemoteReports /\ r.number \in Nat
  BY DEF Wires, IsRemote, RemoteReports, NativeReports
<1>2. \A r \in Wires : ~IsRemote(r) => r \in NativeReports
  BY DEF Wires, IsRemote, RemoteReports
<1>3. Len(w) \in Nat /\ \A i \in 1..Len(w) : w[i] \in Wires
  OBVIOUS
<1> QED BY <1>1, <1>2, <1>3

\* A report is sent.
LEMMA SpacedAppend ==
  ASSUME NEW w \in Seq(Wires), NEW d, NEW x, NEW x2, NEW n2, NEW r \in Wires,
         Spaced(w, d, x, n2), ~IsRemote(r) => x2 = x,
         IsRemote(r) =>
           /\ r.seq = r.number % Seqs
           /\ Near(r.number, x2, n2)
           /\ \A i \in 1..Len(w) : Latest(w, i) => Near(w[i].number, r.number, n2 + 1)
           /\ Silent(w) /\ d.seq # Absent => Near(d.last, r.number, n2 + 1)
  PROVE  Spaced(Append(w, r), d, x2, n2)
<1> DEFINE v == Append(w, r)
           l == Len(w)
<1>1. /\ l \in Nat /\ Len(v) = l + 1 /\ v[l + 1] = r
      /\ \A i \in 1..l : v[i] = w[i]
      /\ \A i \in 1..l + 1 : i \in 1..l \/ i = l + 1
  OBVIOUS
<1> HIDE DEF v
<1>2. \A i \in 1..l : IsRemote(v[i]) <=> IsRemote(w[i])
  BY <1>1 DEF IsRemote
<1>3. IsRemote(v[l + 1]) <=> IsRemote(r)
  BY <1>1 DEF IsRemote
<1>4. \A i, j \in 1..l : Following(v, i, j) => Following(w, i, j)
  BY <1>1, <1>2 DEF Following, l
<1>5. \A i \in 1..l : Following(v, i, l + 1) => Latest(w, i)
  BY <1>1, <1>2 DEF Following, Latest, l
<1>6. \A i \in 1..l : Latest(v, i) => Latest(w, i) /\ ~IsRemote(r)
  BY <1>1, <1>2, <1>3 DEF Latest, l
<1>7. \A i \in 1..l : Earliest(v, i) => Earliest(w, i)
  BY <1>1, <1>2 DEF Earliest, l
<1>8. Earliest(v, l + 1) => Silent(w) /\ IsRemote(r)
  BY <1>1, <1>2, <1>3 DEF Earliest, Silent, l
<1>9. Silent(v) => Silent(w) /\ ~IsRemote(r)
  BY <1>1, <1>2, <1>3 DEF Silent, l
<1>10. /\ \A i \in 1..l : IsRemote(w[i]) => w[i].seq = w[i].number % Seqs
       /\ \A i, j \in 1..l : Following(w, i, j) => Near(w[i].number, w[j].number, n2 + 1)
       /\ \A i \in 1..l : Latest(w, i) => Near(w[i].number, x, n2)
       /\ d.seq # Absent =>
            /\ \A i \in 1..l : Earliest(w, i) => Near(d.last, w[i].number, n2 + 1)
            /\ Silent(w) => Near(d.last, x, n2)
  BY DEF Spaced, l
<1> HIDE DEF l
<1>11. \A i \in 1..Len(v) : IsRemote(v[i]) => v[i].seq = v[i].number % Seqs
  BY <1>1, <1>2, <1>3, <1>10
<1>12. ASSUME NEW i \in 1..Len(v), NEW j \in 1..Len(v), Following(v, i, j)
       PROVE  Near(v[i].number, v[j].number, n2 + 1)
  <2>1. i < j
    BY <1>12 DEF Following
  <2>2. CASE i \in 1..l /\ j \in 1..l
    BY <1>1, <1>4, <1>10, <1>12, <2>2
  <2>3. CASE i \in 1..l /\ j = l + 1
    <3>1. Latest(w, i) /\ IsRemote(r)
      BY <1>3, <1>5, <1>12, <2>3 DEF Following
    <3> QED BY <1>1, <2>3, <3>1 DEF l
  <2> QED BY <1>1, <2>1, <2>2, <2>3
<1>13. ASSUME NEW i \in 1..Len(v), Latest(v, i) PROVE Near(v[i].number, x2, n2)
  <2>1. CASE i \in 1..l
    BY <1>1, <1>6, <1>10, <1>13, <2>1
  <2>2. CASE i = l + 1
    <3>1. IsRemote(r)
      BY <1>3, <1>13, <2>2 DEF Latest
    <3> QED BY <1>1, <2>2, <3>1
  <2> QED BY <1>1, <2>1, <2>2
<1>14. ASSUME NEW i \in 1..Len(v), Earliest(v, i), d.seq # Absent
       PROVE  Near(d.last, v[i].number, n2 + 1)
  <2>1. CASE i \in 1..l
    BY <1>1, <1>7, <1>10, <1>14, <2>1
  <2>2. CASE i = l + 1
    BY <1>1, <1>8, <1>14, <2>2
  <2> QED BY <1>1, <2>1, <2>2
<1>15. Silent(v) /\ d.seq # Absent => Near(d.last, x2, n2)
  BY <1>9, <1>10
<1>16. Spaced(v, d, x2, n2)
  BY <1>11, <1>12, <1>13, <1>14, <1>15 DEF Spaced
<1> QED BY <1>16 DEF v

\* More were lost, or more were published and as many were lost.
LEMMA SpacedLost ==
  ASSUME NEW w \in Seq(Wires), NEW d \in Decoders, NEW x \in Nat, NEW n \in Nat,
         NEW x2 \in {x, x + 1}, Spaced(w, d, x, n)
  PROVE  Spaced(w, d, x2, n + 1)
<1>1. \A a, b \in Int : Near(a, b, n + 1) => Near(a, b, n + 1 + 1)
  BY DEF Near
<1>2. \A a \in Int : Near(a, x, n) => Near(a, x2, n + 1)
  BY DEF Near
<1>3. \A i \in 1..Len(w) : IsRemote(w[i]) => w[i].number \in Int
  BY WireFacts
<1>4. d.last \in Int
  BY DEF Decoders
<1>5. \A i, j \in 1..Len(w) : Following(w, i, j) => Near(w[i].number, w[j].number, n + 1 + 1)
  BY <1>1, <1>3 DEF Spaced, Following
<1>6. \A i \in 1..Len(w) : Latest(w, i) => Near(w[i].number, x2, n + 1)
  BY <1>2, <1>3 DEF Spaced, Latest
<1>7. d.seq # Absent =>
        /\ \A i \in 1..Len(w) : Earliest(w, i) => Near(d.last, w[i].number, n + 1 + 1)
        /\ Silent(w) => Near(d.last, x2, n + 1)
  BY <1>1, <1>2, <1>3, <1>4 DEF Spaced, Earliest
<1> QED BY <1>5, <1>6, <1>7 DEF Spaced

\* A new report of the remote is sent, one of the keyboard, or the last one again.
LEMMA SpacedSent ==
  ASSUME NEW w \in Seq(Wires), NEW d \in Decoders, NEW x \in Nat, NEW n \in Nat,
         NEW r \in Wires, Spaced(w, d, x, n),
         IsRemote(r), r.number = x + 1, r.seq = r.number % Seqs
  PROVE  Spaced(Append(w, r), d, x + 1, n)
<1>1. \A a \in Int : Near(a, x, n) => Near(a, x + 1, n + 1)
  BY DEF Near
<1>2. \A i \in 1..Len(w) : IsRemote(w[i]) => w[i].number \in Int
  BY WireFacts
<1>3. \A i \in 1..Len(w) : Latest(w, i) => Near(w[i].number, r.number, n + 1)
  BY <1>1, <1>2 DEF Spaced, Latest
<1>4. Silent(w) /\ d.seq # Absent => Near(d.last, r.number, n + 1)
  <2>1. d.last \in Int
    BY DEF Decoders
  <2> QED BY <1>1, <2>1 DEF Spaced
<1>5. Near(r.number, x + 1, n)
  BY DEF Near
<1> QED BY <1>3, <1>4, <1>5, SpacedAppend

\* The keyboard has no numbers.
LEMMA SpacedNative ==
  ASSUME NEW w \in Seq(Wires), NEW d, NEW x, NEW n,
         NEW r \in Wires, Spaced(w, d, x, n), ~IsRemote(r)
  PROVE  Spaced(Append(w, r), d, x, n)
BY SpacedAppend

\* A report that comes again has the number of the one before.
LEMMA SpacedAgain ==
  ASSUME NEW w \in Seq(Wires), NEW d, NEW x \in Nat, NEW n \in Nat, w # <<>>, Spaced(w, d, x, n)
  PROVE  Last(w) \in Wires /\ Spaced(Append(w, Last(w)), d, x, n)
<1> DEFINE l == Len(w)
<1>1. l \in 1..Len(w) /\ Last(w) = w[l] /\ w[l] \in Wires
  BY DEF Last
<1>2. ASSUME IsRemote(w[l])
      PROVE  /\ w[l].seq = w[l].number % Seqs /\ Near(w[l].number, x, n)
             /\ \A i \in 1..Len(w) : Latest(w, i) => Near(w[i].number, w[l].number, n + 1)
             /\ ~Silent(w)
  <2>1. Latest(w, l)
    BY <1>1, <1>2 DEF Latest
  <2>2. w[l].number \in Nat
    BY <1>1, <1>2, WireFacts
  <2>3. \A i \in 1..Len(w) : Latest(w, i) => i = l
    BY <1>1, <1>2 DEF Latest
  <2>4. Near(w[l].number, w[l].number, n + 1)
    BY <2>2 DEF Near
  <2>5. ~Silent(w)
    BY <1>1, <1>2 DEF Silent
  <2> QED BY <1>1, <1>2, <2>1, <2>3, <2>4, <2>5 DEF Spaced
<1> HIDE DEF l
<1>3. Spaced(Append(w, w[l]), d, x, n)
  <2>1. w[l] \in Wires
    BY <1>1
  <2> QED BY <1>2, <2>1, SpacedAppend
<1> QED BY <1>1, <1>3

\* A report is read: the decoder takes it, it is of the keyboard, or nothing is
\* recorded.
LEMMA SpacedRead ==
  ASSUME NEW w \in Seq(Wires), NEW d, NEW x, NEW n, NEW d2, w # <<>>, Spaced(w, d, x, n),
         \/ d2.seq = Absent
         \/ IsRemote(w[1]) /\ d2.last = w[1].number
         \/ ~IsRemote(w[1]) /\ d2.last = d.last /\ d2.seq = d.seq
  PROVE  Spaced(Tail(w), d2, x, n)
<1> DEFINE v == Tail(w)
           l == Len(w)
<1>1. /\ l \in Nat \ {0} /\ Len(v) = l - 1 /\ \A i \in 1..Len(v) : v[i] = w[i + 1]
      /\ \A i \in 1..Len(v) : i + 1 \in 1..l
      /\ \A i \in 1..l : i = 1 \/ i - 1 \in 1..Len(v)
      /\ 1 \in 1..l
  OBVIOUS
<1> HIDE DEF v
<1>2. \A i \in 1..Len(v) : IsRemote(v[i]) <=> IsRemote(w[i + 1])
  BY <1>1 DEF IsRemote
<1>3. ASSUME NEW i \in 1..Len(v), NEW j \in 1..Len(v), Following(v, i, j)
      PROVE  Following(w, i + 1, j + 1)
  <2>1. ASSUME NEW k \in 1..l, i + 1 < k, k < j + 1 PROVE ~IsRemote(w[k])
    <3>1. k - 1 \in 1..Len(v) /\ i < k - 1 /\ k - 1 < j /\ (k - 1) + 1 = k
      BY <1>1, <2>1
    <3> QED BY <1>2, <1>3, <3>1 DEF Following
  <2> QED BY <1>2, <1>3, <2>1 DEF Following, l
<1>4. ASSUME NEW i \in 1..Len(v), Latest(v, i) PROVE Latest(w, i + 1)
  <2>1. ASSUME NEW k \in 1..l, i + 1 < k PROVE ~IsRemote(w[k])
    <3>1. k - 1 \in 1..Len(v) /\ i < k - 1 /\ (k - 1) + 1 = k
      BY <1>1, <2>1
    <3> QED BY <1>2, <1>4, <3>1 DEF Latest
  <2> QED BY <1>2, <1>4, <2>1 DEF Latest, l
<1>5. ASSUME NEW i \in 1..Len(v), Earliest(v, i)
      PROVE  IF IsRemote(w[1]) THEN Following(w, 1, i + 1) ELSE Earliest(w, i + 1)
  <2>1. ASSUME NEW k \in 1..l, k # 1, k < i + 1 PROVE ~IsRemote(w[k])
    <3>1. k - 1 \in 1..Len(v) /\ k - 1 < i /\ (k - 1) + 1 = k
      BY <1>1, <2>1
    <3> QED BY <1>2, <1>5, <3>1 DEF Earliest
  <2>2. IsRemote(w[i + 1])
    BY <1>2, <1>5 DEF Earliest
  <2>3. CASE IsRemote(w[1])
    BY <2>1, <2>2, <2>3 DEF Following, l
  <2>4. CASE ~IsRemote(w[1])
    BY <2>1, <2>2, <2>4 DEF Earliest, l
  <2> QED BY <2>3, <2>4
<1>6. ASSUME Silent(v)
      PROVE  IF IsRemote(w[1]) THEN Latest(w, 1) ELSE Silent(w)
  <2>1. ASSUME NEW k \in 1..l, k # 1 PROVE ~IsRemote(w[k])
    <3>1. k - 1 \in 1..Len(v) /\ (k - 1) + 1 = k
      BY <1>1, <2>1
    <3> QED BY <1>2, <1>6, <3>1 DEF Silent
  <2> QED BY <2>1 DEF Latest, Silent, l
<1>7. /\ \A i \in 1..l : IsRemote(w[i]) => w[i].seq = w[i].number % Seqs
      /\ \A i, j \in 1..l : Following(w, i, j) => Near(w[i].number, w[j].number, n + 1)
      /\ \A i \in 1..l : Latest(w, i) => Near(w[i].number, x, n)
      /\ d.seq # Absent =>
           /\ \A i \in 1..l : Earliest(w, i) => Near(d.last, w[i].number, n + 1)
           /\ Silent(w) => Near(d.last, x, n)
  BY DEF Spaced, l
<1> HIDE DEF l
<1>8. \A i \in 1..Len(v) : IsRemote(v[i]) => v[i].seq = v[i].number % Seqs
  BY <1>1, <1>2, <1>7
<1>9. \A i, j \in 1..Len(v) : Following(v, i, j) => Near(v[i].number, v[j].number, n + 1)
  BY <1>1, <1>3, <1>7
<1>10. \A i \in 1..Len(v) : Latest(v, i) => Near(v[i].number, x, n)
  BY <1>1, <1>4, <1>7
<1>11. ASSUME NEW i \in 1..Len(v), Earliest(v, i), d2.seq # Absent
       PROVE  Near(d2.last, v[i].number, n + 1)
  BY <1>1, <1>5, <1>7, <1>11
<1>12. ASSUME Silent(v), d2.seq # Absent PROVE Near(d2.last, x, n)
  BY <1>1, <1>6, <1>7, <1>12
<1>13. Spaced(v, d2, x, n)
  BY <1>8, <1>9, <1>10, <1>11, <1>12 DEF Spaced
<1> QED BY <1>13 DEF v

\* The report to be read is close to the last one.
LEMMA HeadNear ==
  ASSUME NEW w \in Seq(Wires), NEW d \in Decoders, NEW x, NEW n \in Nat, n <= MaxLost, w # <<>>,
         Spaced(w, d, x, n), IsRemote(w[1])
  PROVE  /\ w[1].seq = w[1].number % Seqs
         /\ d.seq # Absent => d.last <= w[1].number /\ w[1].number <= d.last + MaxLost + 1
<1>1. 1 \in 1..Len(w) /\ Earliest(w, 1)
  BY DEF Earliest
<1>2. w[1].number \in Nat /\ d.last \in Int
  BY <1>1, WireFacts DEF Decoders
<1>3. d.seq # Absent => Near(d.last, w[1].number, n + 1)
  BY <1>1 DEF Spaced
<1>4. w[1].seq = w[1].number % Seqs
  BY <1>1 DEF Spaced
<1> DEFINE a == d.last
           b == w[1].number
<1>5. ASSUME d.seq # Absent PROVE a <= b /\ b <= a + MaxLost + 1
  <2>1. a <= b /\ b <= a + (n + 1)
    BY <1>3, <1>5 DEF Near
  <2>2. a \in Int /\ b \in Nat
    BY <1>2
  <2> HIDE DEF a, b
  <2> QED BY <2>1, <2>2, ViewConstants
<1> QED BY <1>4, <1>5

\* A decoder that was reset has no distance to keep.
LEMMA SpacedNew ==
  ASSUME NEW w, NEW d, NEW x, NEW n, NEW d2, Spaced(w, d, x, n), d2.seq = Absent
  PROVE  Spaced(w, d2, x, n)
BY DEF Spaced

\* Nor has an empty wire.
LEMMA SpacedNone ==
  ASSUME NEW d, NEW x, NEW n, d.seq = Absent
  PROVE  Spaced(<<>>, d, x, n)
<1>1. Len(<<>>) = 0
  OBVIOUS
<1> QED BY <1>1 DEF Spaced

\* The presses of a key under a label.
Pressed(rows, k, m) ==
  {i \in DOMAIN rows : /\ rows[i].mode = m /\ rows[i].event.key = k
                       /\ rows[i].event.action \in {"press", "restored"}}

\* Finitely many rows count.
LEMMA PressedFinite ==
  ASSUME NEW rows \in Seq(RowSet), NEW k, NEW m
  PROVE  /\ Pressed(rows, k, m) \subseteq 1..Len(rows)
         /\ IsFiniteSet(Pressed(rows, k, m)) /\ Cardinality(Pressed(rows, k, m)) \in Nat
<1>1. Pressed(rows, k, m) \subseteq 1..Len(rows)
  BY DEF Pressed
<1>2. Len(rows) \in Nat
  OBVIOUS
<1>3. IsFiniteSet(1..Len(rows))
  BY <1>2, FS_Interval
<1>4. IsFiniteSet(Pressed(rows, k, m))
  BY <1>1, <1>3, FS_Subset
<1> QED BY <1>1, <1>4, FS_CardinalityType

\* The presses of two parts of a history add up.
LEMMA PressedAdds ==
  ASSUME NEW rows \in Seq(RowSet), NEW new \in Seq(RowSet), NEW k, NEW m
  PROVE  Cardinality(Pressed(rows \o new, k, m)) =
           Cardinality(Pressed(rows, k, m)) + Cardinality(Pressed(new, k, m))
<1> DEFINE all == rows \o new
           n   == Len(rows)
           A   == Pressed(rows, k, m)
           S   == Pressed(new, k, m)
           T   == {i \in 1..Len(all) : n < i /\ i \in Pressed(all, k, m)}
           f   == [i \in S |-> n + i]
<1>1. /\ all \in Seq(RowSet) /\ Len(all) = n + Len(new) /\ n \in Nat /\ Len(new) \in Nat
      /\ \A i \in 1..n : all[i] = rows[i]
      /\ \A i \in 1..Len(new) : all[n + i] = new[i]
      /\ \A i \in 1..Len(all) : i \in 1..n \/ (i - n \in 1..Len(new) /\ all[i] = new[i - n])
  BY Concat
<1>2. A \subseteq 1..n /\ IsFiniteSet(A) /\ Cardinality(A) \in Nat
  BY PressedFinite
<1>3. S \subseteq 1..Len(new) /\ IsFiniteSet(S) /\ Cardinality(S) \in Nat
  BY PressedFinite
<1> HIDE DEF all, n
<1>4. /\ \A i \in 1..n : i \in Pressed(all, k, m) <=> i \in A
      /\ \A i \in 1..Len(new) : n + i \in Pressed(all, k, m) <=> i \in S
      /\ \A i \in Pressed(all, k, m) : i \in 1..Len(all)
  <2>1. DOMAIN all = 1..Len(all) /\ DOMAIN rows = 1..n /\ DOMAIN new = 1..Len(new)
    BY <1>1 DEF n
  <2>2. \A i \in 1..n : i \in 1..Len(all)
    BY <1>1
  <2>3. \A i \in 1..Len(new) : n + i \in 1..Len(all)
    BY <1>1
  <2>4. \A i \in 1..n : i \in Pressed(all, k, m) <=> i \in A
    BY <1>1, <2>1, <2>2 DEF Pressed
  <2>5. \A i \in 1..Len(new) : n + i \in Pressed(all, k, m) <=> i \in S
    BY <1>1, <2>1, <2>3 DEF Pressed
  <2> QED BY <2>1, <2>4, <2>5 DEF Pressed
<1> HIDE DEF A, S
<1>5. f \in Bijection(S, T)
  <2>1. \A i \in S : f[i] = n + i /\ i \in 1..Len(new) /\ f[i] \in T
    BY <1>1, <1>3, <1>4
  <2>2. f \in [S -> T]
    BY <2>1
  <2>3. \A i, j \in S : f[i] = f[j] => i = j
    BY <1>1, <2>1
  <2>4. ASSUME NEW t \in T PROVE \E i \in S : f[i] = t
    <3>1. t - n \in 1..Len(new) /\ n + (t - n) = t
      BY <1>1
    <3>2. t - n \in S
      BY <1>4, <3>1
    <3> QED BY <2>1, <3>1, <3>2
  <2> HIDE DEF f, T
  <2> QED BY <2>2, <2>3, <2>4 DEF Bijection, Injection, Surjection, IsInjective
<1> HIDE DEF f
<1>6. IsFiniteSet(T) /\ Cardinality(T) = Cardinality(S)
  <2>1. ExistsBijection(S, T)
    BY <1>5 DEF ExistsBijection
  <2> HIDE DEF T
  <2> QED BY <1>3, <2>1, FS_Bijection
<1>7. A \cap T = {} /\ Pressed(all, k, m) = A \cup T
  <2>1. A \cap T = {}
    BY <1>1, <1>2
  <2>2. \A i \in Pressed(all, k, m) : i \in A \cup T
    BY <1>1, <1>4
  <2>3. \A i \in A \cup T : i \in Pressed(all, k, m)
    BY <1>2, <1>4
  <2> QED BY <2>1, <2>2, <2>3
<1>8. Cardinality(A \cup T) = Cardinality(A) + Cardinality(T)
  <2> HIDE DEF T
  <2>1. Cardinality(A \cup T) = Cardinality(A) + Cardinality(T) - Cardinality(A \cap T)
    BY <1>2, <1>6, FS_Union
  <2>2. Cardinality(A \cap T) = 0
    BY <1>7, FS_EmptySet
  <2>3. Cardinality(T) \in Nat
    BY <1>3, <1>6
  <2> QED BY <1>2, <2>1, <2>2, <2>3
<1> QED BY <1>6, <1>7, <1>8 DEF all, A, S

\* The table of counts agrees with the history.
Tallied(p) ==
  Len(p.rows) < MaxRows =>
    \A k \in Keys \cup Native, m \in Modes :
      p.counts[k][m] = Cardinality(Pressed(p.rows, k, m))

\* CountsMatchRows is about the panel alone.
LEMMA TalliedIsMatch == CountsMatchRows <=> Tallied(panel)
BY DEF CountsMatchRows, Tallied, Pressed

\* A batch is shown.
LEMMA ShownTally ==
  ASSUME NEW rows \in Seq(RowSet), NEW new \in Seq(RowSet), NEW rows2, NEW counts2, NEW p, NEW p2,
         p \in Panels, p.rows = rows, p2.rows = rows2, p2.counts = counts2, Tallied(p),
         rows2 = Newest(rows \o new),
         \A k \in Keys \cup Native, m \in Modes :
           counts2[k][m] = p.counts[k][m] + Cardinality(Pressed(new, k, m))
  PROVE  Tallied(p2)
<1> DEFINE all == rows \o new
           n   == Len(all)
<1>1. all \in Seq(RowSet) /\ n = Len(rows) + Len(new) /\ n \in Nat /\ Len(rows) \in Nat /\ Len(new) \in Nat
  OBVIOUS
<1> HIDE DEF all, n
<1> SUFFICES ASSUME Len(rows2) < MaxRows, NEW k \in Keys \cup Native, NEW m \in Modes
             PROVE  counts2[k][m] = Cardinality(Pressed(rows2, k, m))
  BY DEF Tallied
<1>2. n <= MaxRows
  <2> SUFFICES ASSUME ~(n <= MaxRows) PROVE FALSE
    OBVIOUS
  <2>1. rows2 = SubSeq(all, n - MaxRows + 1, n)
    BY DEF Newest, all, n
  <2>2. Len(rows2) = MaxRows
    <3>1. n - MaxRows + 1 \in 1..n
      BY <1>1, ViewConstants
    <3>2. Len(SubSeq(all, n - MaxRows + 1, n)) = n - (n - MaxRows + 1) + 1
      BY <1>1, <3>1 DEF n
    <3> QED BY <1>1, <2>1, <3>2, ViewConstants
  <2> QED BY <2>2, ViewConstants
<1>3. rows2 = all
  BY <1>2 DEF Newest, all, n
<1>4. Len(rows) < MaxRows
  BY <1>1, <1>3, ViewConstants DEF n
<1>5. p.counts[k][m] = Cardinality(Pressed(rows, k, m))
  BY <1>4 DEF Tallied
<1> QED BY <1>3, <1>5, PressedAdds DEF all

-----------------------------------------------------------------------------
(* The steps of the bridge.                                                *)

\* What does not concern the worker and the window.
LEMMA SameView ==
  ASSUME ViewInv, UNCHANGED <<decoder, debugMode, pending, dropped, run, signals, panel>>
  PROVE  LabelInv' /\ CountsMatchRows' /\ FlowInv' /\ Told' /\ Exact(decoder')
<1>1. LabelInv /\ CountsMatchRows /\ FlowInv /\ Told /\ Exact(decoder)
  BY DEF ViewInv, LossInv
<1>2. LabelInv' /\ Told' /\ Exact(decoder')
  BY <1>1 DEF LabelInv, Told
<1>3. FlowInv'
  BY <1>1 DEF FlowInv
<1>4. CountsMatchRows'
  BY <1>1 DEF CountsMatchRows
<1> QED BY <1>2, <1>3, <1>4

\* A report that is transmitted or lost.
LEMMA Transmitted ==
  ASSUME ViewInv, NEW report \in Wires, Transmit(report), remote' \in Remotes,
         IF IsRemote(report)
         THEN remote'.number = remote.number + 1 /\ report.number = remote.number + 1
              /\ report.seq = report.number % Seqs
         ELSE remote'.number = remote.number,
         UNCHANGED <<worker, commands, signals, panel>>
  PROVE  ViewInv'
<1>1. /\ UNCHANGED <<session, decoder, debugMode, pending, dropped, run, commands, signals, panel>>
      /\ remote \in Remotes /\ wire \in Seq(Wires) /\ lost \in Nat /\ lost <= MaxLost
      /\ decoder \in Decoders /\ Spaced(wire, decoder, remote.number, lost)
      /\ remote.number \in Nat
  BY DEF worker, ViewInv, ViewTypes, LossInv, Remotes
<1>2. CASE wire' = Append(wire, report) /\ UNCHANGED lost
  <2>1. wire' \in Seq(Wires) /\ lost' \in Nat /\ lost' <= MaxLost
    BY <1>1, <1>2
  <2>2. Spaced(wire', decoder, remote'.number, lost')
    <3>1. CASE IsRemote(report)
      BY <1>1, <1>2, <3>1, SpacedSent
    <3>2. CASE ~IsRemote(report)
      BY <1>1, <1>2, <3>2, SpacedNative
    <3> QED BY <3>1, <3>2
  <2>3. ViewTypes'
    BY <1>1, <2>1 DEF ViewTypes, ViewInv
  <2>4. LossInv'
    BY <1>1, <2>2, SameView DEF LossInv, ViewInv
  <2> QED BY <1>1, <2>3, <2>4, SameView DEF ViewInv
<1>3. CASE lost < MaxLost /\ lost' = lost + 1 /\ UNCHANGED wire
  <2>1. wire' \in Seq(Wires) /\ lost' \in Nat /\ lost' <= MaxLost
    BY <1>1, <1>3, ViewConstants
  <2>2. Spaced(wire', decoder, remote'.number, lost')
    <3>1. remote'.number \in {remote.number, remote.number + 1}
      OBVIOUS
    <3> QED BY <1>1, <1>3, <3>1, SpacedLost
  <2>3. ViewTypes'
    BY <1>1, <2>1 DEF ViewTypes, ViewInv
  <2>4. LossInv'
    BY <1>1, <2>2, SameView DEF LossInv, ViewInv
  <2> QED BY <1>1, <2>3, <2>4, SameView DEF ViewInv
<1> QED BY <1>2, <1>3 DEF Transmit

\* The parts of the remote.
LEMMA RemoteParts ==
  ASSUME NEW x \in Remotes
  PROVE  x = [keys |-> x.keys, native |-> x.native, ready |-> x.ready,
              number |-> x.number, total |-> x.total]
BY DEF Remotes

\* A state of the remote is published.
LEMMA PublishKeeps == ViewInv /\ Publish => ViewInv'
<1> SUFFICES ASSUME ViewInv, Publish PROVE ViewInv'
  OBVIOUS
<1>1. PICK ready \in BOOLEAN, input \in BOOLEAN, keys \in SUBSET Keys :
        /\ remote' = [remote EXCEPT !.ready = ready, !.keys = keys,
                                    !.number = @ + 1, !.total = @ + 1]
        /\ Transmit([source |-> "remote",
                     seq |-> [remote EXCEPT !.ready = ready, !.keys = keys,
                                 !.number = @ + 1, !.total = @ + 1].number % Seqs,
                     ready |-> ready, input |-> input, keys |-> keys,
                     number |-> [remote EXCEPT !.ready = ready, !.keys = keys,
                                 !.number = @ + 1, !.total = @ + 1].number])
  BY DEF Publish
<1>2. remote \in Remotes
  BY DEF ViewInv, ViewTypes
<1> DEFINE n == remote.number + 1
<1>3. n \in Nat /\ remote.number \in Nat /\ remote.total \in Nat /\ remote.native \in SUBSET Native
  BY <1>2 DEF Remotes
<1>4. remote' = [keys |-> keys, native |-> remote.native, ready |-> ready,
                 number |-> n, total |-> remote.total + 1]
  <2>1. remote = [keys |-> remote.keys, native |-> remote.native, ready |-> remote.ready,
                  number |-> remote.number, total |-> remote.total]
    BY <1>2, RemoteParts
  <2>2. remote' = [remote EXCEPT !.ready = ready, !.keys = keys, !.number = @ + 1, !.total = @ + 1]
    BY <1>1
  <2> QED BY <2>1, <2>2, Zenon
<1> HIDE DEF n
<1>5. remote'.number = n /\ remote' \in Remotes
  <2>1. remote.total + 1 \in Nat
    BY <1>3
  <2> QED BY <1>3, <1>4, <2>1 DEF Remotes
<1> DEFINE report == [source |-> "remote", seq |-> n % Seqs, ready |-> ready, input |-> input,
                      keys |-> keys, number |-> n]
<1>6. Transmit(report)
  BY <1>1, <1>5
<1>7. report \in Wires /\ IsRemote(report) /\ report.number = n /\ report.seq = n % Seqs
  <2>1. n % Seqs \in 0..Seqs - 1
    BY <1>3, ViewConstants
  <2> QED BY <1>3, <2>1 DEF Wires, RemoteReports, IsRemote
<1> HIDE DEF report
<1>8. UNCHANGED <<worker, commands, signals, panel>>
  BY DEF Publish
<1> QED BY <1>5, <1>6, <1>7, <1>8, Transmitted DEF n

\* The keyboard, the mouse or the volume reports.
LEMMA PublishNativeKeeps == ViewInv /\ PublishNative => ViewInv'
<1> SUFFICES ASSUME ViewInv, PublishNative PROVE ViewInv'
  OBVIOUS
<1>1. PICK keys \in SUBSET Native :
        /\ remote' = [remote EXCEPT !.native = keys, !.total = @ + 1]
        /\ Transmit([source |-> "native", keys |-> keys])
  BY DEF PublishNative
<1>2. remote \in Remotes
  BY DEF ViewInv, ViewTypes
<1>3. remote' = [keys |-> remote.keys, native |-> keys, ready |-> remote.ready,
                 number |-> remote.number, total |-> remote.total + 1]
  <2>1. remote = [keys |-> remote.keys, native |-> remote.native, ready |-> remote.ready,
                  number |-> remote.number, total |-> remote.total]
    BY <1>2, RemoteParts
  <2>2. remote' = [remote EXCEPT !.native = keys, !.total = @ + 1]
    BY <1>1
  <2> QED BY <2>1, <2>2, Zenon
<1>4. remote' \in Remotes /\ remote'.number = remote.number
  BY <1>2, <1>3 DEF Remotes
<1> DEFINE report == [source |-> "native", keys |-> keys]
<1>5. Transmit(report) /\ report \in Wires /\ ~IsRemote(report)
  BY <1>1 DEF Wires, NativeReports, IsRemote
<1> HIDE DEF report
<1>6. UNCHANGED <<worker, commands, signals, panel>>
  BY DEF PublishNative
<1> QED BY <1>4, <1>5, <1>6, Transmitted

\* A report comes twice.
LEMMA RepeatKeeps == ViewInv /\ Repeat => ViewInv'
<1> SUFFICES ASSUME ViewInv, Repeat PROVE ViewInv'
  OBVIOUS
<1>1. /\ UNCHANGED <<session, decoder, debugMode, pending, dropped, run, commands, signals, panel, lost>>
      /\ wire # <<>> /\ wire' = Append(wire, Last(wire))
      /\ remote' = [remote EXCEPT !.total = @ + 1]
      /\ remote \in Remotes /\ wire \in Seq(Wires) /\ lost \in Nat
      /\ Spaced(wire, decoder, remote.number, lost)
      /\ remote.number \in Nat
  BY DEF Repeat, worker, counts, ViewInv, ViewTypes, LossInv, Remotes
<1>2. remote' \in Remotes /\ remote'.number = remote.number
  <2>1. remote = [keys |-> remote.keys, native |-> remote.native, ready |-> remote.ready,
                  number |-> remote.number, total |-> remote.total]
    BY <1>1, RemoteParts
  <2>2. remote' = [remote EXCEPT !.total = @ + 1]
    BY <1>1
  <2>3. remote' = [keys |-> remote.keys, native |-> remote.native, ready |-> remote.ready,
                   number |-> remote.number, total |-> remote.total + 1]
    BY <2>1, <2>2, Zenon
  <2>4. remote.total + 1 \in Nat /\ remote \in Remotes
    BY <1>1 DEF Remotes
  <2> QED BY <2>3, <2>4 DEF Remotes
<1>3. Last(wire) \in Wires /\ Spaced(wire', decoder, remote.number, lost)
  BY <1>1, SpacedAgain
<1>4. wire' \in Seq(Wires)
  BY <1>1, <1>3
<1>5. ViewTypes'
  BY <1>1, <1>2, <1>4 DEF ViewTypes, ViewInv
<1>6. LossInv'
  BY <1>1, <1>2, <1>3, SameView DEF LossInv, ViewInv
<1> QED BY <1>1, <1>5, <1>6, SameView DEF ViewInv

-----------------------------------------------------------------------------
(* The steps of the worker.                                                *)

\* The decoder is reset.
LEMMA NewFacts ==
  NewDecoder \in Decoders /\ Exact(NewDecoder) /\ NewDecoder.seq = Absent
<1> DEFINE d == NewDecoder
<1>1. d = [seq |-> Absent, keys |-> {}, gaps |-> 0, native |-> Absent,
           first |-> 0, last |-> 0, received |-> 0, spell |-> 0]
  BY DEF NewDecoder
<1> HIDE DEF d
<1>2. d \in Decoders /\ d.seq = Absent /\ d.gaps = 0 /\ d.received = 0
  BY <1>1 DEF Decoders
<1>3. Exact(d)
  BY <1>2 DEF Exact, Missed
<1> QED BY <1>2, <1>3 DEF d

\* A signal joins the others.
LEMMA SignalsAppend ==
  ASSUME NEW sigs \in Seq(SignalSet), NEW sig \in SignalSet
  PROVE  /\ Append(sigs, sig) \in Seq(SignalSet) /\ Len(Append(sigs, sig)) = Len(sigs) + 1
         /\ \A s \in 1..Len(sigs) : Append(sigs, sig)[s] = sigs[s]
         /\ Append(sigs, sig)[Len(sigs) + 1] = sig
         /\ \A s \in 1..Len(sigs) + 1 : s \in 1..Len(sigs) \/ s = Len(sigs) + 1
OBVIOUS

\* The label goes with the batch.
LEMMA LabelsAppend ==
  ASSUME NEW rows, NEW sigs \in Seq(SignalSet), NEW sig \in SignalSet, NEW pend, NEW m,
         Labels(rows, sigs, pend, m),
         IsBatch(sig) => \A i \in 1..Len(sig.events) : sig.events[i].under = sig.mode
  PROVE  Labels(rows, Append(sigs, sig), <<>>, m)
<1> DEFINE t == Append(sigs, sig)
<1>1. /\ Len(t) = Len(sigs) + 1 /\ \A s \in 1..Len(sigs) : t[s] = sigs[s]
      /\ t[Len(sigs) + 1] = sig
      /\ \A s \in 1..Len(sigs) + 1 : s \in 1..Len(sigs) \/ s = Len(sigs) + 1
  BY SignalsAppend
<1> HIDE DEF t
<1>2. \A s \in 1..Len(t) :
        IsBatch(t[s]) => \A i \in 1..Len(t[s].events) : t[s].events[i].under = t[s].mode
  <2> SUFFICES ASSUME NEW s \in 1..Len(t), IsBatch(t[s])
               PROVE  \A i \in 1..Len(t[s].events) : t[s].events[i].under = t[s].mode
    OBVIOUS
  <2>1. CASE s \in 1..Len(sigs)
    BY <1>1, <2>1 DEF Labels
  <2>2. CASE s = Len(sigs) + 1
    BY <1>1, <2>2
  <2> QED BY <1>1, <2>1, <2>2
<1>3. Len(<<>>) = 0
  OBVIOUS
<1> QED BY <1>2, <1>3 DEF t, Labels

\* So does the count of losses.
LEMMA ToldAppend ==
  ASSUME NEW sig \in SignalSet, signals \in Seq(SignalSet), signals' = Append(signals, sig),
         Told, IsBatch(sig) => sig.gaps = sig.lost
  PROVE  Told'
<1>1. /\ Len(signals') = Len(signals) + 1
      /\ \A s \in 1..Len(signals) : signals'[s] = signals[s]
      /\ signals'[Len(signals) + 1] = sig
      /\ \A s \in 1..Len(signals) + 1 : s \in 1..Len(signals) \/ s = Len(signals) + 1
  BY SignalsAppend
<1> QED BY <1>1 DEF Told

\* The types at hand.
LEMMA TypesOf ==
  ASSUME ViewInv
  PROVE  /\ remote \in Remotes /\ wire \in Seq(Wires) /\ session \in BOOLEAN
         /\ decoder \in Decoders /\ debugMode \in Modes \cup {Absent}
         /\ pending \in Seq(EventSet) /\ Len(pending) <= PendingCap /\ dropped \in Nat
         /\ commands \in Seq(Modes \cup {Absent}) /\ signals \in Seq(SignalSet)
         /\ panel \in Panels /\ Len(panel.rows) <= MaxRows
         /\ run \in Nat /\ lost \in Nat /\ lost <= MaxLost
         /\ panel.rows \in Seq(RowSet) /\ panel.change \in Nat /\ remote.number \in Nat
         /\ panel.mode \in Modes /\ panel.enabled \in BOOLEAN /\ panel.connected \in BOOLEAN
BY DEF ViewInv, ViewTypes, Panels, Remotes

\* The worker takes what the user wants recorded.
LEMMA ConfigureKeeps == ViewInv /\ Configure => ViewInv'
<1> SUFFICES ASSUME ViewInv, Configure PROVE ViewInv'
  OBVIOUS
<1>1. /\ commands # <<>> /\ commands' = Tail(commands) /\ debugMode' = Head(commands)
      /\ decoder' = NewDecoder /\ run' = run + 1 /\ pending' = <<>> /\ dropped' = 0
      /\ UNCHANGED <<remote, wire, session, signals, panel, lost>>
  BY DEF Configure, Reset, counts
<1>2. debugMode' \in Modes \cup {Absent} /\ commands' \in Seq(Modes \cup {Absent})
  BY <1>1, TypesOf
<1>3. Len(<<>>) = 0
  OBVIOUS
<1>4. ViewTypes'
  <2>1. pending' \in Seq(EventSet) /\ Len(pending') <= PendingCap
    BY <1>1, <1>3, ViewConstants
  <2>2. run' \in Nat /\ dropped' \in Nat
    BY <1>1, TypesOf
  <2>3. decoder' \in Decoders
    BY <1>1, NewFacts
  <2> QED BY <1>1, <1>2, <2>1, <2>2, <2>3, TypesOf DEF ViewTypes
<1>5. LossInv'
  <2>1. panel.gaps = panel.lost /\ Told /\ Spaced(wire, decoder, remote.number, lost)
    BY DEF ViewInv, LossInv
  <2>2. Spaced(wire, NewDecoder, remote.number, lost)
    BY <2>1, NewFacts, SpacedNew
  <2>3. Told'
    BY <1>1, <2>1 DEF Told
  <2> QED BY <1>1, <2>1, <2>2, <2>3, NewFacts DEF LossInv
<1>6. LabelInv'
  <2>1. LabelInv
    BY DEF ViewInv
  <2> QED BY <1>1, <1>3, <2>1 DEF LabelInv, Labels
<1>7. CountsMatchRows'
  BY <1>1 DEF ViewInv, CountsMatchRows
<1>8. FlowInv'
  <2>1. PICK N, F, B : Flow(N, F, B, panel.rows, signals, pending, dropped, panel, decoder, run, debugMode)
    BY DEF ViewInv, FlowInv
  <2>2. \E N2, F2 : /\ Flow(N2, F2, B, panel.rows, signals, <<>>, 0, panel, NewDecoder, run + 1, debugMode')
                    /\ Apart(N2, F2, N2, run + 1)
    BY <2>1, TypesOf, CutFlow
  <2> QED BY <1>1, <2>2 DEF FlowInv
<1> QED BY <1>4, <1>5, <1>6, <1>7, <1>8 DEF ViewInv

\* The device comes or goes: everything on its way is gone.
LEMMA PlugKeeps ==
  ASSUME ViewInv, NEW sig \in [kind : {"ready", "gone"}], session' \in BOOLEAN,
         signals' = Append(signals, sig), wire' = <<>>, remote' \in Remotes,
         Reset, UNCHANGED <<debugMode, commands, panel, lost>>
  PROVE  ViewInv'
<1>1. /\ decoder' = NewDecoder /\ run' = run + 1 /\ pending' = <<>> /\ dropped' = 0
      /\ UNCHANGED <<debugMode, commands, panel, lost>>
  BY DEF Reset
<1>2. sig \in SignalSet /\ ~IsBatch(sig)
  BY DEF SignalSet, IsBatch
<1>3. signals \in Seq(SignalSet) /\ signals' \in Seq(SignalSet)
  BY <1>2, TypesOf, SignalsAppend
<1>4. Len(<<>>) = 0
  OBVIOUS
<1>5. ViewTypes'
  <2>1. pending' \in Seq(EventSet) /\ Len(pending') <= PendingCap
    BY <1>1, <1>4, ViewConstants
  <2>2. run' \in Nat /\ dropped' \in Nat
    BY <1>1, TypesOf
  <2>3. decoder' \in Decoders
    BY <1>1, NewFacts
  <2>4. wire' \in Seq(Wires)
    OBVIOUS
  <2> QED BY <1>1, <1>3, <2>1, <2>2, <2>3, <2>4, TypesOf DEF ViewTypes
<1>6. LossInv'
  <2>1. panel.gaps = panel.lost /\ Told
    BY DEF ViewInv, LossInv
  <2>2. Told'
    BY <1>2, <1>3, <2>1, ToldAppend
  <2>3. Spaced(wire', decoder', remote'.number, lost')
    BY <1>1, NewFacts, SpacedNone
  <2> QED BY <1>1, <2>1, <2>2, <2>3, NewFacts DEF LossInv
<1>7. LabelInv'
  <2>1. LabelInv
    BY DEF ViewInv
  <2>2. Labels(panel.rows, Append(signals, sig), <<>>, debugMode)
    BY <1>2, <1>3, <2>1, LabelsAppend DEF LabelInv
  <2> QED BY <1>1, <2>2 DEF LabelInv
<1>8. CountsMatchRows'
  BY <1>1 DEF ViewInv, CountsMatchRows
<1>9. FlowInv'
  <2>1. PICK N, F, B : Flow(N, F, B, panel.rows, signals, pending, dropped, panel, decoder, run, debugMode)
    BY DEF ViewInv, FlowInv
  <2>2. PICK N2, F2 :
          /\ Flow(N2, F2, B, panel.rows, signals, <<>>, 0, panel, NewDecoder, run + 1, debugMode)
          /\ Apart(N2, F2, N2, run + 1)
    BY <2>1, TypesOf, CutFlow
  <2>3. <<>> \in Seq(EventSet) /\ run + 1 \in Nat /\ panel.rows \in Seq(RowSet)
    BY TypesOf
  <2>4. \E B2 : Flow(N2, F2, B2, panel.rows, Append(signals, sig), <<>>, 0, panel, NewDecoder,
                     run + 1, debugMode)
    BY <1>2, <1>3, <2>2, <2>3, AppendFlow
  <2> QED BY <1>1, <2>4 DEF FlowInv
<1> QED BY <1>5, <1>6, <1>7, <1>8, <1>9 DEF ViewInv

\* The device is opened.
LEMMA OpenKeeps == ViewInv /\ Open => ViewInv'
<1> SUFFICES ASSUME ViewInv, Open PROVE ViewInv'
  OBVIOUS
<1> DEFINE sig == [kind |-> "ready"]
<1>1. /\ signals' = Append(signals, sig) /\ wire' = <<>> /\ session' = TRUE
      /\ remote' = [remote EXCEPT !.number = 0] /\ Reset
      /\ UNCHANGED <<debugMode, commands, panel, lost>>
  BY DEF Open, counts
<1>2. sig \in [kind : {"ready", "gone"}] /\ session' \in BOOLEAN
  BY <1>1
<1>3. remote' \in Remotes
  BY <1>1, TypesOf DEF Remotes
<1> HIDE DEF sig
<1> QED BY <1>1, <1>2, <1>3, PlugKeeps

\* The device is gone.
LEMMA LoseKeeps == ViewInv /\ Lose => ViewInv'
<1> SUFFICES ASSUME ViewInv, Lose PROVE ViewInv'
  OBVIOUS
<1> DEFINE sig == [kind |-> "gone"]
<1>1. /\ signals' = Append(signals, sig) /\ wire' = <<>> /\ session' = FALSE
      /\ remote' = remote /\ Reset
      /\ UNCHANGED <<debugMode, commands, panel, lost>>
  BY DEF Lose
<1>2. sig \in [kind : {"ready", "gone"}] /\ session' \in BOOLEAN
  BY <1>1
<1>3. remote' \in Remotes
  BY <1>1, TypesOf
<1> HIDE DEF sig
<1> QED BY <1>1, <1>2, <1>3, PlugKeeps

\* What is read, if anything, and what the decoder makes of it.
Reading ==
  IF wire = <<>> THEN [decoder |-> decoder, events |-> <<>>] ELSE Consume(decoder, Head(wire))

\* The decoder after a poll, and what it tells of the keys.
LEMMA ReadFacts ==
  ASSUME ViewInv, debugMode \in Modes, NEW v, v = IF wire = <<>> THEN wire ELSE Tail(wire)
  PROVE  /\ v \in Seq(Wires) /\ Reading.decoder \in Decoders /\ Exact(Reading.decoder)
         /\ Tells(decoder, Reading.decoder, Reading.events, run, debugMode)
         /\ Spaced(v, Reading.decoder, remote.number, lost)
<1>1. /\ wire \in Seq(Wires) /\ decoder \in Decoders /\ run \in Nat /\ lost \in Nat /\ lost <= MaxLost
      /\ Exact(decoder) /\ Spaced(wire, decoder, remote.number, lost)
  BY TypesOf DEF ViewInv, LossInv
<1>2. CASE wire = <<>>
  <2>1. Reading.decoder = decoder /\ Reading.events = <<>> /\ v = wire
    BY <1>2 DEF Reading
  <2>2. <<>> \in Seq(EventSet) /\ Len(<<>>) = 0
    OBVIOUS
  <2>3. decoder.spell <= decoder.spell
    BY <1>1 DEF Decoders
  <2>4. Tells(decoder, decoder, <<>>, run, debugMode)
    BY <2>2, <2>3 DEF Tells
  <2> QED BY <1>1, <2>1, <2>4
<1>3. CASE wire # <<>>
  <2> DEFINE w == wire[1]
             d2 == Consume(decoder, w).decoder
             e == Consume(decoder, w).events
  <2>1. w \in Wires /\ Head(wire) = w /\ v = Tail(wire) /\ v \in Seq(Wires) /\ 1 \in 1..Len(wire)
    BY <1>1, <1>3
  <2>2. Reading.decoder = d2 /\ Reading.events = e
    BY <1>3, <2>1 DEF Reading
  <2>3. CASE IsRemote(w)
    <3>1. w \in RemoteReports
      BY <1>1, <2>1, <2>3, WireFacts
    <3>2. /\ d2 \in Decoders
          /\ d2 = IF Delta(decoder, w) = 0 THEN Forgotten(decoder, w) ELSE Updated(decoder, w)
          /\ Tells(decoder, d2, e, run, debugMode)
      BY <1>1, <3>1, RemoteFacts
    <3>3. /\ w.seq = w.number % Seqs
          /\ decoder.seq # Absent =>
               decoder.last <= w.number /\ w.number <= decoder.last + MaxLost + 1
      BY <1>1, <1>3, <2>3, HeadNear
    <3> HIDE DEF w, d2, e
    <3>4. Exact(d2) /\ d2.last = w.number
      BY <1>1, <3>1, <3>2, <3>3, ConsumeExact
    <3>5. Spaced(Tail(wire), d2, remote.number, lost)
      <4>1. IsRemote(wire[1]) /\ d2.last = wire[1].number
        BY <2>3, <3>4 DEF w
      <4> QED BY <1>1, <1>3, <4>1, SpacedRead
    <3> QED BY <2>1, <2>2, <3>2, <3>4, <3>5
  <2>4. CASE ~IsRemote(w)
    <3>1. w \in NativeReports
      BY <1>1, <2>1, <2>4, WireFacts
    <3>2. /\ d2 \in Decoders /\ d2 = [decoder EXCEPT !.native = w.keys]
          /\ Tells(decoder, d2, e, run, debugMode)
      BY <1>1, <3>1, NativeFacts
    <3> HIDE DEF w, d2, e
    <3>3. /\ d2.seq = decoder.seq /\ d2.last = decoder.last /\ d2.first = decoder.first
          /\ d2.received = decoder.received /\ d2.gaps = decoder.gaps
      BY <1>1, <3>2, NativeExact
    <3>4. Exact(d2)
      BY <1>1, <3>3, SameExact
    <3>5. Spaced(Tail(wire), d2, remote.number, lost)
      <4>1. ~IsRemote(wire[1]) /\ d2.last = decoder.last /\ d2.seq = decoder.seq
        BY <2>4, <3>3 DEF w
      <4> QED BY <1>1, <1>3, <4>1, SpacedRead
    <3> QED BY <2>1, <2>2, <3>2, <3>4, <3>5
  <2> QED BY <2>3, <2>4
<1> QED BY <1>2, <1>3

\* Room for the first of the events.
Under(s, m) == \A i \in 1..Len(s) : s[i].under = m

Room(p, e) == IF PendingCap - Len(p) < Len(e) THEN PendingCap - Len(p) ELSE Len(e)

\* What fits into the batch that is being filled.
LEMMA RoomFacts ==
  ASSUME NEW p \in Seq(EventSet), Len(p) <= PendingCap, NEW e \in Seq(EventSet), NEW room, NEW m,
         room = Room(p, e),
         Under(p, m), Under(e, m),
         NEW all, all = p \o SubSeq(e, 1, room)
  PROVE  /\ room \in Nat /\ room <= Len(e) /\ Len(e) - room \in Nat
         /\ all \in Seq(EventSet) /\ Len(all) <= PendingCap
         /\ Under(all, m)
<1> DEFINE l == Len(p)
           k == Len(e)
           t == SubSeq(e, 1, room)
<1>1. l \in Nat /\ k \in Nat /\ l <= PendingCap
  OBVIOUS
<1>2. room \in Nat /\ room <= k /\ k - room \in Nat /\ l + room <= PendingCap
  <2> HIDE DEF l, k
  <2>1. room = IF PendingCap - l < k THEN PendingCap - l ELSE k
    BY DEF l, k, Room
  <2> QED BY <1>1, <2>1, ViewConstants
<1>3. t \in Seq(EventSet) /\ Len(t) = room /\ \A i \in 1..room : t[i] = e[i]
  BY <1>2
<1> HIDE DEF t
<1>4. /\ all \in Seq(EventSet) /\ Len(all) = l + Len(t)
      /\ \A i \in 1..l : all[i] = p[i]
      /\ \A i \in 1..Len(all) : i \in 1..l \/ (i - l \in 1..Len(t) /\ all[i] = t[i - l])
  BY <1>3, Concat DEF t
<1>5. \A i \in 1..Len(t) : t[i].under = m
  <2> SUFFICES ASSUME NEW i \in 1..Len(t) PROVE t[i].under = m
    OBVIOUS
  <2>1. i \in 1..room /\ t[i] = e[i]
    BY <1>3
  <2>2. i \in 1..Len(e)
    BY <1>1, <1>2, <2>1
  <2> QED BY <2>1, <2>2 DEF Under
<1>6. \A i \in 1..Len(all) : all[i].under = m
  BY <1>4, <1>5, SMTT(60) DEF Under
<1> QED BY <1>2, <1>3, <1>4, <1>6 DEF Under

\* Nothing is recorded: reports are read and forgotten.
LEMMA IdleKeeps ==
  ASSUME ViewInv, debugMode = Absent, wire' = wire \/ (wire # <<>> /\ wire' = Tail(wire)),
         UNCHANGED <<remote, session, decoder, debugMode, pending, dropped, run, commands, signals, panel, lost>>
  PROVE  ViewInv'
<1>1. /\ wire \in Seq(Wires) /\ Spaced(wire, decoder, remote.number, lost)
      /\ decoder.seq = Absent /\ panel.gaps = panel.lost
  BY TypesOf DEF ViewInv, LossInv
<1>2. wire' \in Seq(Wires)
  BY <1>1
<1>3. Spaced(wire', decoder, remote.number, lost)
  <2>1. CASE wire' = wire
    BY <1>1, <2>1
  <2>2. CASE wire # <<>> /\ wire' = Tail(wire)
    BY <1>1, <2>2, SpacedRead
  <2> QED BY <2>1, <2>2
<1>4. ViewTypes'
  BY <1>2, TypesOf DEF ViewTypes
<1>5. LossInv'
  BY <1>1, <1>3, SameView DEF LossInv, ViewInv
<1> QED BY <1>4, <1>5, SameView DEF ViewInv

\* The batch that is handed over.
LEMMA BatchFacts ==
  ASSUME NEW all \in Seq(EventSet), NEW left \in Nat, NEW d \in Decoders, Exact(d), debugMode \in Modes
  PROVE  /\ Batch(all, left, d) \in SignalSet /\ IsBatch(Batch(all, left, d))
         /\ Batch(all, left, d).events = all /\ Batch(all, left, d).dropped = left
         /\ Batch(all, left, d).mode = debugMode
         /\ Batch(all, left, d).gaps = Batch(all, left, d).lost
<1> DEFINE b == Batch(all, left, d)
<1>1. b = [kind |-> "batch", mode |-> debugMode, events |-> all, gaps |-> d.gaps,
           dropped |-> left, lost |-> Missed(d)]
  BY DEF Batch, Missed
<1>2. d.gaps \in Int /\ Missed(d) = d.gaps
  BY DEF Exact, Decoders
<1> HIDE DEF b
<1>3. b \in BatchSet
  BY <1>1, <1>2 DEF BatchSet
<1>4. /\ b \in SignalSet /\ IsBatch(b) /\ b.events = all /\ b.dropped = left /\ b.mode = debugMode
      /\ b.gaps = b.lost
  BY <1>1, <1>2, <1>3 DEF SignalSet, IsBatch
<1> QED BY <1>4 DEF b

\* A poll of the worker.
LEMMA PollKeeps == ViewInv /\ Poll => ViewInv'
<1> SUFFICES ASSUME ViewInv, Poll PROVE ViewInv'
  OBVIOUS
<1>1. /\ UNCHANGED <<remote, session, debugMode, run, commands, panel, lost>>
      /\ (wire # <<>> /\ wire' = Tail(wire)) \/ (wire = <<>> /\ wire' = wire)
  BY DEF Poll, counts
<1>2. CASE debugMode = Absent
  <2>1. UNCHANGED <<decoder, pending, dropped, signals>>
    BY <1>2 DEF Poll
  <2> QED BY <1>1, <1>2, <2>1, IdleKeeps
<1>3. CASE debugMode # Absent
  <2> DEFINE e    == Reading.events
             d2   == Reading.decoder
             free == PendingCap - Len(pending)
             room == IF free < Len(e) THEN free ELSE Len(e)
             all  == pending \o SubSeq(e, 1, room)
             left == dropped + (Len(e) - room)
  <2>1. /\ decoder' = d2 /\ dropped' = left
        /\ \/ pending' = all /\ signals' = signals
           \/ pending' = <<>> /\ signals' = Append(signals, Batch(all, left, d2))
    BY <1>3 DEF Poll, Reading, LeftOut
  <2>2. /\ debugMode \in Modes /\ pending \in Seq(EventSet) /\ Len(pending) <= PendingCap
        /\ signals \in Seq(SignalSet) /\ panel.rows \in Seq(RowSet) /\ dropped \in Nat
        /\ decoder \in Decoders /\ run \in Nat /\ panel.change \in Nat
    BY <1>3, TypesOf
  <2>3. /\ wire' \in Seq(Wires) /\ d2 \in Decoders /\ Exact(d2) /\ Tells(decoder, d2, e, run, debugMode)
        /\ Spaced(wire', d2, remote.number, lost)
    <3>1. wire' = IF wire = <<>> THEN wire ELSE Tail(wire)
      BY <1>1
    <3> QED BY <2>2, <3>1, ReadFacts
  <2> HIDE DEF e, d2
  <2>4. e \in Seq(EventSet) /\ \A i \in 1..Len(e) : e[i].under = debugMode
    BY <2>3 DEF Tells
  <2>5. LabelInv
    BY DEF ViewInv
  <2>6. /\ room \in Nat /\ room <= Len(e) /\ Len(e) - room \in Nat
        /\ all \in Seq(EventSet) /\ Len(all) <= PendingCap
        /\ Under(all, debugMode)
    <3>1. Under(pending, debugMode) /\ Under(e, debugMode)
      BY <2>4, <2>5 DEF LabelInv, Labels, Under
    <3>2. room = Room(pending, e)
      BY DEF Room
    <3> HIDE DEF room
    <3>3. all = pending \o SubSeq(e, 1, room)
      OBVIOUS
    <3> HIDE DEF all
    <3>4. pending \in Seq(EventSet) /\ Len(pending) <= PendingCap /\ e \in Seq(EventSet)
      BY <2>2, <2>4
    <3> QED BY <3>1, <3>2, <3>3, <3>4, RoomFacts
  <2>7. left \in Nat
    BY <2>2, <2>6
  <2>8. /\ Len(<<>>) = 0 /\ <<>> \in Seq(EventSet)
    OBVIOUS
  <2>9. PICK N, F, B : Flow(N, F, B, panel.rows, signals, pending, dropped, panel, decoder, run, debugMode)
    BY DEF ViewInv, FlowInv
  <2>10. PICK F2 : Flow(N + room, F2, B, panel.rows, signals, all, left, panel, d2, run, debugMode)
    <3> HIDE DEF room
    <3>1. left = dropped + (Len(e) - room)
      OBVIOUS
    <3> HIDE DEF left
    <3>2. \E F2 : Flow(N + room, F2, B, panel.rows, signals, pending \o SubSeq(e, 1, room), left,
                       panel, d2, run, debugMode)
      BY <2>2, <2>3, <2>6, <2>7, <2>9, <3>1, ReceiveFlow
    <3> QED BY <3>2
  <2> HIDE DEF free, room, all, left
  <2>11. panel.gaps = panel.lost /\ Told /\ CountsMatchRows
    BY DEF ViewInv, LossInv
  <2>12. CountsMatchRows'
    BY <1>1, <2>11 DEF CountsMatchRows
  <2>13. CASE pending' = all /\ signals' = signals
    <3>1. ViewTypes'
      BY <1>1, <2>1, <2>3, <2>6, <2>7, <2>13, TypesOf DEF ViewTypes
    <3>2. Told'
      BY <2>11, <2>13 DEF Told
    <3>3. LossInv'
      BY <1>1, <1>3, <2>1, <2>3, <2>11, <3>2 DEF LossInv
    <3>4. LabelInv'
      BY <1>1, <2>5, <2>6, <2>13 DEF LabelInv, Labels, Under
    <3>5. FlowInv'
      BY <1>1, <2>1, <2>10, <2>13 DEF FlowInv
    <3> QED BY <2>12, <3>1, <3>3, <3>4, <3>5 DEF ViewInv
  <2>14. CASE pending' = <<>> /\ signals' = Append(signals, Batch(all, left, d2))
    <3> DEFINE sig == Batch(all, left, d2)
    <3>1. /\ sig \in SignalSet /\ IsBatch(sig) /\ sig.events = all /\ sig.dropped = left
          /\ sig.mode = debugMode /\ sig.gaps = sig.lost
      BY <2>2, <2>3, <2>6, <2>7, BatchFacts
    <3> HIDE DEF sig
    <3>2. signals' = Append(signals, sig) /\ signals' \in Seq(SignalSet)
      <4>1. signals' = Append(signals, sig)
        BY <2>14 DEF sig
      <4> QED BY <2>2, <3>1, <4>1, SignalsAppend
    <3>3. pending' \in Seq(EventSet) /\ Len(pending') <= PendingCap
      BY <2>8, <2>14, ViewConstants
    <3>4. ViewTypes'
      BY <1>1, <2>1, <2>3, <2>7, <3>2, <3>3, TypesOf DEF ViewTypes
    <3>5. Told'
      BY <2>2, <2>11, <3>1, <3>2, ToldAppend
    <3>6. LossInv'
      BY <1>1, <1>3, <2>1, <2>3, <2>11, <3>5 DEF LossInv
    <3>7. LabelInv'
      <4>1. Labels(panel.rows, signals, pending, debugMode)
        BY <2>5 DEF LabelInv
      <4>2. \A i \in 1..Len(sig.events) : sig.events[i].under = sig.mode
        BY <2>6, <3>1 DEF Under
      <4>3. Labels(panel.rows, Append(signals, sig), <<>>, debugMode)
        BY <2>2, <3>1, <4>1, <4>2, LabelsAppend
      <4> QED BY <1>1, <2>14, <3>2, <4>3 DEF LabelInv
    <3>8. FlowInv'
      <4>1. \E B2 : Flow(N + room, F2, B2, panel.rows, Append(signals, sig), <<>>, left, panel, d2, run, debugMode)
        BY <2>2, <2>6, <2>10, <3>1, AppendFlow
      <4> QED BY <1>1, <2>1, <2>14, <3>2, <4>1 DEF FlowInv
    <3> QED BY <2>12, <3>4, <3>6, <3>7, <3>8 DEF ViewInv
  <2> QED BY <2>1, <2>13, <2>14
<1> QED BY <1>2, <1>3

-----------------------------------------------------------------------------
(* The steps of the window.                                                *)

\* The panel of the window.
LEMMA PanelParts ==
  ASSUME NEW x \in Panels
  PROVE  /\ x = [enabled |-> x.enabled, mode |-> x.mode, connected |-> x.connected,
                 counts |-> x.counts, rows |-> x.rows, gaps |-> x.gaps, lost |-> x.lost,
                 dropped |-> x.dropped, change |-> x.change]
         /\ x.enabled \in BOOLEAN /\ x.mode \in Modes /\ x.connected \in BOOLEAN
         /\ x.counts \in [Keys \cup Native -> [Modes -> Nat]] /\ x.rows \in Seq(RowSet)
         /\ x.gaps \in Int /\ x.lost \in Int /\ x.dropped \in Nat /\ x.change \in Nat
BY DEF Panels

\* The counts of a panel that was cleared.
LEMMA ClearCounts ==
  /\ NewPanel.counts \in [Keys \cup Native -> [Modes -> Nat]]
  /\ \A k \in Keys \cup Native, m \in Modes : NewPanel.counts[k][m] = 0
<1> DEFINE z == [k \in Keys \cup Native |-> [m \in Modes |-> 0]]
<1>1. z \in [Keys \cup Native -> [Modes -> Nat]] /\ \A k \in Keys \cup Native, m \in Modes : z[k][m] = 0
  OBVIOUS
<1>2. NewPanel.counts = z
  BY DEF NewPanel
<1> HIDE DEF z
<1> QED BY <1>1, <1>2

\* A panel without rows and counts.
LEMMA EmptyTally ==
  ASSUME NEW p, p.rows = <<>>, \A k \in Keys \cup Native, m \in Modes : p.counts[k][m] = 0
  PROVE  Tallied(p)
<1> SUFFICES ASSUME NEW k \in Keys \cup Native, NEW m \in Modes
             PROVE  p.counts[k][m] = Cardinality(Pressed(p.rows, k, m))
  BY DEF Tallied
<1>1. Pressed(p.rows, k, m) = {}
  BY DEF Pressed
<1>2. Cardinality({}) = 0
  BY FS_EmptySet
<1> QED BY <1>1, <1>2

\* The user changes the panel: another recording begins.
LEMMA ChangedKeeps ==
  ASSUME ViewInv, NEW new \in Panels, new.change = panel.change, new.connected = panel.connected,
         new.gaps = panel.gaps, new.lost = panel.lost, Changed(new),
         \/ new.rows = panel.rows /\ new.counts = panel.counts
         \/ new.rows = <<>> /\ new.counts = NewPanel.counts
  PROVE  ViewInv'
<1>1. /\ UNCHANGED <<remote, wire, session, decoder, debugMode, pending, dropped, run, signals, lost>>
      /\ panel' = [new EXCEPT !.change = @ + 1]
      /\ commands' = Append(commands, IF new.enabled THEN new.mode ELSE Absent)
  BY DEF Changed, worker
<1>2. panel' = [enabled |-> new.enabled, mode |-> new.mode, connected |-> new.connected,
                counts |-> new.counts, rows |-> new.rows, gaps |-> new.gaps, lost |-> new.lost,
                dropped |-> new.dropped, change |-> new.change + 1]
  <2>1. new = [enabled |-> new.enabled, mode |-> new.mode, connected |-> new.connected,
               counts |-> new.counts, rows |-> new.rows, gaps |-> new.gaps, lost |-> new.lost,
               dropped |-> new.dropped, change |-> new.change]
    BY PanelParts
  <2> QED BY <1>1, <2>1, Zenon
<1>3. /\ panel' \in Panels /\ panel'.change = panel.change + 1 /\ panel'.connected = panel.connected
      /\ panel'.rows = new.rows /\ panel'.counts = new.counts
      /\ panel'.gaps = panel.gaps /\ panel'.lost = panel.lost
  <2>1. new.change + 1 \in Nat
    BY PanelParts
  <2> QED BY <1>2, <2>1, PanelParts DEF Panels
<1>4. Len(<<>>) = 0
  OBVIOUS
<1>5. new.rows \in Seq(RowSet) /\ (new.rows = panel.rows \/ new.rows = <<>>)
  BY PanelParts
<1>6. ViewTypes'
  <2>1. Len(panel'.rows) <= MaxRows
    BY <1>3, <1>4, <1>5, TypesOf, ViewConstants, SMTT(60)
  <2>2. commands' \in Seq(Modes \cup {Absent})
    <3> DEFINE x == IF new.enabled THEN new.mode ELSE Absent
    <3>1. x \in Modes \cup {Absent}
      BY PanelParts
    <3> HIDE DEF x
    <3>2. commands' = Append(commands, x)
      BY <1>1 DEF x
    <3> QED BY <3>1, <3>2, TypesOf
  <2> QED BY <1>1, <1>3, <2>1, <2>2, TypesOf DEF ViewTypes
<1>7. LossInv'
  <2>1. LossInv
    BY DEF ViewInv
  <2>2. Told'
    BY <1>1, <2>1 DEF LossInv, Told
  <2> QED BY <1>1, <1>3, <2>1, <2>2 DEF LossInv
<1>8. LabelInv'
  <2>1. LabelInv
    BY DEF ViewInv
  <2> QED BY <1>1, <1>3, <1>4, <1>5, <2>1 DEF LabelInv, Labels
<1>9. CountsMatchRows'
  <2>1. Tallied(panel)
    BY TalliedIsMatch DEF ViewInv
  <2>2. Tallied(panel')
    <3>1. CASE new.rows = panel.rows /\ new.counts = panel.counts
      BY <1>3, <2>1, <3>1 DEF Tallied
    <3>2. CASE new.rows = <<>> /\ new.counts = NewPanel.counts
      <4>1. panel'.rows = <<>> /\ panel'.counts = NewPanel.counts
        BY <1>3, <3>2
      <4>2. \A k \in Keys \cup Native, m \in Modes : panel'.counts[k][m] = 0
        BY <4>1, ClearCounts
      <4> QED BY <4>1, <4>2, EmptyTally
    <3> QED BY <3>1, <3>2
  <2> QED BY <2>2 DEF CountsMatchRows, Tallied, Pressed
<1>10. FlowInv'
  <2>1. PICK N, F, B : Flow(N, F, B, panel.rows, signals, pending, dropped, panel, decoder, run, debugMode)
    BY DEF ViewInv, FlowInv
  <2>2. \E N2, F2, B2 : Flow(N2, F2, B2, new.rows, signals, pending, dropped, panel', decoder, run, debugMode)
    BY <1>3, <1>5, <2>1, TypesOf, ChangeFlow
  <2> QED BY <1>1, <1>3, <2>2 DEF FlowInv
<1> QED BY <1>6, <1>7, <1>8, <1>9, <1>10 DEF ViewInv

\* The check box.
LEMMA EnableKeeps == ViewInv /\ Enable => ViewInv'
<1> SUFFICES ASSUME ViewInv, Enable PROVE ViewInv'
  OBVIOUS
<1> DEFINE new == [panel EXCEPT !.enabled = ~@]
<1>1. Changed(new)
  BY DEF Enable
<1>2. panel \in Panels
  BY TypesOf
<1>3. /\ new \in Panels /\ new.change = panel.change /\ new.connected = panel.connected
      /\ new.gaps = panel.gaps /\ new.lost = panel.lost
      /\ new.rows = panel.rows /\ new.counts = panel.counts
  BY <1>2 DEF Panels
<1> HIDE DEF new
<1> QED BY <1>1, <1>3, ChangedKeeps

\* The label.
LEMMA ChooseKeeps == ViewInv /\ Choose => ViewInv'
<1> SUFFICES ASSUME ViewInv, Choose PROVE ViewInv'
  OBVIOUS
<1>1. PICK m \in Modes \ {panel.mode} : Changed([panel EXCEPT !.mode = m])
  BY DEF Choose
<1> DEFINE new == [panel EXCEPT !.mode = m]
<1>2. panel \in Panels
  BY TypesOf
<1>3. /\ new \in Panels /\ new.change = panel.change /\ new.connected = panel.connected
      /\ new.gaps = panel.gaps /\ new.lost = panel.lost
      /\ new.rows = panel.rows /\ new.counts = panel.counts
  BY <1>2 DEF Panels
<1>4. Changed(new)
  BY <1>1
<1> HIDE DEF new
<1> QED BY <1>3, <1>4, ChangedKeeps

\* The button that clears the tables.
LEMMA ClearKeeps == ViewInv /\ Clear => ViewInv'
<1> SUFFICES ASSUME ViewInv, Clear PROVE ViewInv'
  OBVIOUS
<1> DEFINE z == NewPanel.counts
<1>1. z \in [Keys \cup Native -> [Modes -> Nat]]
  BY ClearCounts
<1> HIDE DEF z
<1> DEFINE new == [panel EXCEPT !.rows = <<>>, !.counts = z]
<1>2. Changed(new)
  BY DEF Clear, z
<1>3. panel \in Panels
  BY TypesOf
<1>4. new = [enabled |-> panel.enabled, mode |-> panel.mode, connected |-> panel.connected,
             counts |-> z, rows |-> <<>>, gaps |-> panel.gaps, lost |-> panel.lost,
             dropped |-> panel.dropped, change |-> panel.change]
  <2>1. panel = [enabled |-> panel.enabled, mode |-> panel.mode, connected |-> panel.connected,
                 counts |-> panel.counts, rows |-> panel.rows, gaps |-> panel.gaps,
                 lost |-> panel.lost, dropped |-> panel.dropped, change |-> panel.change]
    BY <1>3, PanelParts
  <2>2. new = [panel EXCEPT !.rows = <<>>, !.counts = z]
    OBVIOUS
  <2> HIDE DEF new
  <2> QED BY <2>1, <2>2, Zenon
<1> HIDE DEF new
<1>5. /\ new \in Panels /\ new.change = panel.change /\ new.connected = panel.connected
      /\ new.gaps = panel.gaps /\ new.lost = panel.lost
      /\ new.rows = <<>> /\ new.counts = z
  <2>1. <<>> \in Seq(RowSet)
    OBVIOUS
  <2> QED BY <1>1, <1>3, <1>4, <2>1, PanelParts DEF Panels
<1>6. new.counts = NewPanel.counts
  BY <1>5 DEF z
<1> QED BY <1>2, <1>5, <1>6, ChangedKeeps

\* The first signal is taken.
LEMMA SignalsTail ==
  ASSUME NEW sigs \in Seq(SignalSet), sigs # <<>>
  PROVE  /\ Tail(sigs) \in Seq(SignalSet) /\ Len(Tail(sigs)) = Len(sigs) - 1
         /\ \A s \in 1..Len(Tail(sigs)) : Tail(sigs)[s] = sigs[s + 1] /\ s + 1 \in 1..Len(sigs)
         /\ 1 \in 1..Len(sigs) /\ Head(sigs) = sigs[1] /\ sigs[1] \in SignalSet
OBVIOUS

\* A signal fewer, the labels of the others stay right.
LEMMA LabelsTail ==
  ASSUME NEW rows, NEW sigs \in Seq(SignalSet), sigs # <<>>, NEW pend, NEW m, NEW rows2,
         Labels(rows, sigs, pend, m), \A i \in 1..Len(rows2) : rows2[i].mode = rows2[i].event.under
  PROVE  Labels(rows2, Tail(sigs), pend, m)
BY SignalsTail DEF Labels

\* The window hears of the device.
LEMMA OnConnectionKeeps == ViewInv /\ OnConnection => ViewInv'
<1> SUFFICES ASSUME ViewInv, OnConnection PROVE ViewInv'
  OBVIOUS
<1>1. /\ UNCHANGED <<remote, wire, session, decoder, debugMode, pending, dropped, run, commands, lost>>
      /\ signals # <<>> /\ Head(signals).kind # "batch" /\ signals' = Tail(signals)
      /\ panel' = [panel EXCEPT !.connected = Head(signals).kind = "ready"]
  BY DEF OnConnection, worker, counts
<1>2. /\ signals' \in Seq(SignalSet) /\ ~IsBatch(signals[1])
      /\ \A s \in 1..Len(signals') : signals'[s] = signals[s + 1] /\ s + 1 \in 1..Len(signals)
  BY <1>1, TypesOf, SignalsTail DEF IsBatch
<1>3. /\ panel' \in Panels /\ panel'.rows = panel.rows /\ panel'.counts = panel.counts
      /\ panel'.gaps = panel.gaps /\ panel'.lost = panel.lost /\ panel'.change = panel.change
      /\ panel'.enabled = panel.enabled /\ panel'.mode = panel.mode
  <2> DEFINE x == Head(signals).kind = "ready"
  <2>1. x \in BOOLEAN
    OBVIOUS
  <2> HIDE DEF x
  <2>2. panel' = [panel EXCEPT !.connected = x] /\ panel \in Panels
    BY <1>1, TypesOf DEF x
  <2> QED BY <2>1, <2>2 DEF Panels
<1>4. ViewTypes'
  BY <1>1, <1>2, <1>3, TypesOf DEF ViewTypes
<1>5. LossInv'
  <2>1. LossInv
    BY DEF ViewInv
  <2>2. Told'
    BY <1>2, <2>1 DEF LossInv, Told
  <2> QED BY <1>1, <1>3, <2>1, <2>2 DEF LossInv
<1>6. LabelInv'
  <2>1. Labels(panel.rows, signals, pending, debugMode)
    BY DEF ViewInv, LabelInv
  <2>2. Labels(panel.rows, Tail(signals), pending, debugMode)
    <3>1. \A i \in 1..Len(panel.rows) : panel.rows[i].mode = panel.rows[i].event.under
      BY <2>1 DEF Labels
    <3> QED BY <1>1, <2>1, <3>1, TypesOf, LabelsTail
  <2> QED BY <1>1, <1>3, <2>2 DEF LabelInv
<1>7. CountsMatchRows'
  <2>1. CountsMatchRows
    BY DEF ViewInv
  <2> QED BY <1>3, <2>1 DEF CountsMatchRows
<1>8. FlowInv'
  <2>1. PICK N, F, B : Flow(N, F, B, panel.rows, signals, pending, dropped, panel, decoder, run, debugMode)
    BY DEF ViewInv, FlowInv
  <2>2. \E B2 : Flow(N, F, B2, panel.rows, Tail(signals), pending, dropped, panel', decoder, run, debugMode)
    BY <1>1, <1>2, <1>3, <2>1, TypesOf, ConnectFlow
  <2> QED BY <1>1, <1>3, <2>2 DEF FlowInv
<1> QED BY <1>4, <1>5, <1>6, <1>7, <1>8 DEF ViewInv

\* The rows a batch adds.
LEMMA RowsFacts ==
  ASSUME NEW batch \in BatchSet, panel.change \in Nat
  PROVE  /\ Rows(batch) \in Seq(RowSet) /\ Len(Rows(batch)) = Len(batch.events)
         /\ Len(batch.events) \in Nat
         /\ \A i \in 1..Len(batch.events) :
              /\ Rows(batch)[i].event = batch.events[i]
              /\ Rows(batch)[i].mode = batch.mode /\ Rows(batch)[i].change = panel.change
              /\ RowItem(Rows(batch)[i]) = Waiting(batch.events[i], batch.dropped, panel.change)
<1> DEFINE n == Len(batch.events)
           row(i, w) == [event |-> batch.events[i], mode |-> batch.mode,
                         change |-> panel.change, whole |-> w]
<1>1. batch.events \in Seq(EventSet) /\ n \in Nat /\ DOMAIN batch.events = 1..n /\ batch.mode \in Modes
      /\ \A i \in 1..n : batch.events[i] \in EventSet
  BY DEF BatchSet
<1>2. ASSUME NEW i \in 1..n
      PROVE  /\ Rows(batch)[i].event = batch.events[i]
             /\ Rows(batch)[i].mode = batch.mode /\ Rows(batch)[i].change = panel.change
             /\ RowItem(Rows(batch)[i]) = Waiting(batch.events[i], batch.dropped, panel.change)
             /\ Rows(batch)[i] \in RowSet
  <2>1. i \in DOMAIN batch.events
    BY <1>1
  <2>2. CASE batch.dropped = 0
    <3>1. Rows(batch)[i] = row(i, TRUE)
      BY <2>1, <2>2 DEF Rows
    <3>2. row(i, TRUE) \in RowSet
      BY <1>1 DEF RowSet
    <3> QED BY <2>2, <3>1, <3>2 DEF RowItem, Waiting, Mark
  <2>3. CASE batch.dropped # 0
    <3>1. Rows(batch)[i] = row(i, FALSE)
      BY <2>1, <2>3 DEF Rows
    <3>2. row(i, FALSE) \in RowSet
      BY <1>1 DEF RowSet
    <3> QED BY <2>3, <3>1, <3>2 DEF RowItem, Waiting, Mark
  <2> QED BY <2>2, <2>3
<1>3. Rows(batch) = [i \in 1..n |-> Rows(batch)[i]]
  BY <1>1 DEF Rows
<1> DEFINE f == Rows(batch)
<1>4. f = [i \in 1..n |-> f[i]] /\ \A i \in 1..n : f[i] \in RowSet
  BY <1>2, <1>3
<1> HIDE DEF f, n
<1>5. f \in Seq(RowSet) /\ Len(f) = n
  BY <1>1, <1>4
<1> QED BY <1>1, <1>2, <1>5 DEF f, n

\* The newest rows.
LEMMA NewestFacts ==
  ASSUME NEW rows \in Seq(RowSet), NEW new \in Seq(RowSet)
  PROVE  \E o \in Nat :
           /\ Newest(rows \o new) \in Seq(RowSet) /\ Len(Newest(rows \o new)) <= MaxRows
           /\ Len(Newest(rows \o new)) = Len(rows) + Len(new) - o
           /\ \A i \in 1..Len(Newest(rows \o new)) :
                \/ i + o \in 1..Len(rows) /\ Newest(rows \o new)[i] = rows[i + o]
                \/ /\ i + o - Len(rows) \in 1..Len(new)
                   /\ Newest(rows \o new)[i] = new[i + o - Len(rows)]
<1> DEFINE all == rows \o new
           n == Len(all)
           l == Len(rows)
           o == IF n <= MaxRows THEN 0 ELSE n - MaxRows
           v == Newest(all)
<1>1. /\ all \in Seq(RowSet) /\ n = l + Len(new) /\ l \in Nat /\ Len(new) \in Nat
      /\ \A i \in 1..l : all[i] = rows[i]
      /\ \A i \in 1..n : i \in 1..l \/ (i - l \in 1..Len(new) /\ all[i] = new[i - l])
  BY Concat
<1> HIDE DEF all, l, n
<1>2. n \in Nat /\ n = Len(all)
  BY <1>1 DEF n
<1>3. o \in Nat /\ o <= n /\ n - o <= MaxRows
  BY <1>2, ViewConstants
<1>4. v \in Seq(RowSet) /\ Len(v) = n - o /\ \A i \in 1..n - o : v[i] = all[i + o] /\ i + o \in 1..n
  <2>1. CASE n <= MaxRows
    <3>1. v = all /\ o = 0
      BY <1>2, <2>1 DEF Newest
    <3> HIDE DEF v, o
    <3> QED BY <1>1, <1>2, <3>1
  <2>2. CASE ~(n <= MaxRows)
    <3>1. v = SubSeq(all, n - MaxRows + 1, n) /\ o = n - MaxRows
      BY <1>2, <2>2 DEF Newest
    <3> HIDE DEF v, o
    <3>2. n - MaxRows + 1 = o + 1 /\ o \in Nat /\ o < n
      BY <1>2, <2>2, <3>1, ViewConstants
    <3>3. v = SubSeq(all, o + 1, n)
      BY <3>1, <3>2
    <3>4. v \in Seq(RowSet) /\ Len(v) = n - o /\ \A i \in 1..n - o : v[i] = all[i + o]
      BY <1>1, <1>2, <3>2, <3>3, SMTT(60)
    <3> QED BY <1>2, <3>2, <3>4
  <2> QED BY <2>1, <2>2
<1> HIDE DEF v, o
<1>5. Len(v) <= MaxRows /\ Len(v) = l + Len(new) - o
  BY <1>1, <1>3, <1>4
<1>6. ASSUME NEW i \in 1..Len(v)
      PROVE  \/ i + o \in 1..l /\ v[i] = rows[i + o]
             \/ i + o - l \in 1..Len(new) /\ v[i] = new[i + o - l]
  <2> DEFINE j == i + o
  <2>1. v[i] = all[j] /\ j \in 1..n
    BY <1>4
  <2> HIDE DEF j
  <2>2. \/ j \in 1..l /\ v[i] = rows[j]
        \/ j - l \in 1..Len(new) /\ v[i] = new[j - l]
    BY <1>1, <2>1
  <2>3. j - l = i + o - l
    BY <1>1, <1>3 DEF j
  <2> QED BY <2>2, <2>3 DEF j
<1> QED BY <1>3, <1>4, <1>5, <1>6 DEF v, all, l

\* The counts after a batch.
Added(batch) ==
  [k \in Keys \cup Native |->
     [m \in Modes |-> panel.counts[k][m] + Cardinality(Pressed(Rows(batch), k, m))]]

\* The counts are numbers.
LEMMA AddedFacts ==
  ASSUME NEW batch \in BatchSet, panel \in Panels
  PROVE  /\ Added(batch) \in [Keys \cup Native -> [Modes -> Nat]]
         /\ \A k \in Keys \cup Native, m \in Modes :
              Added(batch)[k][m] = panel.counts[k][m] + Cardinality(Pressed(Rows(batch), k, m))
<1>1. Rows(batch) \in Seq(RowSet)
  BY RowsFacts, PanelParts
<1>2. \A k \in Keys \cup Native, m \in Modes :
        /\ Cardinality(Pressed(Rows(batch), k, m)) \in Nat /\ panel.counts[k][m] \in Nat
  BY <1>1, PressedFinite, PanelParts
<1>3. \A k \in Keys \cup Native, m \in Modes :
        panel.counts[k][m] + Cardinality(Pressed(Rows(batch), k, m)) \in Nat
  BY <1>2
<1> QED BY <1>3 DEF Added

\* The panel after a batch that is shown.
LEMMA ShownPanel ==
  ASSUME ViewInv, OnBatch, Showing(Head(signals))
  PROVE  panel' = [enabled |-> panel.enabled, mode |-> panel.mode, connected |-> panel.connected,
                   counts |-> Added(Head(signals)),
                   rows |-> Newest(panel.rows \o Rows(Head(signals))),
                   gaps |-> Head(signals).gaps, lost |-> Head(signals).lost,
                   dropped |-> Head(signals).dropped, change |-> panel.change]
<1> DEFINE batch == Head(signals)
           new(k, m) == {i \in DOMAIN batch.events :
                           /\ Counted(batch.events[i])
                           /\ batch.events[i].key = k /\ batch.mode = m}
           z == [k \in Keys \cup Native |->
                   [m \in Modes |-> panel.counts[k][m] + Cardinality(new(k, m))]]
           rows2 == Newest(panel.rows \o Rows(batch))
<1>1. panel' = [panel EXCEPT !.rows = rows2, !.counts = z,
                             !.gaps = batch.gaps, !.lost = batch.lost, !.dropped = batch.dropped]
  BY DEF OnBatch
<1>2. panel \in Panels
  BY TypesOf
<1>3. batch \in BatchSet
  <2>1. signals # <<>> /\ IsBatch(Head(signals))
    BY DEF OnBatch, IsBatch
  <2> QED BY <2>1, TypesOf, SignalsTail, SignalFacts
<1>4. z = Added(batch)
  <2>1. \A k, m : new(k, m) = Pressed(Rows(batch), k, m)
    <3> SUFFICES ASSUME NEW k, NEW m PROVE new(k, m) = Pressed(Rows(batch), k, m)
      OBVIOUS
    <3>1. /\ DOMAIN Rows(batch) = DOMAIN batch.events
          /\ \A i \in DOMAIN batch.events : /\ Rows(batch)[i].event = batch.events[i]
                                            /\ Rows(batch)[i].mode = batch.mode
      BY DEF Rows
    <3> HIDE DEF batch
    <3> QED BY <3>1 DEF Pressed, Counted
  <2> HIDE DEF new
  <2> QED BY <2>1 DEF Added
<1> HIDE DEF z, rows2, batch
<1>5. panel' = [enabled |-> panel.enabled, mode |-> panel.mode, connected |-> panel.connected,
                counts |-> z, rows |-> rows2, gaps |-> batch.gaps, lost |-> batch.lost,
                dropped |-> batch.dropped, change |-> panel.change]
  <2>1. panel = [enabled |-> panel.enabled, mode |-> panel.mode, connected |-> panel.connected,
                 counts |-> panel.counts, rows |-> panel.rows, gaps |-> panel.gaps,
                 lost |-> panel.lost, dropped |-> panel.dropped, change |-> panel.change]
    BY <1>2, PanelParts
  <2> QED BY <1>1, <2>1, Zenon
<1> QED BY <1>4, <1>5 DEF rows2, batch

\* The window takes a batch, shown or not.
LEMMA OnBatchKeeps == ViewInv /\ OnBatch => ViewInv'
<1> SUFFICES ASSUME ViewInv, OnBatch PROVE ViewInv'
  OBVIOUS
<1> DEFINE batch == signals[1]
<1>1. /\ UNCHANGED <<remote, wire, session, decoder, debugMode, pending, dropped, run, commands, lost>>
      /\ signals # <<>> /\ Head(signals).kind = "batch" /\ signals' = Tail(signals)
  BY DEF OnBatch, worker, counts
<1>2. /\ signals' \in Seq(SignalSet) /\ Head(signals) = batch /\ IsBatch(batch) /\ batch \in SignalSet
      /\ \A s \in 1..Len(signals') : signals'[s] = signals[s + 1] /\ s + 1 \in 1..Len(signals)
      /\ 1 \in 1..Len(signals)
  BY <1>1, TypesOf, SignalsTail DEF IsBatch
<1>3. batch \in BatchSet
  BY <1>2, SignalFacts
<1>4. Labels(panel.rows, signals, pending, debugMode)
  BY DEF ViewInv, LabelInv
<1>5. PICK N, F, B : Flow(N, F, B, panel.rows, signals, pending, dropped, panel, decoder, run, debugMode)
  BY DEF ViewInv, FlowInv
<1>6. /\ panel.gaps = panel.lost /\ Told /\ Exact(decoder) /\ CountsMatchRows
      /\ debugMode = Absent => decoder.seq = Absent
      /\ Spaced(wire, decoder, remote.number, lost)
  BY DEF ViewInv, LossInv
<1>7. Told'
  BY <1>2, <1>6 DEF Told
<1>8. /\ panel.rows \in Seq(RowSet) /\ signals \in Seq(SignalSet) /\ pending \in Seq(EventSet)
      /\ run \in Nat /\ panel.change \in Nat /\ panel \in Panels
  BY TypesOf
<1>9. CASE ~Showing(batch)
  <2>1. panel' = panel
    BY <1>2, <1>9 DEF OnBatch
  <2>2. ViewTypes'
    BY <1>1, <1>2, <2>1, TypesOf DEF ViewTypes
  <2>3. LossInv'
    BY <1>1, <1>6, <1>7, <2>1 DEF LossInv
  <2>4. LabelInv'
    <3>1. \A i \in 1..Len(panel.rows) : panel.rows[i].mode = panel.rows[i].event.under
      BY <1>4 DEF Labels
    <3>2. Labels(panel.rows, Tail(signals), pending, debugMode)
      BY <1>1, <1>4, <1>8, <3>1, LabelsTail
    <3> QED BY <1>1, <2>1, <3>2 DEF LabelInv
  <2>5. CountsMatchRows'
    BY <1>6, <2>1 DEF CountsMatchRows
  <2>6. FlowInv'
    <3>1. ~(panel.enabled /\ panel.connected /\ signals[1].mode = panel.mode)
      BY <1>9 DEF Showing
    <3>2. IsBatch(signals[1])
      BY <1>2
    <3>3. \E N2, F2, B2 : Flow(N2, F2, B2, panel.rows, Tail(signals), pending, dropped, panel, decoder, run, debugMode)
      BY <1>1, <1>4, <1>5, <1>8, <3>1, <3>2, SkipFlow
    <3> QED BY <1>1, <2>1, <3>3 DEF FlowInv
  <2> QED BY <2>2, <2>3, <2>4, <2>5, <2>6 DEF ViewInv
<1>10. CASE Showing(batch)
  <2> DEFINE rows2 == Newest(panel.rows \o Rows(batch))
             new   == Rows(batch)
  <2>1. panel' = [enabled |-> panel.enabled, mode |-> panel.mode, connected |-> panel.connected,
                  counts |-> Added(batch), rows |-> rows2,
                  gaps |-> batch.gaps, lost |-> batch.lost,
                  dropped |-> batch.dropped, change |-> panel.change]
    BY <1>2, <1>10, ShownPanel
  <2>2. /\ new \in Seq(RowSet) /\ Len(new) = Len(batch.events) /\ Len(batch.events) \in Nat
        /\ \A i \in 1..Len(batch.events) :
              /\ new[i].event = batch.events[i]
              /\ new[i].mode = batch.mode /\ new[i].change = panel.change
              /\ RowItem(new[i]) = Waiting(batch.events[i], batch.dropped, panel.change)
    BY <1>3, <1>8, RowsFacts
  <2>3. PICK o \in Nat :
          /\ rows2 \in Seq(RowSet) /\ Len(rows2) <= MaxRows
          /\ Len(rows2) = Len(panel.rows) + Len(new) - o
          /\ \A i \in 1..Len(rows2) :
               \/ i + o \in 1..Len(panel.rows) /\ rows2[i] = panel.rows[i + o]
               \/ i + o - Len(panel.rows) \in 1..Len(new) /\ rows2[i] = new[i + o - Len(panel.rows)]
    BY <1>8, <2>2, NewestFacts
  <2>4. /\ Added(batch) \in [Keys \cup Native -> [Modes -> Nat]]
        /\ \A k \in Keys \cup Native, m \in Modes :
              Added(batch)[k][m] = panel.counts[k][m] + Cardinality(Pressed(Rows(batch), k, m))
    BY <1>3, <1>8, AddedFacts
  <2> HIDE DEF rows2, new
  <2>5. batch.gaps \in Int /\ batch.lost \in Int /\ batch.dropped \in Nat /\ batch.gaps = batch.lost
    BY <1>2, <1>3, <1>6 DEF BatchSet, Told
  <2> HIDE DEF batch
  <2>6. /\ panel' \in Panels /\ panel'.rows = rows2 /\ panel'.counts = Added(batch)
        /\ panel'.gaps = panel'.lost /\ panel'.change = panel.change
        /\ panel'.enabled = panel.enabled /\ panel'.mode = panel.mode
        /\ panel'.connected = panel.connected
    BY <1>8, <2>1, <2>3, <2>4, <2>5, PanelParts DEF Panels
  <2>7. ViewTypes'
    BY <1>1, <1>2, <2>3, <2>6, TypesOf DEF ViewTypes
  <2>8. LossInv'
    BY <1>1, <1>6, <1>7, <2>6 DEF LossInv
  <2>9. LabelInv'
    <3>1. \A i \in 1..Len(batch.events) : batch.events[i].under = batch.mode
      BY <1>2, <1>4 DEF Labels, batch
    <3>2. ASSUME NEW i \in 1..Len(rows2) PROVE rows2[i].mode = rows2[i].event.under
      <4>1. CASE i + o \in 1..Len(panel.rows) /\ rows2[i] = panel.rows[i + o]
        BY <1>4, <4>1 DEF Labels
      <4>2. CASE i + o - Len(panel.rows) \in 1..Len(new) /\ rows2[i] = new[i + o - Len(panel.rows)]
        BY <2>2, <3>1, <4>2
      <4> QED BY <2>3, <4>1, <4>2
    <3>3. Labels(rows2, Tail(signals), pending, debugMode)
      BY <1>1, <1>4, <1>8, <3>2, LabelsTail
    <3> QED BY <1>1, <2>6, <3>3 DEF LabelInv
  <2>10. CountsMatchRows'
    <3>1. Tallied(panel)
      BY <1>6, TalliedIsMatch
    <3>2. Tallied(panel')
      BY <1>8, <2>2, <2>4, <2>6, <3>1, ShownTally DEF rows2, new
    <3> QED BY <3>2 DEF CountsMatchRows, Tallied, Pressed
  <2>11. FlowInv'
    <3>1. Grown(panel.rows, batch, panel.change, o, rows2)
      <4>1. Len(rows2) = Len(panel.rows) + Len(batch.events) - o
        BY <2>2, <2>3
      <4>2. ASSUME NEW i \in 1..Len(rows2)
            PROVE  \/ /\ i + o \in 1..Len(panel.rows) /\ rows2[i] = panel.rows[i + o]
                   \/ /\ i + o - Len(panel.rows) \in 1..Len(batch.events)
                      /\ rows2[i].mode = batch.mode /\ rows2[i].change = panel.change
                      /\ RowItem(rows2[i]) =
                           Waiting(batch.events[i + o - Len(panel.rows)], batch.dropped, panel.change)
        <5>1. CASE i + o \in 1..Len(panel.rows) /\ rows2[i] = panel.rows[i + o]
          BY <5>1
        <5>2. CASE i + o - Len(panel.rows) \in 1..Len(new) /\ rows2[i] = new[i + o - Len(panel.rows)]
          <6> DEFINE q == i + o - Len(panel.rows)
          <6>1. q \in 1..Len(batch.events) /\ rows2[i] = new[q]
            BY <2>2, <5>2
          <6> HIDE DEF q
          <6>2. /\ rows2[i].mode = batch.mode /\ rows2[i].change = panel.change
                /\ RowItem(rows2[i]) = Waiting(batch.events[q], batch.dropped, panel.change)
            BY <2>2, <6>1
          <6> QED BY <6>1, <6>2 DEF q
        <5> QED BY <2>3, <5>1, <5>2
      <4> QED BY <4>1, <4>2 DEF Grown
    <3>2. panel.enabled /\ panel.connected /\ batch.mode = panel.mode
      BY <1>10 DEF Showing
    <3>3. \E N2, F2, B2 : Flow(N2, F2, B2, rows2, Tail(signals), pending, dropped, panel', decoder, run, debugMode)
      <4>1. IsBatch(batch) /\ batch = signals[1] /\ rows2 \in Seq(RowSet)
        BY <1>2, <2>3 DEF batch
      <4>2. /\ panel'.change = panel.change /\ panel'.enabled = panel.enabled
            /\ panel'.mode = panel.mode /\ panel'.connected = panel.connected
        BY <2>6
      <4> QED BY <1>1, <1>5, <1>8, <3>1, <3>2, <4>1, <4>2, ShowFlow, ZenonT(60)
    <3> QED BY <1>1, <2>6, <3>3 DEF FlowInv
  <2> QED BY <2>7, <2>8, <2>9, <2>10, <2>11 DEF ViewInv
<1> QED BY <1>9, <1>10

-----------------------------------------------------------------------------
(* What the invariant is for.                                              *)

\* Presses alternate in the history.
LEMMA ViewAlternates == ViewInv => PressesAlternate
<1> SUFFICES ASSUME ViewInv PROVE PressesAlternate
  OBVIOUS
<1>1. PICK N, F, B : Flow(N, F, B, panel.rows, signals, pending, dropped, panel, decoder, run, debugMode)
  BY DEF ViewInv, FlowInv
<1> DEFINE rows == panel.rows
           l == Len(rows)
<1>2. /\ panel.rows \in Seq(RowSet) /\ signals \in Seq(SignalSet) /\ pending \in Seq(EventSet)
  BY TypesOf
<1>3. Placed(N, B, panel.rows, signals, pending)
  BY <1>1, <1>2, Places DEF Flow
<1>4. l \in Nat /\ N \in Nat /\ l <= N /\ DOMAIN rows = 1..l /\ \A i \in 1..l : rows[i] \in RowSet
  BY <1>2, <1>3 DEF Placed
<1>5. Alternates(N, F) /\ \A i \in 1..l : F[i] = RowItem(rows[i])
  BY <1>1 DEF Flow, Laid
<1>6. \A i \in 1..l : F[i].event = rows[i].event /\ F[i].change = rows[i].change
                      /\ (rows[i].whole => F[i].left = 0)
  <2> SUFFICES ASSUME NEW i \in 1..l
               PROVE  /\ F[i].event = rows[i].event /\ F[i].change = rows[i].change
                      /\ (rows[i].whole => F[i].left = 0)
    OBVIOUS
  <2> DEFINE row == rows[i]
             x   == IF row.whole THEN 0 ELSE 1
  <2>1. F[i] = [event |-> row.event, left |-> x, change |-> row.change]
    BY <1>5 DEF RowItem
  <2>2. row.whole => x = 0
    OBVIOUS
  <2> HIDE DEF row, x
  <2>3. F[i].event = row.event /\ F[i].change = row.change /\ F[i].left = x
    BY <2>1
  <2> QED BY <2>2, <2>3 DEF row
<1> SUFFICES ASSUME NEW i \in DOMAIN panel.rows, NEW j \in DOMAIN panel.rows,
                    Follows(i, j), panel.rows[j].whole
             PROVE  Counted(rows[i].event) <=> rows[j].event.action = "release"
  BY DEF PressesAlternate
<1>7. i \in 1..l /\ j \in 1..l
  BY <1>4
<1>8. /\ i < j /\ rows[i].event.key = rows[j].event.key /\ rows[i].event.of = rows[j].event.of
      /\ rows[i].change = rows[j].change
      /\ rows[i].event.action # "repeat" /\ rows[j].event.action # "repeat"
      /\ \A k \in i + 1..j - 1 :
           /\ rows[i].event.key = rows[k].event.key /\ rows[i].event.of = rows[k].event.of
           /\ rows[i].change = rows[k].change
           => rows[k].event.action = "repeat"
  BY DEF Follows
<1> HIDE DEF rows, l
<1>9. Match(F, i, j)
  BY <1>6, <1>7, <1>8 DEF Match
<1>10. ~Quiet(F[i].event) /\ ~Quiet(F[j].event) /\ F[j].left = 0
  BY <1>6, <1>7, <1>8 DEF Quiet, rows
<1>11. ASSUME NEW k \in 1..N, i < k, k < j, Match(F, i, k) PROVE Quiet(F[k].event)
  <2>1. k \in 1..l /\ k \in i + 1..j - 1
    BY <1>4, <1>7, <1>11
  <2>2. /\ rows[i].event.key = rows[k].event.key /\ rows[i].event.of = rows[k].event.of
        /\ rows[i].change = rows[k].change
    BY <1>6, <1>7, <1>11, <2>1 DEF Match
  <2>3. rows[k].event.action = "repeat"
    BY <1>8, <2>1, <2>2
  <2> QED BY <1>6, <2>1, <2>3 DEF Quiet
<1>12. i \in 1..N /\ j \in 1..N
  BY <1>4, <1>7
<1>13. Up(F[i].event) <=> ~Up(F[j].event)
  BY <1>5, <1>8, <1>9, <1>10, <1>11, <1>12 DEF Alternates
<1>14. Up(rows[i].event) <=> ~Up(rows[j].event)
  BY <1>6, <1>7, <1>13
<1>15. rows[i].event.action \in EventKinds
  BY <1>4, <1>7 DEF RowSet, EventSet
<1>16. Counted(rows[i].event) <=> ~Up(rows[i].event)
  BY <1>8, <1>15 DEF Counted, Up, EventKinds
<1>17. Up(rows[j].event) <=> rows[j].event.action = "release"
  BY DEF Up
<1> QED BY <1>14, <1>16, <1>17

\* What the invariant says about the panel.
LEMMA ViewIsSafe == ViewInv => ViewSafety
<1> SUFFICES ASSUME ViewInv PROVE ViewSafety
  OBVIOUS
<1>1. ViewTypeOK
  <2>1. decoder.seq \in 0..Seqs - 1 \cup {Absent} /\ decoder.keys \in SUBSET Keys
    BY TypesOf DEF Decoders
  <2>2. \A i \in DOMAIN commands : commands[i] \in Modes \cup {Absent}
    BY TypesOf
  <2> QED BY <2>1, <2>2, TypesOf DEF ViewTypeOK
<1>2. GapsAreLosses
  BY DEF ViewInv, LossInv, GapsAreLosses
<1>3. LabelIsRight
  <2>1. \A i \in 1..Len(panel.rows) : panel.rows[i].mode = panel.rows[i].event.under
    BY DEF ViewInv, LabelInv, Labels
  <2>2. DOMAIN panel.rows = 1..Len(panel.rows)
    BY TypesOf
  <2> QED BY <2>1, <2>2 DEF LabelIsRight
<1>4. CountsMatchRows
  BY DEF ViewInv
<1> QED BY <1>1, <1>2, <1>3, <1>4, ViewAlternates DEF ViewSafety

\* Every step keeps the invariant.
LEMMA ViewSteps == ViewInv /\ [ViewNext]_viewVars => ViewInv'
<1> SUFFICES ASSUME ViewInv, [ViewNext]_viewVars PROVE ViewInv'
  OBVIOUS
<1>1. CASE Publish
  BY <1>1, PublishKeeps
<1>2. CASE PublishNative
  BY <1>2, PublishNativeKeeps
<1>3. CASE Repeat
  BY <1>3, RepeatKeeps
<1>4. CASE Configure
  BY <1>4, ConfigureKeeps
<1>5. CASE Poll
  BY <1>5, PollKeeps
<1>6. CASE Open
  BY <1>6, OpenKeeps
<1>7. CASE Lose
  BY <1>7, LoseKeeps
<1>8. CASE Enable
  BY <1>8, EnableKeeps
<1>9. CASE Choose
  BY <1>9, ChooseKeeps
<1>10. CASE Clear
  BY <1>10, ClearKeeps
<1>11. CASE OnConnection
  BY <1>11, OnConnectionKeeps
<1>12. CASE OnBatch
  BY <1>12, OnBatchKeeps
<1>13. CASE UNCHANGED viewVars
  <2>1. UNCHANGED <<remote, wire, session, decoder, debugMode, pending, dropped, run, commands, signals, panel, lost>>
    BY <1>13 DEF viewVars, worker, counts
  <2>2. ViewTypes'
    BY <2>1, TypesOf DEF ViewTypes
  <2>3. LossInv'
    BY <2>1, SameView DEF LossInv, ViewInv
  <2> QED BY <2>1, <2>2, <2>3, SameView DEF ViewInv
<1> QED BY <1>1, <1>2, <1>3, <1>4, <1>5, <1>6, <1>7, <1>8, <1>9, <1>10, <1>11, <1>12, <1>13 DEF ViewNext

\* Whatever reports are lost or come twice and in whatever order batches, clicks
\* and the device's coming and going meet: gaps are losses, labels are those the
\* events were decoded under, counts agree with the rows, and presses of a key
\* alternate with its releases (debugging.py, worker.py, debug_panel.py).
THEOREM ViewTells == ViewSpec => []ViewSafety
<1>1. ViewInv /\ [ViewNext]_viewVars => ViewInv'
  BY ViewSteps
<1> QED BY <1>1, ViewStarts, ViewIsSafe, PTL DEF ViewSpec

=============================================================================
