-------------------------- MODULE SettingsFormat --------------------------
(***************************************************************************)
(* What one button does, on the wire: 16 bits that keymap.c and mapping.py *)
(* take apart, judge and put together, each in its own way.  b is the HID  *)
(* code of the button and p one of the two profiles, 1 that of the mouse.  *)
(***************************************************************************)
EXTENDS Integers

\* The buttons with a job of their own, and the kinds of actions.
Cursor == 106
Home   == 74
Ok     == 40
Kinds  == [none |-> 0, key |-> 1, volume |-> 2, mouse |-> 3]

\* The field of a value from bit n on, low = 2^n, with so many values.
Bits(v, low, many) == (v \div low) % many

Reserved(b, p) == b = Cursor \/ (p = 1 /\ b = Home)

-----------------------------------------------------------------------------
(* keymap.c                                                                *)

\* valid_entry: a case for every kind.
ValidEntry(e) ==
  /\ e.kind \in {Kinds.none, Kinds.key, Kinds.volume, Kinds.mouse}
  /\ e.kind = Kinds.none   => e.key = 0 /\ e.modifiers = 0
  /\ e.kind = Kinds.key    => e.key >= 4 /\ e.key <= 115 /\ e.modifiers < 16
  /\ e.kind = Kinds.volume => e.key \in {1, 2} /\ e.modifiers = 0
  /\ e.kind = Kinds.mouse  => e.key \in {1, 2, 4} /\ e.modifiers = 0

\* The entry in a value, as decode and Snapshot.decode take it out.
Unpacked(v) ==
  [kind |-> Bits(v, 128, 4), key |-> v % 128, modifiers |-> Bits(v, 512, 16)]

\* decode
BridgeTakes(v, b, p) ==
  /\ v < 8192 /\ ValidEntry(Unpacked(v))
  /\ Reserved(b, p) => v = 0

\* keymap_read, Snapshot.encode; key < 2^7 and kind < 2^2, so | is +.
Packed(e) == e.key + 128 * e.kind + 512 * e.modifiers

\* keymap_init takes the entry from settings of the first format.
OldValid(e) == e.kind <= Kinds.volume /\ ValidEntry(e)

None == [kind |-> Kinds.none, key |-> 0, modifiers |-> 0]

\* Mutant: what older firmware stored for the reserved buttons is kept.
Migrated_AsIs(e, b, p) == e

\* keymap_init, for settings of the first format: what it makes of them.
Migrated(e, b, p) ==
  IF Reserved(b, p) THEN None
  ELSE IF p = 1 /\ b = Ok THEN [kind |-> Kinds.mouse, key |-> 1, modifiers |-> 0]
  ELSE e

-----------------------------------------------------------------------------
(* mapping.py                                                              *)

\* Snapshot.encode accepts the entry.
AppTakes(e, b, p) ==
  /\ \/ e.kind = Kinds.none /\ e.key = 0 /\ e.modifiers = 0
     \/ e.kind = Kinds.key /\ e.key \in 4..115 /\ e.modifiers \in 0..15
     \/ e.kind = Kinds.volume /\ e.key \in {1, 2} /\ e.modifiers = 0
     \/ e.kind = Kinds.mouse /\ e.key \in {1, 2, 4} /\ e.modifiers = 0
  /\ Reserved(b, p) => e.kind = Kinds.none

\* Snapshot.decode accepts the value.
AppReads(v, b, p) == v < 8192 /\ AppTakes(Unpacked(v), b, p)
=============================================================================
