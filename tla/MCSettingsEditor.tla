------------------------- MODULE MCSettingsEditor -------------------------
(* Three buttons, one key the list has and one it lacks, one modifier.     *)
EXTENDS SettingsEditor, TLC

Do(kind, key, modifiers) == [kind |-> kind, key |-> key, modifiers |-> modifiers]

MCListed == {Nothing, Action(Do(1, 40, 0)), Action(Do(3, 1, 0))}

MCDefaults ==
  0 :> (Cursor :> None @@ Home :> Do(1, 40, 0) @@ Ok :> Do(1, 40, 8))
    @@ 1 :> (Cursor :> None @@ Home :> None @@ Ok :> Do(3, 1, 0))

\* Settings of the application; a key its list lacks; bit 13; keys, a volume and
\* a button there are not; a modifier of a volume.
MCSent == {Packed(e) : e \in {None, Do(1, 40, 8), Do(1, 115, 8), Do(1, 40, 16), Do(1, 3, 0),
                              Do(1, 116, 0), Do(2, 3, 0), Do(3, 3, 0), Do(2, 1, 8)}}

MCOld == {None, Do(1, 115, 8), Do(3, 1, 0)}
=============================================================================
