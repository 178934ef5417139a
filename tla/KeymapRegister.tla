--------------------------- MODULE KeymapRegister ---------------------------
(***************************************************************************)
(* What the bridge promises about its settings: they change one revision   *)
(* at a time and never go back, whatever happens to power and flash.       *)
(***************************************************************************)
EXTENDS Integers

CONSTANTS Values, Revisions

VARIABLE settings

Init == settings \in [rev : 0..Revisions - 1, val : Values]

Change ==
  \E v \in Values :
    settings' = [rev |-> (settings.rev + 1) % Revisions, val |-> v]

Spec == Init /\ [][Change]_settings
=============================================================================
