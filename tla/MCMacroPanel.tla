---------------------------- MODULE MCMacroPanel ----------------------------
(* Two slots; one has the other macro than an empty editor. *)
EXTENDS MacroPanel

CONSTANTS s1, s2, m1, m2

MCFirst == [s \in Slots |-> IF s = s1 THEN m2 ELSE m1]
=============================================================================
