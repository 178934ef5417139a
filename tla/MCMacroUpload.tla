--------------------------- MODULE MCMacroUpload ---------------------------
(* Instances of MacroUpload: two applications on one slot; two macros of   *)
(* two chunks.                                                               *)
EXTENDS MacroUpload, TLC

MCSlotOf == [c \in Clients |-> CHOOSE s \in Slots : TRUE]
Swap == Permutations(Clients)
MCSizeTwo == [m \in Macros |-> 2]
=============================================================================
