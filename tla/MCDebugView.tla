----------------------------- MODULE MCDebugView -----------------------------
(* Instances of DebugView: one button, one native key, two labels.           *)
EXTENDS DebugView
=============================================================================
