---------------------------- MODULE MCMouseFlow ----------------------------
(* One step per report, half steps of speed, a queue of two.               *)
EXTENDS MouseSlot
MCDeltas == -1..1

MouseSpec == M!Spec
MouseLiveSpec == M!LiveSpec
=============================================================================
