----------------------------- MODULE MouseSlot -----------------------------
(***************************************************************************)
(* The mouse slot as a part, M, of a larger module: its actions and its    *)
(* specification have names of their own beside those of the rest of the   *)
(* input engine.  The proofs of HidInputProofs are about both.             *)
(***************************************************************************)
EXTENDS Integers

CONSTANTS
  ClickStates, NoReport,      \* Buttons and None of MouseFlow
  Packet, Deltas, Unit, Speeds, QueueSize

VARIABLES
  slot, speed, current, home, out, up, relink, completed, host, held, owed, edges,
  quiet

M == INSTANCE MouseFlow
       WITH mouse <- slot, mode <- current, Buttons <- ClickStates, None <- NoReport

ASSUME MouseAssumption ==
  /\ 0 \in ClickStates
  /\ {Packet, Unit, QueueSize} \subseteq Nat \ {0}
  /\ Deltas \subseteq Int /\ Speeds \subseteq Nat /\ Unit \in Speeds
  /\ NoReport \notin M!Reports

\* Movement and clicks are exact at every step, and the mode, HOME and a replug
\* leave nothing behind (hid_input.c, hid_input_mouse and flush_mouse):
\* MouseFlow!MouseSafety.
MouseSafety == M!MouseSafety

\* The same while the user holds HOME, as the README of the repository has it:
\* MouseFlow!HeldIsStill.
HeldIsStill == M!HeldIsStill

\* Once everyone rests, all movement and the last buttons have arrived
\* (on_heartbeat): MouseFlow!Settles.
Settles == M!Settles
=============================================================================
