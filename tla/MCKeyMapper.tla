---------------------------- MODULE MCKeyMapper ----------------------------
(* Instances of KeyMapper: one device whose settings change, and two devices *)
(* that change places.                                                       *)
EXTENDS KeyMapper

CONSTANTS d1, d2, v1, v2

MCSerial == [d \in Devices |-> IF d = d1 THEN "A" ELSE "B"]
MCFirst == [d \in Devices |-> IF d = d1 THEN v2 ELSE v1]
MCNoSerial == ""

\* The commands on the way to a save on the wrong device: the answer to the
\* second macro request frees the controls of the first connect.
Script == <<"scan", "connect", "macro", "disconnect", "macro", "connect",
            "connect", "apply">>

Scripted ==
  clicks' = clicks
    \/ (commands' # <<>> /\ commands'[Len(commands')].cmd = Script[clicks'])
=============================================================================
