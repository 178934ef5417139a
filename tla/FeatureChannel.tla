--------------------------- MODULE FeatureChannel ---------------------------
(***************************************************************************)
(* The feature channel as a part, F, of a larger module: its actions and   *)
(* its specification have names of their own beside those of the component *)
(* it serves.  The proofs of KeymapProofs are about both.                  *)
(***************************************************************************)
EXTENDS Integers

CONSTANTS
  Contents,       \* of settings and macro commands
  Timeout, MaxCalls, MaxGeneration

ASSUME ChannelAssumption ==
  /\ Contents # {}
  /\ Timeout \in Nat \ {0} /\ MaxCalls \in Nat /\ MaxGeneration \in Nat

VARIABLES
  mounted, started, generation, busy, request, payload, result, deadline, done,
  event, caller, wait, owner, rc, stored, answer, calls, executing, answered,
  confirmed

F == INSTANCE Feature WITH Values <- Contents

\* An answer, the slot and the value read belong to one request (usb_hid.c,
\* feature_request and on_feature): Feature!RequestSafety.
RequestSafety == F!RequestSafety

\* A request whose caller gave up does no harm to those that come after it:
\* Feature!LateDoesNothing.
LateDoesNothing == F!LateDoesNothing

\* Neither a caller nor the slot waits for ever: Feature!RequestLiveness.
RequestLiveness == F!RequestLiveness
=============================================================================
