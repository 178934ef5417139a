----------------------------- MODULE MCFeature -----------------------------
(* The feature channel on a small instance for TLC.                        *)
EXTENDS FeatureChannel

ChannelSpec == F!Spec
LiveSpec    == F!LiveSpec

\* The claim of usb_hid_test.c:121, which does not hold.
NoLateCommit == F!NoLateCommit
=============================================================================
