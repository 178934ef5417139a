---------------------------- MODULE MCBondStore ----------------------------
(* The bond store on small instances for TLC.                              *)
EXTENDS BondTables

CONSTANTS p1, p2, p3
ThreePeers == {p1, p2, p3}
TwoPeers   == {p1, p2}

BondSpec == B!Spec

\* The claim of docs/FIRMWARE.md:38, which does not hold.
SecuredIsStored == B!SecuredIsStored
=============================================================================
