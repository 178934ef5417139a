----------------------------- MODULE BondTables -----------------------------
(***************************************************************************)
(* The bond store as a part, B, of a larger module: its actions and its    *)
(* specification have names of their own beside those of the link whose    *)
(* keys it keeps.  The proofs of BleLinkProofs are about both.             *)
(***************************************************************************)
EXTENDS Naturals, FiniteSets

CONSTANTS
  Addresses, Nobody,      \* Peers and None of BondStore
  MaxBonds, MaxCccds, MaxFailures, MaxFaults

ASSUME StoreAssumption ==
  /\ Nobody \notin Addresses /\ IsFiniteSet(Addresses)
  /\ MaxBonds \in Nat \ {0} /\ MaxCccds \in Nat \ {0} /\ MaxFailures \in Nat
  /\ MaxFaults \in Nat

VARIABLES
  ram, nvs, remote, conn, secured, paired, queue, full, failures,
  results_exhausted, faults

B == INSTANCE BondStore WITH Peers <- Addresses, None <- Nobody

\* A link that made its key is secured only with its records in flash, and is
\* judged by its own failed writes or a full result table (main.c,
\* log_connection; bond_store_peer_ok): BondStore!BondSafety.
BondSafety == B!BondSafety

\* Room is made at the cost of the oldest inactive peer, and the remembered
\* remote keeps its key (bond_store_status): BondStore!EvictionIsRight.
EvictionIsRight == B!EvictionIsRight

\* The writes of a pairing end (bond_store_status): BondStore!WritesEnd.
WritesEnd == B!WritesEnd
=============================================================================
