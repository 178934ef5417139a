----------------------------- MODULE BondStore -----------------------------
(***************************************************************************)
(* The bond store of the bridge firmware: bond_store.c on top of NimBLE's  *)
(* store, the "remote" of bridge_peers.c and the security check of main.c. *)
(*                                                                         *)
(* NimBLE keeps every record in RAM and copies it to NVS, where the write  *)
(* may fail; a full table raises an overflow event that may evict a peer,  *)
(* and the write is tried again.  All of it runs on the NimBLE host task,  *)
(* so no other event comes between the writes of one pairing (queue # <<>> *)
(* below); power may be lost at any time.                                  *)
(*                                                                         *)
(* What is assumed of the constants is in BondTables.                      *)
(*                                                                         *)
(* A security table is the sequence of its peers by bond_count, oldest     *)
(* first; the table of CCCDs is in storage order.                          *)
(***************************************************************************)
EXTENDS Naturals, FiniteSets, SequencesExt

CONSTANTS
  Peers, None,
  MaxBonds,      \* CONFIG_BT_NIMBLE_MAX_BONDS: 4
  MaxCccds,      \* CONFIG_BT_NIMBLE_MAX_CCCDS
  MaxFailures,   \* entries of failures[]: 14
  MaxFaults      \* bound: writes of flash and deletions that fail

VARIABLES
  ram,       \* NimBLE's tables: [Types -> sequence of peers]
  nvs,       \* the security records that are in flash: [SecTypes -> set]
  remote,    \* the "remote" of bridge_peers, in flash
  conn,      \* the connected peer
  secured,   \* main.c called the link of this peer secured
  paired,    \* ghost: this connection has exchanged keys
  queue,     \* writes of the pairing under way: sequence of types
  full,      \* the write at the head of queue met a full table
  failures, results_exhausted,
  faults

storeVars  == <<ram, nvs>>
resultVars == <<failures, results_exhausted>>
linkVars   == <<conn, secured, paired>>
vars == <<storeVars, remote, linkVars, queue, full, resultVars, faults>>

SecTypes == {"our_sec", "peer_sec"}
Types    == SecTypes \union {"cccd"}
Limit(t) == IF t = "cccd" THEN MaxCccds ELSE MaxBonds
Holds(t, p) == p \in ToSet(ram[t])

TypeOK ==
  /\ ram \in [Types -> Seq(Peers)]
  /\ \A t \in Types : Len(ram[t]) <= Limit(t) /\ IsInjective(ram[t])
  /\ nvs \in [SecTypes -> SUBSET Peers]
  /\ remote \in Peers \union {None} /\ conn \in Peers \union {None}
  /\ secured \in {None, conn} /\ paired \in BOOLEAN
  /\ queue \in {<<>>, <<"our_sec", "peer_sec">>, <<"peer_sec">>, <<"cccd">>}
  /\ full \in BOOLEAN /\ (full => queue # <<>>)
  /\ failures \subseteq SecTypes \X Peers /\ Cardinality(failures) <= MaxFailures
  /\ results_exhausted \in BOOLEAN /\ faults \in 0..MaxFaults

Init ==
  /\ \E S \in SUBSET Peers, r \in Peers \union {None} :
       /\ Cardinality(S) <= MaxBonds
       /\ \E order \in SetToSeqs(S) :
            /\ ram = [t \in Types |-> IF t = "cccd" THEN <<>> ELSE order]
            /\ nvs = [t \in SecTypes |-> S]
            /\ remote = r
  /\ conn = None /\ secured = None /\ paired = FALSE
  /\ queue = <<>> /\ full = FALSE
  /\ failures = {} /\ results_exhausted = FALSE /\ faults = 0

-----------------------------------------------------------------------------
(* The results of the writes.                                              *)

\* Mutant: a failure that finds no free entry is dropped.
SecurityResult_Drops(t, p, failed) ==
  /\ IF ~failed THEN failures' = failures \ {<<t, p>>}
     ELSE IF Cardinality(failures) < MaxFailures
     THEN failures' = failures \union {<<t, p>>} ELSE UNCHANGED failures
  /\ UNCHANGED results_exhausted

\* security_result, for a security record: a table with no free entry makes
\* every peer suspect until the host resets.
SecurityResult(t, p, failed) ==
  IF t \notin SecTypes THEN UNCHANGED resultVars
  ELSE IF <<t, p>> \in failures \/ ~failed
  THEN /\ failures' = IF failed THEN failures ELSE failures \ {<<t, p>>}
       /\ UNCHANGED results_exhausted
  ELSE IF Cardinality(failures) = MaxFailures
  THEN results_exhausted' = TRUE /\ UNCHANGED failures
  ELSE failures' = failures \union {<<t, p>>} /\ UNCHANGED results_exhausted

\* bond_store_peer_ok
PeerOk(p) == ~results_exhausted /\ \A t \in SecTypes : <<t, p>> \notin failures

-----------------------------------------------------------------------------
(* Writing.                                                                *)

\* NimBLE: a record of a known peer is replaced, and its bond_count may be
\* renewed; a new one is appended.
Placed(t, p) ==
  {Append(RemoveFirst(ram[t], p), p)} \union (IF Holds(t, p) THEN {ram[t]} ELSE {})

\* The flash after a copy of the table s of t: the record written is there,
\* and one whose deletion had failed is not.
Copied(t, s) ==
  IF t = "cccd" THEN nvs ELSE [nvs EXCEPT ![t] = (@ \intersect ToSet(s)) \union {conn}]

\* Flash refuses once more.
Fault == faults < MaxFaults /\ faults' = faults + 1

\* bond_store_write for the head of the queue.  A full table is no result
\* yet; NimBLE raises the overflow event.  The copy to NVS may fail, and the
\* record is then in RAM only.
Write ==
  LET t == Head(queue) IN
  /\ queue # <<>> /\ ~full
  /\ IF ~Holds(t, conn) /\ Len(ram[t]) = Limit(t)
     THEN full' = TRUE /\ UNCHANGED <<ram, nvs, queue, resultVars, faults>>
     ELSE /\ \E s \in Placed(t, conn) : ram' = [ram EXCEPT ![t] = s]
          /\ queue' = Tail(queue) /\ UNCHANGED full
          /\ \/ /\ nvs' = Copied(t, ram'[t])
                /\ SecurityResult(t, conn, FALSE) /\ UNCHANGED faults
             \/ UNCHANGED nvs /\ SecurityResult(t, conn, TRUE) /\ Fault
  /\ UNCHANGED <<remote, linkVars>>

\* Mutant: a remembered peer counts as unprotected when it cannot be read.
Protected_Optimist(p, known) == p = conn \/ (known /\ p = remote)

\* protected_peer, when the remembered remote was read (known) or could not
\* be: then nobody but the connected peer, which is the target, is decided.
Protected(p, known) == p = conn \/ ~known \/ p = remote

\* Mutant: the youngest peer is evicted.
Oldest_Youngest(s, S, known) ==
  {p \in ToSet(s) \intersect S :
     /\ ~Protected(p, known)
     /\ \A i, j \in DOMAIN s :
          s[i] = p /\ j > i => s[j] \notin S \/ Protected(s[j], known)}

\* The first peer of s that is in S and not protected.
Oldest(s, S, known) ==
  {p \in ToSet(s) \intersect S :
     /\ ~Protected(p, known)
     /\ \A i, j \in DOMAIN s :
          s[i] = p /\ j < i => s[j] \notin S \/ Protected(s[j], known)}

\* select_record over the table of t.  The owner of a CCCD is as old as its
\* first security record; the two tables count apart, so that the oldest of
\* either may come first.  Owners without a bond come last.
Selected(t, known) ==
  LET owners == ToSet(ram["cccd"])
      bonded == Oldest(ram["our_sec"], owners, known)
                \union Oldest(ram["peer_sec"], owners \ ToSet(ram["our_sec"]), known)
  IN  IF t \in SecTypes THEN Oldest(ram[t], Peers, known)
      ELSE IF bonded # {} THEN bonded ELSE Oldest(ram["cccd"], Peers, known)

\* ble_store_util_delete_peer: the records go one type after the other.  It
\* may fail at any type, with the record gone from RAM and kept in NVS, and
\* it may find nothing under the address it was given.
Deleted(p, gone, kept) ==
  /\ ram' = [t \in Types |-> IF t \in gone THEN RemoveFirst(ram[t], p) ELSE ram[t]]
  /\ nvs' = [t \in SecTypes |-> IF t \in gone \ kept THEN nvs[t] \ {p} ELSE nvs[t]]

Failing == {<<{}, {}>>, <<{"our_sec"}, {"our_sec"}>>, <<{"our_sec"}, {}>>,
            <<SecTypes, {"peer_sec"}>>, <<SecTypes, {}>>}

\* The overflow callback gives up: the write has failed.
GiveUp ==
  /\ SecurityResult(Head(queue), conn, TRUE)
  /\ queue' = Tail(queue) /\ full' = FALSE

\* Mutant: the records are not counted again after the deletion.
Overflow_NoRecount ==
  LET t == Head(queue) IN
  /\ full
  /\ \E known \in BOOLEAN :
       IF Selected(t, known) = {} THEN GiveUp /\ UNCHANGED <<storeVars, faults>>
       ELSE \E p \in Selected(t, known) :
              \/ \E f \in Failing : Deleted(p, f[1], f[2]) /\ GiveUp /\ Fault
              \/ \E gone \in {Types, {}} :
                   /\ Deleted(p, gone, {}) /\ UNCHANGED faults
                   /\ full' = FALSE /\ UNCHANGED <<queue, resultVars>>
  /\ UNCHANGED <<remote, linkVars>>

\* bond_store_status, event OVERFLOW: select, delete, count again.  The
\* lookups may fail; if the table has not shrunk the write is not repeated.
Overflow ==
  LET t == Head(queue) IN
  /\ full
  /\ \E known \in BOOLEAN :
       IF Selected(t, known) = {} THEN GiveUp /\ UNCHANGED <<storeVars, faults>>
       ELSE \E p \in Selected(t, known) :
              \/ \E f \in Failing : Deleted(p, f[1], f[2]) /\ GiveUp /\ Fault
              \/ \E gone \in {Types, {}} :
                   /\ Deleted(p, gone, {}) /\ UNCHANGED faults
                   /\ IF Len(ram'[t]) < Len(ram[t])
                      THEN full' = FALSE /\ UNCHANGED <<queue, resultVars>>
                      ELSE GiveUp
  /\ UNCHANGED <<remote, linkVars>>

-----------------------------------------------------------------------------
(* The connection (main.c).                                                *)

Idle == queue = <<>>

Connected(p) ==
  /\ Idle /\ conn = None
  /\ conn' = p /\ secured' = None /\ paired' = FALSE
  /\ UNCHANGED <<storeVars, remote, queue, full, resultVars, faults>>

\* A pairing ends with the keys of both directions; with a stored key NimBLE
\* encrypts instead, and a repeated pairing is ignored (REPEAT_PAIRING).
KeysExchanged ==
  /\ Idle /\ conn # None /\ ~Holds("peer_sec", conn)
  /\ paired' = TRUE /\ queue' = <<"our_sec", "peer_sec">>
  /\ UNCHANGED <<storeVars, remote, conn, secured, full, resultVars, faults>>

\* A peer subscribes to a characteristic of the bridge.
Subscribed ==
  /\ Idle /\ conn # None /\ queue' = <<"cccd">>
  /\ UNCHANGED <<storeVars, remote, linkVars, full, resultVars, faults>>

\* The security check of log_connection, with read_peer_bond.
Trusted(bonded) == bonded /\ Holds("peer_sec", conn) /\ PeerOk(conn)

\* BLE_GAP_EVENT_ENC_CHANGE with success: a trusted peer is remembered
\* (bridge_peer_save may fail) and its client started.
Encrypted(bonded) ==
  /\ Idle /\ conn # None
  /\ IF Trusted(bonded)
     THEN secured' = conn /\ remote' \in {remote, conn}
     ELSE secured' = None /\ UNCHANGED remote
  /\ UNCHANGED <<storeVars, conn, paired, queue, full, resultVars, faults>>

\* Mutant: the client of the link is not stopped.
Disconnected_StaysSecured ==
  /\ Idle /\ conn # None
  /\ conn' = None /\ paired' = FALSE /\ UNCHANGED secured
  /\ failures' = {f \in failures : f[2] # conn}
  /\ UNCHANGED <<storeVars, remote, queue, full, results_exhausted, faults>>

\* Mutant: the results outlive the connection.
Disconnected_KeepsResults ==
  /\ Idle /\ conn # None
  /\ conn' = None /\ secured' = None /\ paired' = FALSE
  /\ UNCHANGED <<storeVars, remote, queue, full, resultVars, faults>>

\* BLE_GAP_EVENT_DISCONNECT with bond_store_clear_peer.
Disconnected ==
  /\ Idle /\ conn # None
  /\ conn' = None /\ secured' = None /\ paired' = FALSE
  /\ failures' = {f \in failures : f[2] # conn}
  /\ UNCHANGED <<storeVars, remote, queue, full, results_exhausted, faults>>

Fresh ==
  /\ conn' = None /\ secured' = None /\ paired' = FALSE
  /\ failures' = {} /\ results_exhausted' = FALSE
  /\ UNCHANGED <<nvs, remote, faults>>

\* on_reset with bond_store_reset_results; the tables in RAM stay.
HostReset == Idle /\ Fresh /\ UNCHANGED <<ram, queue, full>>

\* The peers of the table of t that are in flash, in their order in it.
Kept(t) ==
  {k \in SetToSeqs(ToSet(ram[t]) \intersect nvs[t]) :
     \A a, b \in DOMAIN ram[t] : a < b =>
       \A i, j \in DOMAIN k : k[i] = ram[t][a] /\ k[j] = ram[t][b] => i < j}

\* What a failed deletion left in flash.
LeftOver(t) == SetToSeqs(nvs[t] \ ToSet(ram[t]))

\* Power is lost; NimBLE reads the tables back from NVS.  What a failed
\* deletion left there is older than the rest.
Restored(t) == {left \o kept : left \in LeftOver(t), kept \in Kept(t)}

Restart ==
  /\ Fresh
  /\ \E our \in Restored("our_sec"), peer \in Restored("peer_sec") :
       ram' = [ram EXCEPT !["our_sec"] = our, !["peer_sec"] = peer]
  /\ queue' = <<>> /\ full' = FALSE

Next ==
  \/ Write \/ Overflow
  \/ \E p \in Peers : Connected(p)
  \/ KeysExchanged \/ Subscribed
  \/ \E bonded \in BOOLEAN : Encrypted(bonded)
  \/ Disconnected \/ HostReset \/ Restart

Spec == Init /\ [][Next]_vars /\ WF_vars(Write \/ Overflow)

-----------------------------------------------------------------------------
(* Properties.                                                             *)

\* docs/FIRMWARE.md:42: room is made at the cost of old inactive peers.  No
\* step but a loss of power takes a record of the remembered remote or of the
\* connected peer, whatever fails on the way, and the peer that loses its
\* record is the oldest one that is neither.
EvictsOldest ==
  [][full /\ conn' = conn =>
       (\A p \in Peers, t \in SecTypes :
         (Holds(t, p) /\ p \notin ToSet(ram'[t])) \/ p \in nvs[t] \ nvs'[t]
         => /\ p \notin {remote, conn}
            /\ t = Head(queue) => \A i, j \in 1..Len(ram[t]) :
                 ram[t][i] = p /\ j < i => ram[t][j] \in {remote, conn})]_vars

\* A link called secured that exchanged its keys itself has both records in
\* flash: no failed write, overflow or full result table lets it pass.  Of a
\* later link with a key from the table in RAM this is not said: it is called
\* secured although the copy to flash failed (SecuredIsStored).
PairedIsStored ==
  secured # None /\ paired => \A t \in SecTypes : secured \in nvs[t]

\* The key of the remembered remote that is in flash stays there, through
\* every eviction, failure and loss of power, until another is remembered.
RemoteKeepsBond ==
  [][(remote \in nvs["peer_sec"]) => (remote \in nvs'["peer_sec"])]_vars

\* The entries of the result table are those of the present link: no link is
\* judged by a failed write of an earlier one.  A table that was full is the
\* exception: results_exhausted outlives the link, and condemns every link
\* until the host resets (SecuredIsUnblamed).
ResultsAreOfLink == \A f \in failures : f[2] = conn

\* A link called secured has no failed write against it, and none is secured
\* from the moment the result table was found full until the host resets: not
\* when the failure comes after the check, by a write of the secured link.
SecuredIsUnblamed == secured # None => PeerOk(secured)

\* The writes of a pairing end, again and again: evicting and trying once more
\* does not go on for ever, even when a deletion frees nothing.
WritesEnd == []<>Idle

\* docs/FIRMWARE.md:38: after the first connection the bridge reconnects by
\* the stored bond.  Then the link of a peer whose keys are not in flash is
\* not called secured.
SecuredIsStored == secured # None => secured \in nvs["peer_sec"]

\* A link that made its key is secured only with its records in flash; a link
\* is judged by its own failed writes, and by a full result table for as long
\* as that is noted.
BondSafety ==
  /\ TypeOK
  /\ PairedIsStored
  /\ ResultsAreOfLink
  /\ SecuredIsUnblamed

\* Room is made at the cost of the right record.
EvictionIsRight ==
  /\ EvictsOldest
  /\ RemoteKeepsBond
=============================================================================
