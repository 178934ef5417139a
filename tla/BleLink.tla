------------------------------ MODULE BleLink ------------------------------
(***************************************************************************)
(* The Bluetooth side of the bridge firmware, main.c, composed with the    *)
(* GATT client it starts and stops (HidClient): scanning for the remote,   *)
(* one connection attempt at a time, security, reconnection, and the loss  *)
(* and recovery of the BLE controller.                                     *)
(*                                                                         *)
(* Every handler runs on the NimBLE host task and is one step.  NimBLE,    *)
(* the controller and the remote are the environment: scan, trying, link,  *)
(* peer, secure, pairing, ltk and failed say what they do.  The timer      *)
(* scan_retry expires into the host task's event queue, so its event may   *)
(* still be queued when the timer is stopped or started again.             *)
(***************************************************************************)
EXTENDS HidClient, FiniteSets

CONSTANTS
  Devices,   \* Bluetooth peers that advertise
  None,      \* no device
  Packets,   \* advertisements they may send
  Capacity   \* CANDIDATE_CAPACITY: 8 in the code

ASSUME LinkAssumption ==
  /\ None \notin Devices /\ Capacity \in Nat \ {0}
  /\ Packets \subseteq [dev : Devices, response : BOOLEAN, connectable : BOOLEAN,
                        name : {"absent", "target", "other"}, hid : BOOLEAN]

VARIABLES
  \* environment
  scan,        \* GAP discovery is active
  trying,      \* device GAP is connecting to
  peer,        \* device at the other end of link
  secure,      \* link is encrypted and bonded
  ltk,         \* devices whose key is in the table of NimBLE (RAM; BondStore has the flash)
  failed,      \* bond_store: devices with a failed security write
  saved,       \* the "remote" of bridge_peers (flash)
  seen,        \* ghost: what each device advertised in this scan, until a connection
  \* static variables of main.c
  host_synced, connection_attempted, remote_conn,
  remote_identity,  \* None unless have_remote_identity
  candidates, next_candidate,
  \* scan_retry
  armed, due

gapVars   == <<scan, trying, peer, secure>>
storeVars == <<ltk, failed, saved>>
seekVars  == <<candidates, next_candidate, seen>>
mainVars  == <<host_synced, connection_attempted, remote_conn, remote_identity>>
timerVars == <<armed, due>>
vars == <<clientVars, link, gapVars, storeVars, seekVars, mainVars, timerVars>>

Peers == Devices \union {None}
Marks == [name : BOOLEAN, hid : BOOLEAN, connectable : BOOLEAN]
NoMarks == [name |-> FALSE, hid |-> FALSE, connectable |-> FALSE]
Slots == 0..Capacity-1

TypeOK ==
  /\ ClientOK
  /\ scan \in BOOLEAN /\ trying \in Peers /\ peer \in Peers
  /\ secure \in BOOLEAN
  /\ ltk \subseteq Devices /\ failed \subseteq Devices /\ saved \in Peers
  /\ seen \in [Devices -> Marks]
  /\ host_synced \in BOOLEAN /\ connection_attempted \in BOOLEAN
  /\ remote_conn \in Handles \union {NoConn} /\ remote_identity \in Peers
  /\ candidates \in [Slots -> [dev : Peers, marks : Marks]]
  /\ next_candidate \in Slots
  /\ armed \in BOOLEAN /\ due \in BOOLEAN

NoCandidates ==
  /\ candidates' = [i \in Slots |-> [dev |-> None, marks |-> NoMarks]]
  /\ next_candidate' = 0
  /\ seen' = [d \in Devices |-> NoMarks]

Init ==
  /\ InitClient /\ link = NoConn
  /\ scan = FALSE /\ trying = None /\ peer = None /\ secure = FALSE
  /\ ltk \in SUBSET Devices /\ saved \in Peers /\ failed = {}  \* any flash
  /\ seen = [d \in Devices |-> NoMarks]
  /\ host_synced = FALSE /\ connection_attempted = FALSE /\ remote_conn = NoConn
  /\ remote_identity = None
  /\ candidates = [i \in Slots |-> [dev |-> None, marks |-> NoMarks]]
  /\ next_candidate = 0
  /\ armed = FALSE /\ due = FALSE

-----------------------------------------------------------------------------
(* Scanning.                                                               *)

\* retry_scan, at a point where the flags are as given: (re)start the timer.
RetryScan(synced, attempted, conn) ==
  armed' = (armed \/ (synced /\ ~attempted /\ conn = NoConn))

\* start_scan with the flags as given: nothing while connecting, connected or
\* scanning; GAP may refuse, and then the timer is started.
StartScan(synced, attempted, conn) ==
  IF ~synced \/ attempted \/ conn # NoConn \/ scan
  THEN UNCHANGED <<scan, seekVars, armed>>
  ELSE /\ NoCandidates
       /\ \/ scan' = TRUE /\ UNCHANGED armed
          \/ scan' = FALSE /\ RetryScan(synced, attempted, conn)

TimerExpires ==
  /\ armed /\ armed' = FALSE /\ due' = TRUE
  /\ UNCHANGED <<clientVars, link, gapVars, storeVars, seekVars, mainVars>>

OnScanRetry ==
  /\ due /\ due' = FALSE
  /\ StartScan(host_synced, connection_attempted, remote_conn)
  /\ UNCHANGED <<clientVars, link, trying, peer, secure, storeVars, mainVars>>

\* Mutant: a failed request leaves the attempt reserved.
ConnectOnce_StaysReserved(d) ==
  \/ /\ armed' = TRUE
     /\ UNCHANGED <<scan, trying, connection_attempted>>
  \/ /\ scan' = FALSE
     /\ \/ trying' = d /\ connection_attempted' = TRUE /\ UNCHANGED armed
        \/ UNCHANGED trying /\ connection_attempted' = TRUE /\ UNCHANGED armed

\* connect_once: the attempt is reserved before the scan is cancelled, so a
\* DISC_COMPLETE from within the cancellation starts no timer.  The scan may
\* refuse to stop, and the connection may be refused.
ConnectOnce(d) ==
  \/ /\ RetryScan(host_synced, FALSE, remote_conn)
     /\ UNCHANGED <<scan, trying, connection_attempted>>
  \/ /\ scan' = FALSE
     /\ \/ trying' = d /\ connection_attempted' = TRUE /\ UNCHANGED armed
        \/ /\ RetryScan(host_synced, FALSE, remote_conn)
           /\ UNCHANGED <<trying, connection_attempted>>

Merge(m, p) ==
  [name |-> IF p.name = "absent" THEN m.name ELSE p.name = "target",
   hid |-> m.hid \/ p.hid,
   connectable |-> IF p.response THEN m.connectable ELSE p.connectable]

Complete(m) == m.name /\ m.hid /\ m.connectable

\* Mutant: the ring index does not wrap.
NextSlot_Unbounded == next_candidate + 1

\* candidates[next_candidate++ % CANDIDATE_CAPACITY]
NextSlot == (next_candidate + 1) % Capacity

\* Mutant: a packet of an unlisted device is merged into the slot it replaces.
SlotAfter_KeepsMarks(i, p) == [dev |-> p.dev, marks |-> Merge(candidates[i].marks, p)]

\* The slot i after packet p: a slot that changes hands forgets its device.
SlotAfter(i, p) ==
  [dev |-> p.dev,
   marks |-> Merge(IF candidates[i].dev = p.dev THEN candidates[i].marks ELSE NoMarks, p)]

\* The candidate part of log_advertisement: ADV and SCAN_RSP of one device
\* are merged in its slot; a new device takes the next slot of the ring.
Candidate(p) ==
  LET listed == {i \in Slots : candidates[i].dev = p.dev}
      i      == IF listed # {} THEN CHOOSE j \in listed : TRUE ELSE next_candidate
      slot   == SlotAfter(i, p)
  IN  IF listed = {} /\ p.name # "target" /\ ~p.hid /\ ~p.connectable
      THEN UNCHANGED <<candidates, next_candidate, scan, trying, connection_attempted, armed>>
      ELSE /\ candidates' = [candidates EXCEPT ![i] = slot]
           /\ next_candidate' = IF listed # {} THEN next_candidate ELSE NextSlot
           /\ IF Complete(slot.marks) THEN ConnectOnce(p.dev)
              ELSE UNCHANGED <<scan, trying, connection_attempted, armed>>

\* BLE_GAP_EVENT_DISC: an advertisement of the known remote is enough.
Advertisement(p) ==
  /\ scan
  /\ seen' = [seen EXCEPT ![p.dev] = Merge(@, p)]
  /\ IF connection_attempted \/ remote_conn # NoConn
     THEN UNCHANGED <<candidates, next_candidate, scan, trying, connection_attempted, armed>>
     ELSE IF p.connectable /\ ~p.response /\ remote_identity = p.dev
          THEN ConnectOnce(p.dev) /\ UNCHANGED <<candidates, next_candidate>>
          ELSE Candidate(p)
  /\ UNCHANGED <<clientVars, link, peer, secure, storeVars, host_synced,
                 remote_conn, remote_identity, due>>

\* BLE_GAP_EVENT_DISC_COMPLETE: the scan window is over.
ScanComplete ==
  /\ scan /\ scan' = FALSE
  /\ RetryScan(host_synced, connection_attempted, remote_conn)
  /\ UNCHANGED <<clientVars, link, trying, peer, secure, storeVars, seekVars,
                 mainVars, due>>

-----------------------------------------------------------------------------
(* The connection.                                                         *)

\* Mutant: a failed attempt is not followed by another scan.
ConnectFailed_Rests ==
  /\ trying # None /\ trying' = None
  /\ connection_attempted' = FALSE
  /\ UNCHANGED <<clientVars, link, scan, peer, secure, storeVars, seekVars,
                 host_synced, remote_conn, remote_identity, timerVars>>

\* BLE_GAP_EVENT_CONNECT with an error, the ten-second timeout among them.
ConnectFailed ==
  /\ trying # None /\ trying' = None
  /\ connection_attempted' = FALSE
  /\ RetryScan(host_synced, FALSE, remote_conn)
  /\ UNCHANGED <<clientVars, link, scan, peer, secure, storeVars, seekVars,
                 host_synced, remote_conn, remote_identity, due>>

\* BLE_GAP_EVENT_CONNECT: security is requested first.  If that is refused a
\* disconnect is requested; that request may be refused too, so a disconnect
\* may come after any handler or not at all.
Connected(h) ==
  /\ trying # None
  /\ trying' = None /\ link' = h /\ peer' = trying /\ secure' = FALSE
  /\ remote_conn' = h /\ connection_attempted' = FALSE
  /\ seen' = [d \in Devices |-> NoMarks]
  /\ UNCHANGED <<clientVars, scan, storeVars, candidates, next_candidate, host_synced,
                 remote_identity, timerVars>>

\* A pairing writes the keys of the peer through bond_store_write, one for
\* each direction, to the table and to flash; any of the writes may fail, and
\* a key whose copy to flash failed is still in the table.
KeysWritten ==
  /\ link # NoConn
  /\ \/ ltk' = ltk \union {peer} /\ failed' = failed \ {peer}
     \/ ltk' \in {ltk, ltk \union {peer}} /\ failed' = failed \union {peer}
  /\ UNCHANGED <<clientVars, link, gapVars, saved, seekVars, mainVars, timerVars>>

\* Mutant: the check of the key is forgotten.
Trusted_NoStore(bonded) == bonded

\* log_connection(handle, true): encrypted, bonded, the key in the table of
\* NimBLE and no write of this connection failed.  Whether the key also got to
\* flash is told by the results of the writes alone (BondStore).
Trusted(bonded) == bonded /\ peer \in ltk /\ peer \notin failed

\* BLE_GAP_EVENT_ENC_CHANGE with success: the identity is remembered (the
\* write to flash may fail) and the client starts; or it stops.  A refused
\* peer is not disconnected.
Encrypted(bonded) ==
  /\ link # NoConn
  /\ secure' = bonded
  /\ IF Trusted(bonded)
     THEN /\ remote_identity' = peer /\ saved' \in {saved, peer}
          /\ Started(link) /\ UNCHANGED <<ready, held>>
     ELSE Stopped(link) /\ UNCHANGED <<procs, remote_identity, saved>>
  /\ UNCHANGED <<table, link, scan, trying, peer, ltk, failed, seekVars,
                 host_synced, connection_attempted, remote_conn, timerVars>>

\* BLE_GAP_EVENT_ENC_CHANGE with an error: a disconnect is requested.
EncryptionFailed ==
  /\ link # NoConn
  /\ secure' = FALSE
  /\ Stopped(link)
  /\ UNCHANGED <<table, link, procs, scan, trying, peer, storeVars, seekVars, mainVars, timerVars>>

\* BLE_GAP_EVENT_DISCONNECT.  NimBLE ends the procedures of the connection
\* with an error before.
Disconnected ==
  /\ link # NoConn
  /\ link' = NoConn /\ peer' = None /\ secure' = FALSE
  /\ failed' = failed \ {peer} /\ procs' = <<>>
  /\ Stopped(link)
  /\ remote_conn' = NoConn /\ connection_attempted' = FALSE
  /\ RetryScan(host_synced, FALSE, NoConn)
  /\ UNCHANGED <<table, scan, trying, ltk, saved, seekVars, host_synced, remote_identity, due>>

-----------------------------------------------------------------------------
(* The controller.                                                         *)

\* on_sync: the address of the bridge is determined; if that fails, nothing
\* happens until the next reset.  The remembered remote counts only with its
\* key.  usb_hid_start is described in UsbHid.
OnSync ==
  /\ ~host_synced
  /\ host_synced' = TRUE /\ connection_attempted' = FALSE /\ remote_conn' = NoConn
  /\ remote_identity' = IF saved \in ltk THEN saved ELSE None
  /\ StartScan(TRUE, FALSE, NoConn)
  /\ UNCHANGED <<clientVars, link, trying, peer, secure, storeVars, due>>

\* on_reset: connection, attempt and scan ended with the controller, whether
\* their events came before or not.
OnReset ==
  /\ host_synced
  /\ scan' = FALSE /\ trying' = None
  /\ link' = NoConn /\ peer' = None /\ secure' = FALSE
  /\ procs' = <<>>
  /\ host_synced' = FALSE /\ armed' = FALSE /\ failed' = {}
  /\ IF remote_conn # NoConn THEN Stopped(remote_conn) ELSE UNCHANGED <<client, ready, held>>
  /\ remote_conn' = NoConn /\ connection_attempted' = FALSE
  /\ UNCHANGED <<table, ltk, saved, seekVars, remote_identity, due>>

-----------------------------------------------------------------------------
Gatt == Callback /\ UNCHANGED <<gapVars, storeVars, seekVars, mainVars, timerVars>>

Notified == OnNotify /\ UNCHANGED <<gapVars, storeVars, seekVars, mainVars, timerVars>>

Gap ==
  \/ \E p \in Packets : Advertisement(p)
  \/ ScanComplete \/ ConnectFailed
  \/ \E h \in Handles : Connected(h)
  \/ KeysWritten
  \/ \E bonded \in BOOLEAN : Encrypted(bonded)
  \/ EncryptionFailed \/ Disconnected

Next == Gatt \/ Notified \/ Gap \/ TimerExpires \/ OnScanRetry \/ OnSync \/ OnReset

Spec == Init /\ [][Next]_vars

(***************************************************************************)
(* Fairness.  The timer expires and its event is handled; GATT procedures  *)
(* are answered or time out; a connection attempt ends.  A scan that is    *)
(* started again and again is started at last.                             *)
(***************************************************************************)
Fairness ==
  /\ WF_vars(TimerExpires) /\ WF_vars(OnScanRetry) /\ SF_vars(OnScanRetry /\ scan')
  /\ WF_vars(Gatt)
  /\ WF_vars(ConnectFailed \/ \E h \in Handles : Connected(h))

LiveSpec == Spec /\ Fairness
-----------------------------------------------------------------------------
(* Properties.                                                             *)

\* The bridge never gives up: with a synced controller it has a connection, is
\* making one, scans, or has a timer that will scan, whichever of these failed
\* before and whatever came in between (retry_scan and all its callers).
Searching ==
  host_synced => \/ remote_conn # NoConn \/ connection_attempted
                 \/ scan \/ armed \/ due

\* The flags of main.c agree with the connection and the attempt there are: a
\* flag left set would stop the search for ever, one left clear would start a
\* second attempt beside the first.
FlagsAgree ==
  /\ remote_conn = link
  /\ connection_attempted <=> trying # None
  /\ trying # None => ~scan /\ link = NoConn

\* Only the remote is ever connected to: the known one, or a device that itself
\* showed the name, the HID service and a connectable advertisement, in however
\* many packets and between packets of however many other devices.
OnlyTheRemote ==
  trying # None => trying = remote_identity \/ Complete(seen[trying])

\* A session exists only on an encrypted and bonded connection whose key is in
\* the table of NimBLE; the client is stopped with the connection, with its security and
\* with the controller, in whatever order their events come (log_connection,
\* hid_client_stop and its callers).
SessionSecured ==
  client.started => client.conn = link /\ secure /\ peer \in ltk

\* Discovery ends: the session becomes ready, fails or is stopped; it never
\* waits for a callback that cannot come.
DiscoveryEnds == client.active ~> ready \/ ~client.active

\* While no connection exists the bridge scans again and again.
ScansAgain ==
  []<>(scan \/ link # NoConn \/ trying # None \/ ~host_synced)

\* The BLE side is always in one coherent state: the flags of main.c say what the
\* controller does, something will go on searching, and a session of the client
\* and the keys held through it stand on one secured connection.
LinkSafety ==
  /\ TypeOK
  /\ Searching
  /\ FlagsAgree
  /\ SessionSecured
  /\ HeldNeedsSession

\* The link never comes to rest half-way: neither the search for the remote nor
\* the discovery of its reports.
LinkLiveness ==
  /\ ScansAgain
  /\ DiscoveryEnds
=============================================================================
