----------------------------- MODULE HidClient -----------------------------
(***************************************************************************)
(* The GATT client of the bridge firmware, hid_client.c: over an encrypted *)
(* and bonded connection it discovers the HID service of the remote, its   *)
(* characteristics, the report map and the protocol mode, and then for one *)
(* report after the other its descriptors, its Report Reference and, for   *)
(* an input report, the subscription and its read-back.  Everything runs   *)
(* on the NimBLE host task: one callback is one step.                      *)
(*                                                                         *)
(* A GATT procedure that was requested keeps calling back whatever happens *)
(* to the session that requested it, until it ends or the connection       *)
(* breaks.  The only defence of the code is the test "current" and the     *)
(* handles a callback compares; a session may start while procedures of    *)
(* the previous session on the same connection are still under way.        *)
(*                                                                         *)
(* BleLink has the connection itself and calls Started and Stopped.        *)
(***************************************************************************)
EXTENDS Integers, Sequences

CONSTANTS
  Handles,   \* connection handles; the controller uses one again and again
  NoConn,    \* BLE_HS_CONN_HANDLE_NONE
  Tables,    \* attribute tables the remote may have
  MapLength, \* bound: blocks of the report map
  MaxProcs   \* procedures NimBLE keeps under way; 4 in its default build

\* A characteristic: kind, whether it notifies and has room for descriptors,
\* what its Report Reference says ("none" if it has no such descriptor), and
\* whether it has a CCCD.
Kinds == {"map", "mode", "report", "other"}
Characteristics ==
  [kind : Kinds, notify : BOOLEAN, range : BOOLEAN,
   ref : {"none", "keyboard", "mouse", "output"}, cccd : BOOLEAN]

ASSUME ClientAssumption ==
  /\ Tables \subseteq Seq(Characteristics)
  /\ NoConn \notin Handles
  /\ MapLength \in Nat \ {0} /\ MaxProcs \in Nat \ {0}

VARIABLES
  table,   \* the remote's HID characteristics, in handle order
  link,    \* the connection that exists, or NoConn
  client,  \* the static struct client
  procs,   \* GATT procedures under way; the remote answers in order
  ready,   \* remote_ready of the input engine
  held     \* the input engine holds a key of the remote

clientVars == <<table, client, procs, ready, held>>

ProcKinds == {"service", "chars", "map", "mode", "dscs", "ref", "write", "cccd"}
\* "pos" is the entry of chars[] given as the argument, "attr" the
\* characteristic whose value or descriptor is asked for.
Procs     == [kind : ProcKinds, pos : Nat, attr : Nat, at : Nat]

\* The memset of hid_client_start.
Cleared ==
  [started |-> FALSE, active |-> FALSE, listening |-> FALSE, conn |-> NoConn,
   service |-> FALSE,  \* service_start is set
   chars |-> <<>>,     \* chars[], as indices of the table
   map |-> 0, mode |-> 0, length |-> 0, layout |-> FALSE,
   index |-> 1,        \* report_index, from 1
   input |-> 0, subscribed |-> FALSE,
   described |-> {}, known |-> {}, accepted |-> {}]  \* fields of chars[]

ClientType ==
  [started : BOOLEAN, active : BOOLEAN, listening : BOOLEAN,
   conn : Handles \union {NoConn}, service : BOOLEAN, chars : Seq(1..Len(table)),
   map : 0..Len(table), mode : 0..Len(table), length : 0..MapLength,
   layout : BOOLEAN, index : Nat \ {0}, input : 0..Len(table), subscribed : BOOLEAN,
   described : SUBSET Nat, known : SUBSET Nat, accepted : SUBSET Nat]

ClientOK ==
  /\ table \in Tables
  /\ link \in Handles \union {NoConn}
  /\ procs \in Seq(Procs) /\ Len(procs) <= MaxProcs
  /\ ready \in BOOLEAN /\ held \in BOOLEAN
  /\ client \in ClientType
  /\ client.described \subseteq DOMAIN client.chars

InitClient ==
  /\ table \in Tables
  /\ client = Cleared /\ procs = <<>> /\ ready = FALSE /\ held = FALSE

-----------------------------------------------------------------------------
(* Sessions.                                                               *)

Proc(kind, pos, attr) == [kind |-> kind, pos |-> pos, attr |-> attr, at |-> 0]

\* A request and "requested": NimBLE may refuse it, and always does when it
\* has no procedure left.
Request(c, rest, p) ==
  \/ Len(rest) < MaxProcs /\ client' = c /\ procs' = Append(rest, p)
  \/ client' = [c EXCEPT !.active = FALSE] /\ procs' = rest

\* hid_client_start, called with the security gate passed.
Started(conn) ==
  IF client.started THEN UNCHANGED <<client, procs>>
  ELSE Request([Cleared EXCEPT !.started = TRUE, !.conn = conn, !.active = TRUE,
                               !.listening = TRUE],
               procs, Proc("service", 0, 0))

\* Mutant: stop leaves the engine as it was.
Stopped_KeepsKeys(conn) ==
  IF client.started /\ client.conn = conn
  THEN /\ client' = [client EXCEPT !.active = FALSE, !.listening = FALSE,
                                   !.started = FALSE, !.subscribed = FALSE]
       /\ ready' = FALSE /\ held' = held
  ELSE UNCHANGED <<client, ready, held>>

\* hid_client_stop; hid_input_remote_ready(false) releases every key.
Stopped(conn) ==
  IF client.started /\ client.conn = conn
  THEN /\ client' = [client EXCEPT !.active = FALSE, !.listening = FALSE,
                                   !.started = FALSE, !.subscribed = FALSE]
       /\ ready' = FALSE /\ held' = FALSE
  ELSE UNCHANGED <<client, ready, held>>

-----------------------------------------------------------------------------
(* Callbacks.                                                              *)

\* current(conn)
Current == client.active /\ client.conn = link

\* The remote answers the oldest procedure, which is of this kind.
Answer(kind) == procs # <<>> /\ Head(procs).kind = kind /\ Current

P    == Head(procs)
Rest == Tail(procs)

\* The procedure calls back again: in the same response or in a later one.
Again(p) == procs' \in {<<p>> \o Rest, Append(Rest, p)}

\* fail: the session is no longer active; the procedure is over, because it
\* ended or because the callback returned an error.
Fail == client' = [client EXCEPT !.active = FALSE] /\ procs' = Rest

\* Any callback of an active session that reports an error or finds data it
\* does not accept.
Refused ==
  /\ procs # <<>> /\ Current
  /\ Fail /\ UNCHANGED <<table, link, ready, held>>

\* A callback without a current session.  on_map ends its procedure, the
\* others let it go on.
Ignored ==
  /\ procs # <<>> /\ ~Current
  /\ \/ procs' = Rest
     \/ P.kind = "chars" /\ P.at < Len(table) /\ Again([P EXCEPT !.at = @ + 1])
     \/ P.kind = "dscs" /\ P.at = 0 /\ Again([P EXCEPT !.at = 1])
  /\ UNCHANGED <<table, link, client, ready, held>>

IsInput(k)  == table[k].ref \in {"keyboard", "mouse"}
Eligible(k) == table[k].kind = "report" /\ table[k].notify /\ table[k].range

\* The reports that are left, and what follows the last one: the remote is
\* ready if its keyboard report was subscribed.
Left(c) == {i \in c.index..Len(c.chars) : Eligible(c.chars[i])}

AllDone(c) ==
  /\ procs' = Rest
  /\ IF c.input # 0 /\ c.subscribed
     THEN client' = [c EXCEPT !.index = Len(c.chars) + 1] /\ ready' = TRUE
     ELSE client' = [c EXCEPT !.active = FALSE] /\ UNCHANGED ready

\* Mutant: reports behind one that is skipped are forgotten.
NextReport_StopsAtGap(c) ==
  IF c.index \in Left(c)
  THEN Request(c, Rest, Proc("dscs", c.index, c.chars[c.index])) /\ UNCHANGED ready
  ELSE AllDone(c)

\* next_report: skip to the next report that can notify.
NextReport(c) ==
  \/ \E i \in Left(c) :
       /\ \A j \in Left(c) : i <= j
       /\ Request([c EXCEPT !.index = i], Rest, Proc("dscs", i, c.chars[i]))
       /\ UNCHANGED ready
  \/ Left(c) = {} /\ AllDone(c)

\* on_service with a service: a second one is refused.
OnService ==
  /\ Answer("service")
  /\ IF client.service THEN Fail
     ELSE client' = [client EXCEPT !.service = TRUE] /\ Again(P)
  /\ UNCHANGED <<table, link, ready, held>>

OnServiceDone ==
  /\ Answer("service")
  /\ IF client.service THEN Request(client, Rest, Proc("chars", 0, 0)) ELSE Fail
  /\ UNCHANGED <<table, link, ready, held>>

\* on_characteristics with a characteristic: inside the service, behind the
\* last one, at most one report map and one protocol mode.
OnCharacteristic ==
  /\ Answer("chars") /\ P.at < Len(table)
  /\ LET k    == P.at + 1
         kind == table[k].kind
         n    == Len(client.chars)
     IN  IF /\ client.service /\ (n > 0 => k > client.chars[n])
            /\ ~(kind = "map" /\ client.map # 0) /\ ~(kind = "mode" /\ client.mode # 0)
         THEN /\ client' = [client EXCEPT
                              !.chars = Append(@, k),
                              !.map  = IF kind = "map" THEN k ELSE @,
                              !.mode = IF kind = "mode" THEN k ELSE @]
              /\ Again([P EXCEPT !.at = k])
         ELSE Fail
  /\ UNCHANGED <<table, link, ready, held>>

OnCharacteristicsDone ==
  /\ Answer("chars") /\ P.at = Len(table)
  /\ IF client.map # 0 THEN Request(client, Rest, Proc("map", 0, client.map)) ELSE Fail
  /\ UNCHANGED <<table, link, ready, held>>

\* on_map with a block: its handle and offset must be the ones expected.
OnMapBlock ==
  /\ Answer("map") /\ P.at < MapLength
  /\ IF P.attr = client.map /\ P.at = client.length
     THEN /\ client' = [client EXCEPT !.length = @ + 1]
          /\ Again([P EXCEPT !.at = @ + 1])
     ELSE Fail
  /\ UNCHANGED <<table, link, ready, held>>

\* on_map at the end: whether the keyboard layout is the known one.
OnMapDone ==
  /\ Answer("map")
  /\ IF client.length = 0 THEN Fail /\ UNCHANGED ready
     ELSE \E known \in BOOLEAN :
            LET c == [client EXCEPT !.layout = known]
            IN  IF c.mode # 0
                THEN Request(c, Rest, Proc("mode", 0, c.mode)) /\ UNCHANGED ready
                ELSE NextReport(c)
  /\ UNCHANGED <<table, link, held>>

OnProtocolMode ==
  /\ Answer("mode")
  /\ IF P.attr = client.mode THEN NextReport(client) ELSE Fail /\ UNCHANGED ready
  /\ UNCHANGED <<table, link, held>>

\* The argument of the procedure is the entry of the characteristic asked for.
Listed == P.pos \in DOMAIN client.chars /\ client.chars[P.pos] = P.attr

\* on_descriptors with the descriptors of a report: of that very report, and
\* not seen before.  A Report Reference or a CCCD may be missing.
OnDescriptors ==
  /\ Answer("dscs") /\ P.at = 0
  /\ IF Listed /\ P.pos \notin client.described
     THEN /\ client' = [client EXCEPT !.described = @ \union {P.pos}]
          /\ Again([P EXCEPT !.at = 1])
     ELSE Fail
  /\ UNCHANGED <<table, link, ready, held>>

Skipped == [client EXCEPT !.index = @ + 1]

\* Mutant: the end of the descriptors does not move on to the next report.
OnDescriptorsDone_Stays ==
  /\ Answer("dscs") /\ P.at = 1
  /\ IF P.pos \in client.described /\ table[client.chars[P.pos]].ref # "none"
     THEN Request(client, Rest, Proc("ref", P.pos, client.chars[P.pos])) /\ UNCHANGED ready
     ELSE client' = Skipped /\ procs' = Rest /\ UNCHANGED ready
  /\ UNCHANGED <<table, link, held>>

OnDescriptorsDone ==
  /\ Answer("dscs") /\ P.at = 1
  /\ IF P.pos \in client.described /\ table[client.chars[P.pos]].ref # "none"
     THEN Request(client, Rest, Proc("ref", P.pos, client.chars[P.pos])) /\ UNCHANGED ready
     ELSE NextReport(Skipped)
  /\ UNCHANGED <<table, link, held>>

\* on_reference: an input report needs a CCCD, and only one may be the
\* keyboard's; other reports are skipped.
OnReference ==
  /\ Answer("ref")
  /\ IF ~Listed \/ P.pos \notin client.described THEN Fail /\ UNCHANGED ready
     ELSE LET k == client.chars[P.pos]
              c == [client EXCEPT !.known = @ \union {P.pos},
                                  !.input = IF table[k].ref = "keyboard" THEN k ELSE @]
          IN  CASE ~IsInput(k) -> NextReport([Skipped EXCEPT !.known = @ \union {P.pos}])
                [] IsInput(k) /\ (\/ ~table[k].cccd
                                  \/ table[k].ref = "keyboard" /\ client.input \notin {0, k})
                     -> Fail /\ UNCHANGED ready
                [] OTHER -> Request(c, Rest, Proc("write", P.pos, k)) /\ UNCHANGED ready
  /\ UNCHANGED <<table, link, held>>

\* on_subscribed
OnSubscribed ==
  /\ Answer("write")
  /\ LET keyboard == P.pos \in client.known /\ table[client.chars[P.pos]].ref = "keyboard"
     IN  Request([client EXCEPT !.accepted = @ \union {P.pos},
                                !.subscribed = @ \/ keyboard],
                 Rest, Proc("cccd", P.pos, P.attr))
  /\ UNCHANGED <<table, link, ready, held>>

\* on_cccd_read: a value other than 01 00 is logged only.
OnCccdRead ==
  /\ Answer("cccd")
  /\ IF Listed /\ P.pos \in client.described THEN NextReport(Skipped) ELSE Fail /\ UNCHANGED ready
  /\ UNCHANGED <<table, link, held>>

\* hid_client_on_notify: a keyboard report of the remote that was seen to be
\* the keyboard's, in a known layout, reaches the input engine.  It needs
\* neither an active session nor a ready remote.
OnNotify ==
  /\ link # NoConn /\ client.listening /\ client.conn = link
  /\ client.input # 0 /\ client.layout
  /\ held' = ~held
  /\ UNCHANGED <<table, link, client, procs, ready>>

Callback ==
  \/ Refused \/ Ignored
  \/ OnService \/ OnServiceDone \/ OnCharacteristic \/ OnCharacteristicsDone
  \/ OnMapBlock \/ OnMapDone \/ OnProtocolMode
  \/ OnDescriptors \/ OnDescriptorsDone \/ OnReference
  \/ OnSubscribed \/ OnCccdRead

-----------------------------------------------------------------------------
(* Properties.                                                             *)

\* A remote that was reported ready has every input report it can notify
\* subscribed, the keyboard's among them: no skipped characteristic, missing
\* descriptor or late callback of an earlier session makes the client miss one
\* (next_report, hid_client_start).
ReadyIsComplete ==
  ready => /\ client.input # 0 /\ client.subscribed
           /\ \A k \in 1..Len(table) :
                Eligible(k) /\ IsInput(k)
                  => \E i \in client.accepted : i <= Len(client.chars) /\ client.chars[i] = k

\* Input reaches the engine only through a session on the connection there is,
\* and the key the remote held when it went away is released with the session:
\* nothing the remote did outlives it (hid_client_stop, on_reset).
HeldNeedsSession ==
  held \/ ready => client.started /\ client.listening /\ client.conn = link
=============================================================================
