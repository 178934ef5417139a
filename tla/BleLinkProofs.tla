--------------------------- MODULE BleLinkProofs ---------------------------
(***************************************************************************)
(* Theorems of BleLink: the search never dies, the flags of main.c agree   *)
(* with the controller, only the remote is connected to, and a session     *)
(* exists on a secured connection only, for every number of devices,       *)
(* candidate slots, handles and attribute tables; with few procedures, a   *)
(* ready remote is complete.  The second half is about the store of the    *)
(* keys of those connections, B of BondTables: what a secured link rests   *)
(* on, and whose records an eviction may take.                             *)
(***************************************************************************)
EXTENDS BleLink, BondTables, FiniteSetTheorems, SequenceTheorems, TLAPS

-----------------------------------------------------------------------------
(* What a GATT callback of HidClient can change, for every attribute table *)
(* and every number of procedures under way.                               *)

\* A state the client may be left in: well-formed, and the same session.
Fits(c) == c \in ClientType /\ c.described \subseteq DOMAIN c.chars

Kept(c) ==
  /\ c.started = client.started /\ c.listening = client.listening
  /\ c.conn = client.conn /\ (c.active => client.active)

Good(c) == Fits(c) /\ Kept(c)

ProcsFit(ps) == ps \in Seq(Procs) /\ Len(ps) <= MaxProcs

-----------------------------------------------------------------------------
(* Procedures.                                                             *)

\* The oldest procedure and the others, of a list that is not empty.
LEMMA Oldest ==
  ASSUME ProcsFit(procs), procs # <<>>
  PROVE  P \in Procs /\ Rest \in Seq(Procs) /\ Len(Rest) < MaxProcs
BY ClientAssumption DEF ProcsFit, P, Rest

\* A procedure that calls back again takes the place it had.
LEMMA AgainFits ==
  ASSUME ProcsFit(procs), procs # <<>>, NEW p \in Procs, Again(p)
  PROVE  ProcsFit(procs')
<1>1. Rest \in Seq(Procs) /\ Len(Rest) < MaxProcs
  BY Oldest
<1>2. Len(Rest) \in Nat
  BY <1>1
<1>3. ProcsFit(Append(Rest, p))
  BY <1>1, <1>2, ClientAssumption DEF ProcsFit
<1>4. ProcsFit(<<p>> \o Rest)
  <2>1. <<p>> \in Seq(Procs) /\ Len(<<p>>) = 1
    OBVIOUS
  <2>2. <<p>> \o Rest \in Seq(Procs) /\ Len(<<p>> \o Rest) = 1 + Len(Rest)
    BY <2>1, <1>1
  <2> QED
    BY <2>2, <1>1, <1>2, ClientAssumption DEF ProcsFit
<1> QED
  BY <1>3, <1>4 DEF Again

\* A request, refused or not, leaves a good client and a list that fits.
LEMMA RequestGood ==
  ASSUME NEW c, Good(c), NEW rest \in Seq(Procs), Len(rest) <= MaxProcs,
         NEW p \in Procs, Request(c, rest, p)
  PROVE  Good(client') /\ ProcsFit(procs')
<1>1. CASE Len(rest) < MaxProcs /\ client' = c /\ procs' = Append(rest, p)
  BY <1>1, ClientAssumption DEF Good, Fits, Kept, ProcsFit
<1>2. CASE client' = [c EXCEPT !.active = FALSE] /\ procs' = rest
  <2>1. c \in ClientType
    BY DEF Good, Fits
  <2>2. Good(client')
    BY <2>1, <1>2 DEF Good, Fits, Kept, ClientType
  <2> QED
    BY <2>2, <1>2 DEF ProcsFit
<1> QED
  BY <1>1, <1>2 DEF Request

\* A failed callback.
LEMMA FailGood ==
  ASSUME ClientOK, procs # <<>>, Fail
  PROVE  Good(client') /\ ProcsFit(procs')
<1>1. ProcsFit(procs) /\ client \in ClientType /\ client.described \subseteq DOMAIN client.chars
  BY DEF ClientOK, ProcsFit
<1>2. ProcsFit(procs')
  BY <1>1, Oldest, ClientAssumption DEF Fail, ProcsFit
<1>3. Good(client')
  BY <1>1 DEF Fail, Good, Fits, Kept, ClientType
<1> QED
  BY <1>2, <1>3

\* The kinds and numbers of a procedure.
LEMMA ProcType ==
  ASSUME NEW kind \in ProcKinds, NEW pos \in Nat, NEW attr \in Nat
  PROVE  Proc(kind, pos, attr) \in Procs
BY DEF Proc, Procs

\* Moving on to the next report, or past the last one.
LEMMA NextReportGood ==
  ASSUME ClientOK, procs # <<>>, NEW c, Good(c), NextReport(c)
  PROVE  Good(client') /\ ProcsFit(procs') /\ ready' \in {ready, TRUE}
<1>1. ProcsFit(procs) /\ Rest \in Seq(Procs) /\ Len(Rest) <= MaxProcs
  <2>1. ProcsFit(procs)
    BY DEF ClientOK, ProcsFit
  <2>2. Rest \in Seq(Procs) /\ Len(Rest) < MaxProcs
    BY <2>1, Oldest
  <2>3. Len(Rest) \in Nat /\ MaxProcs \in Nat
    BY <2>2, ClientAssumption
  <2> QED
    BY <2>1, <2>2, <2>3
<1>2. c \in ClientType /\ c.described \subseteq DOMAIN c.chars /\ Kept(c)
  BY DEF Good, Fits
<1>3. c.chars \in Seq(1..Len(table)) /\ c.index \in Nat \ {0} /\ Len(c.chars) \in Nat
  BY <1>2 DEF ClientType
<1>4. ASSUME NEW i \in Left(c),
             Request([c EXCEPT !.index = i], Rest, Proc("dscs", i, c.chars[i])),
             UNCHANGED ready
      PROVE  Good(client') /\ ProcsFit(procs') /\ ready' \in {ready, TRUE}
  <2>1. i \in Nat \ {0} /\ i \in 1..Len(c.chars)
    BY <1>3 DEF Left
  <2>2. c.chars[i] \in 1..Len(table)
    BY <2>1, <1>3
  <2>3. Proc("dscs", i, c.chars[i]) \in Procs
    BY <2>1, <2>2, ProcType DEF ProcKinds
  <2>4. Good([c EXCEPT !.index = i])
    BY <2>1, <1>2 DEF Good, Fits, Kept, ClientType
  <2> QED
    BY <1>1, <1>4, <2>3, <2>4, RequestGood
<1>5. ASSUME AllDone(c)
      PROVE  Good(client') /\ ProcsFit(procs') /\ ready' \in {ready, TRUE}
  <2>1. ProcsFit(procs')
    BY <1>1, <1>5 DEF AllDone, ProcsFit
  <2>2. Good([c EXCEPT !.active = FALSE])
    BY <1>2 DEF Good, Fits, Kept, ClientType
  <2>3. ASSUME NEW n \in Nat \ {0}
        PROVE  Good([c EXCEPT !.index = n])
    BY <1>2 DEF Good, Fits, Kept, ClientType
  <2>4. Good([c EXCEPT !.index = Len(c.chars) + 1])
    <3>1. Len(c.chars) + 1 \in Nat \ {0}
      BY <1>3
    <3> QED
      BY <3>1, <2>3
  <2> QED
    BY <1>5, <2>1, <2>2, <2>4 DEF AllDone
<1> QED
  BY <1>4, <1>5 DEF NextReport

-----------------------------------------------------------------------------
(* Callbacks.                                                              *)

\* What a callback does: it leaves a client of the same session, and reports
\* the remote ready only while the session is active.
Orderly ==
  /\ Good(client') /\ ProcsFit(procs')
  /\ ready' = ready \/ (ready' = TRUE /\ client.active /\ client.conn = link)
  /\ held' = held /\ table' = table /\ link' = link

\* What every callback starts from.
LEMMA Begun ==
  ASSUME ClientOK, procs # <<>>
  PROVE  /\ ProcsFit(procs) /\ P \in Procs
         /\ Rest \in Seq(Procs) /\ Len(Rest) <= MaxProcs
         /\ client \in ClientType /\ Good(client)
<1>1. ProcsFit(procs) /\ client \in ClientType /\ Good(client)
  BY DEF ClientOK, ProcsFit, Good, Fits, Kept
<1>2. P \in Procs /\ Rest \in Seq(Procs) /\ Len(Rest) < MaxProcs
  BY <1>1, Oldest
<1>3. Len(Rest) \in Nat /\ MaxProcs \in Nat
  BY <1>2, ClientAssumption
<1> QED
  BY <1>1, <1>2, <1>3

\* A procedure that ended.
LEMMA RestFits ==
  ASSUME ClientOK, procs # <<>>, procs' = Rest
  PROVE  ProcsFit(procs')
BY Begun DEF ProcsFit

\* The same list of procedures, the oldest further on.
LEMMA FurtherFits ==
  ASSUME ClientOK, procs # <<>>, NEW n \in Nat, Again([P EXCEPT !.at = n])
  PROVE  ProcsFit(procs')
<1>1. [P EXCEPT !.at = n] \in Procs
  BY Begun DEF Procs
<1> QED
  BY <1>1, Begun, AgainFits

\* The next procedure of the chain.
LEMMA NextGood ==
  ASSUME ClientOK, procs # <<>>, NEW c, Good(c), NEW kind \in ProcKinds,
         NEW pos \in Nat, NEW attr \in Nat, Request(c, Rest, Proc(kind, pos, attr))
  PROVE  Good(client') /\ ProcsFit(procs')
<1>1. Proc(kind, pos, attr) \in Procs
  BY ProcType
<1>2. Rest \in Seq(Procs) /\ Len(Rest) <= MaxProcs
  BY Begun
<1> QED
  BY <1>1, <1>2, RequestGood

\* Callbacks with an error, or without a current session.
LEMMA OtherStep ==
  ASSUME ClientOK, Refused \/ Ignored
  PROVE  Orderly
<1>1. CASE Refused
  BY <1>1, FailGood DEF Refused, Orderly
<1>2. CASE Ignored
  <2>1. procs # <<>> /\ client' = client /\ UNCHANGED <<table, link, ready, held>>
    BY <1>2 DEF Ignored
  <2>2. Good(client')
    BY <2>1, Begun DEF Good, Fits, Kept
  <2>3. P.at \in Nat /\ P.at + 1 \in Nat
    BY <2>1, Begun DEF Procs
  <2>4. ProcsFit(procs')
    <3>1. CASE procs' = Rest
      BY <3>1, <2>1, RestFits
    <3>2. CASE Again([P EXCEPT !.at = P.at + 1])
      BY <3>2, <2>1, <2>3, FurtherFits
    <3>3. CASE Again([P EXCEPT !.at = 1])
      BY <3>3, <2>1, FurtherFits
    <3> QED
      BY <1>2, <3>1, <3>2, <3>3 DEF Ignored
  <2> QED
    BY <2>1, <2>2, <2>4 DEF Orderly
<1> QED
  BY <1>1, <1>2

LEMMA ServiceStep ==
  ASSUME ClientOK, OnService \/ OnServiceDone
  PROVE  Orderly
<1>1. procs # <<>>
  BY DEF OnService, OnServiceDone, Answer
<1>2. Good(client)
  BY <1>1, Begun
<1>3. ASSUME client' = [client EXCEPT !.service = TRUE], Again(P)
      PROVE  Good(client') /\ ProcsFit(procs')
  BY <1>1, <1>2, <1>3, Begun, AgainFits DEF Good, Fits, Kept, ClientType
<1>4. ASSUME Request(client, Rest, Proc("chars", 0, 0))
      PROVE  Good(client') /\ ProcsFit(procs')
  BY <1>1, <1>2, <1>4, NextGood DEF ProcKinds
<1>5. ASSUME Fail
      PROVE  Good(client') /\ ProcsFit(procs')
  BY <1>1, <1>5, FailGood
<1> QED
  BY <1>3, <1>4, <1>5 DEF OnService, OnServiceDone, Orderly

LEMMA CharacteristicsStep ==
  ASSUME ClientOK, OnCharacteristic \/ OnCharacteristicsDone
  PROVE  Orderly
<1>1. procs # <<>>
  BY DEF OnCharacteristic, OnCharacteristicsDone, Answer
<1>2. Good(client) /\ client \in ClientType /\ client.map \in Nat
  <2>1. Len(table) \in Nat
    BY ClientAssumption DEF ClientOK
  <2> QED
    BY <1>1, <2>1, Begun DEF ClientType
<1>3. P.at \in Nat /\ Len(table) \in Nat
  BY <1>1, Begun, ClientAssumption DEF Procs, ClientOK
<1>4. ASSUME NEW k \in 1..Len(table), NEW m \in 0..Len(table), NEW n \in 0..Len(table),
             client' = [client EXCEPT !.chars = Append(@, k), !.map = m, !.mode = n]
      PROVE  Good(client')
  <2>1. client.chars \in Seq(1..Len(table)) /\ client.described \subseteq DOMAIN client.chars
    BY <1>2 DEF Good, Fits, ClientType
  <2>2. Append(client.chars, k) \in Seq(1..Len(table))
    BY <2>1
  <2>3. DOMAIN client.chars \subseteq DOMAIN Append(client.chars, k)
    BY <2>1
  <2>4. client' \in ClientType
    BY <1>2, <1>4, <2>2 DEF ClientType
  <2>5. client'.chars = Append(client.chars, k) /\ client'.described = client.described
    BY <1>2, <1>4 DEF ClientType
  <2>6. Kept(client')
    BY <1>2, <1>4 DEF Kept, ClientType
  <2> QED
    BY <2>1, <2>3, <2>4, <2>5, <2>6 DEF Good, Fits
<1>5. ASSUME Fail
      PROVE  Good(client') /\ ProcsFit(procs')
  BY <1>1, <1>5, FailGood
<1>6. ASSUME Request(client, Rest, Proc("map", 0, client.map))
      PROVE  Good(client') /\ ProcsFit(procs')
  BY <1>1, <1>2, <1>6, NextGood DEF ProcKinds
<1>7. CASE OnCharacteristic
  <2> DEFINE k == P.at + 1
             kind == table[k].kind
             m == IF kind = "map" THEN k ELSE client.map
             n == IF kind = "mode" THEN k ELSE client.mode
  <2>1. \/ /\ client' = [client EXCEPT !.chars = Append(@, k), !.map = m, !.mode = n]
           /\ Again([P EXCEPT !.at = k])
        \/ Fail
    BY <1>7 DEF OnCharacteristic
  <2>2. k \in 1..Len(table) /\ k \in Nat
    BY <1>3, <1>7 DEF OnCharacteristic
  <2>3. m \in 0..Len(table) /\ n \in 0..Len(table)
    BY <1>2, <1>3, <2>2 DEF ClientType
  <2>4. ready' = ready /\ UNCHANGED <<table, link, held>>
    BY <1>7 DEF OnCharacteristic
  <2> HIDE DEF k, m, n
  <2>5. CASE Fail
    BY <1>5, <2>4, <2>5 DEF Orderly
  <2>6. CASE /\ client' = [client EXCEPT !.chars = Append(@, k), !.map = m, !.mode = n]
             /\ Again([P EXCEPT !.at = k])
    BY <1>1, <1>4, <2>2, <2>3, <2>4, <2>6, FurtherFits DEF Orderly
  <2> QED
    BY <2>1, <2>5, <2>6
<1>8. CASE OnCharacteristicsDone
  BY <1>5, <1>6, <1>8 DEF OnCharacteristicsDone, Orderly
<1> QED
  BY <1>7, <1>8

\* A callback that moves on to the next report.
LEMMA MovesOn ==
  ASSUME ClientOK, procs # <<>>, Current, NEW c, Good(c), NextReport(c),
         UNCHANGED <<table, link, held>>
  PROVE  Orderly
<1>1. Good(client') /\ ProcsFit(procs') /\ ready' \in {ready, TRUE}
  BY NextReportGood
<1> QED
  BY <1>1 DEF Orderly, Current

LEMMA MapStep ==
  ASSUME ClientOK, OnMapBlock \/ OnMapDone
  PROVE  Orderly
<1>1. procs # <<>> /\ Current /\ Good(client) /\ client \in ClientType
  BY Begun DEF OnMapBlock, OnMapDone, Answer
<1>2. P.at \in Nat /\ Len(table) \in Nat /\ MapLength \in Nat
  BY <1>1, Begun, ClientAssumption DEF Procs, ClientOK
<1>3. CASE OnMapBlock
  <2>1. CASE Fail
    BY <1>1, <1>3, <2>1, FailGood DEF OnMapBlock, Orderly
  <2>2. CASE /\ P.at = client.length /\ client' = [client EXCEPT !.length = @ + 1]
             /\ Again([P EXCEPT !.at = @ + 1])
    <3>1. client.length + 1 \in 0..MapLength /\ P.at + 1 \in Nat
      BY <1>2, <1>3, <2>2 DEF OnMapBlock
    <3>2. Good(client')
      BY <1>1, <2>2, <3>1 DEF Good, Fits, Kept, ClientType
    <3>3. ProcsFit(procs')
      BY <1>1, <2>2, <3>1, FurtherFits
    <3> QED
      BY <1>3, <3>2, <3>3 DEF OnMapBlock, Orderly
  <2> QED
    BY <1>3, <2>1, <2>2 DEF OnMapBlock
<1>4. CASE OnMapDone
  <2>1. CASE Fail /\ UNCHANGED ready
    BY <1>1, <1>4, <2>1, FailGood DEF OnMapDone, Orderly
  <2>2. ASSUME NEW known \in BOOLEAN,
               LET c == [client EXCEPT !.layout = known]
               IN  IF c.mode # 0
                   THEN Request(c, Rest, Proc("mode", 0, c.mode)) /\ UNCHANGED ready
                   ELSE NextReport(c)
        PROVE  Orderly
    <3> DEFINE c == [client EXCEPT !.layout = known]
    <3>1. Good(c) /\ c.mode \in Nat
      BY <1>1, <1>2 DEF Good, Fits, Kept, ClientType
    <3>2. UNCHANGED <<table, link, held>>
      BY <1>4 DEF OnMapDone
    <3> HIDE DEF c
    <3>3. CASE Request(c, Rest, Proc("mode", 0, c.mode)) /\ UNCHANGED ready
      BY <1>1, <3>1, <3>2, <3>3, NextGood DEF ProcKinds, Orderly
    <3>4. CASE NextReport(c)
      BY <1>1, <3>1, <3>2, <3>4, MovesOn
    <3> QED
      BY <2>2, <3>3, <3>4 DEF c
  <2> QED
    BY <1>4, <2>1, <2>2 DEF OnMapDone
<1> QED
  BY <1>3, <1>4

LEMMA ModeStep ==
  ASSUME ClientOK, OnProtocolMode
  PROVE  Orderly
<1>1. procs # <<>> /\ Current /\ Good(client) /\ UNCHANGED <<table, link, held>>
  BY Begun DEF OnProtocolMode, Answer
<1>2. CASE NextReport(client)
  BY <1>1, <1>2, MovesOn
<1>3. CASE Fail /\ UNCHANGED ready
  BY <1>1, <1>3, FailGood DEF Orderly
<1> QED
  BY <1>2, <1>3 DEF OnProtocolMode

\* The client with the report it is at skipped.
LEMMA SkippedGood ==
  ASSUME ClientOK
  PROVE  /\ Good(Skipped)
         /\ \A set \in SUBSET Nat : Good([Skipped EXCEPT !.known = set])
<1>1. client \in ClientType /\ client.described \subseteq DOMAIN client.chars
  BY DEF ClientOK
<1>2. client.index + 1 \in Nat \ {0}
  BY <1>1 DEF ClientType
<1>3. Good(Skipped)
  BY <1>1, <1>2 DEF Skipped, Good, Fits, Kept, ClientType
<1>4. ASSUME NEW set \in SUBSET Nat
      PROVE  Good([Skipped EXCEPT !.known = set])
  BY <1>3 DEF Good, Fits, Kept, ClientType
<1> QED
  BY <1>3, <1>4

LEMMA DescriptorsStep ==
  ASSUME ClientOK, OnDescriptors \/ OnDescriptorsDone
  PROVE  Orderly
<1>1. procs # <<>> /\ Current /\ Good(client) /\ client \in ClientType
  BY Begun DEF OnDescriptors, OnDescriptorsDone, Answer
<1>2. P.pos \in Nat /\ UNCHANGED <<table, link, held>>
  BY <1>1, Begun DEF Procs, OnDescriptors, OnDescriptorsDone
<1>3. CASE OnDescriptors
  <2>1. CASE Fail
    BY <1>1, <1>3, <2>1, FailGood DEF OnDescriptors, Orderly
  <2>2. CASE /\ Listed /\ client' = [client EXCEPT !.described = @ \union {P.pos}]
             /\ Again([P EXCEPT !.at = 1])
    <3>1. client.described \union {P.pos} \subseteq DOMAIN client.chars
      BY <1>1, <2>2 DEF Listed, Good, Fits
    <3>2. Good(client')
      BY <1>1, <1>2, <2>2, <3>1 DEF Good, Fits, Kept, ClientType
    <3>3. ProcsFit(procs')
      BY <1>1, <2>2, FurtherFits
    <3> QED
      BY <1>3, <3>2, <3>3 DEF OnDescriptors, Orderly
  <2> QED
    BY <1>3, <2>1, <2>2 DEF OnDescriptors
<1>4. CASE OnDescriptorsDone
  <2>1. CASE /\ P.pos \in client.described
             /\ Request(client, Rest, Proc("ref", P.pos, client.chars[P.pos]))
             /\ UNCHANGED ready
    <3>1. P.pos \in DOMAIN client.chars /\ client.chars \in Seq(1..Len(table))
      BY <1>1, <2>1 DEF Good, Fits, ClientType
    <3>2. client.chars[P.pos] \in Nat
      BY <3>1
    <3> QED
      BY <1>1, <1>2, <2>1, <3>2, NextGood DEF ProcKinds, Orderly
  <2>2. CASE NextReport(Skipped)
    BY <1>1, <1>2, <2>2, SkippedGood, MovesOn
  <2> QED
    BY <1>4, <2>1, <2>2 DEF OnDescriptorsDone
<1> QED
  BY <1>3, <1>4

LEMMA ReferenceStep ==
  ASSUME ClientOK, OnReference
  PROVE  Orderly
<1>1. procs # <<>> /\ Current /\ Good(client) /\ client \in ClientType
  BY Begun DEF OnReference, Answer
<1>2. P.pos \in Nat /\ UNCHANGED <<table, link, held>>
  BY <1>1, Begun DEF Procs, OnReference
<1>3. CASE Fail /\ UNCHANGED ready
  BY <1>1, <1>2, <1>3, FailGood DEF Orderly
<1>4. CASE Listed /\ ~(Fail /\ UNCHANGED ready)
  <2> DEFINE k == client.chars[P.pos]
             set == client.known \union {P.pos}
             input == IF table[k].ref = "keyboard" THEN k ELSE client.input
             c == [client EXCEPT !.known = set, !.input = input]
  <2>1. k \in 1..Len(table) /\ k \in Nat /\ Len(table) \in Nat
    <3>1. client.chars \in Seq(1..Len(table)) /\ P.pos \in DOMAIN client.chars
      BY <1>1, <1>4 DEF Listed, ClientType
    <3>2. Len(table) \in Nat
      BY ClientAssumption DEF ClientOK
    <3> QED
      BY <3>1, <3>2
  <2>2. set \in SUBSET Nat /\ input \in 0..Len(table)
    BY <1>1, <1>2, <2>1 DEF ClientType
  <2>3. \/ NextReport([Skipped EXCEPT !.known = set])
        \/ Request(c, Rest, Proc("write", P.pos, k)) /\ UNCHANGED ready
    <3>1. client.known = Skipped.known
      BY <1>1 DEF Skipped, ClientType
    <3> QED
      BY <1>4, <3>1 DEF OnReference
  <2> HIDE DEF k, set, input
  <2>4. Good(c)
    BY <1>1, <2>2 DEF Good, Fits, Kept, ClientType
  <2>5. CASE NextReport([Skipped EXCEPT !.known = set])
    BY <1>1, <1>2, <2>2, <2>5, SkippedGood, MovesOn
  <2> HIDE DEF c
  <2>6. CASE Request(c, Rest, Proc("write", P.pos, k)) /\ UNCHANGED ready
    BY <1>1, <1>2, <2>1, <2>4, <2>6, NextGood DEF ProcKinds, Orderly
  <2> QED
    BY <2>3, <2>5, <2>6
<1> QED
  BY <1>3, <1>4 DEF OnReference

LEMMA SubscriptionStep ==
  ASSUME ClientOK, OnSubscribed \/ OnCccdRead
  PROVE  Orderly
<1>1. procs # <<>> /\ Current /\ Good(client) /\ client \in ClientType
  BY Begun DEF OnSubscribed, OnCccdRead, Answer
<1>2. P.pos \in Nat /\ P.attr \in Nat /\ UNCHANGED <<table, link, held>>
  BY <1>1, Begun DEF Procs, OnSubscribed, OnCccdRead
<1>3. CASE OnSubscribed
  <2> DEFINE b == client.subscribed
                    \/ (P.pos \in client.known /\ table[client.chars[P.pos]].ref = "keyboard")
             c == [client EXCEPT !.accepted = @ \union {P.pos}, !.subscribed = b]
  <2>1. Request(c, Rest, Proc("cccd", P.pos, P.attr)) /\ ready' = ready
    BY <1>3 DEF OnSubscribed
  <2>2. b \in BOOLEAN
    OBVIOUS
  <2> HIDE DEF b
  <2>3. Good(c)
    BY <1>1, <1>2, <2>2 DEF Good, Fits, Kept, ClientType
  <2> HIDE DEF c
  <2> QED
    BY <1>1, <1>2, <2>1, <2>3, NextGood DEF ProcKinds, Orderly
<1>4. CASE OnCccdRead
  <2>1. CASE NextReport(Skipped)
    BY <1>1, <1>2, <2>1, SkippedGood, MovesOn
  <2>2. CASE Fail /\ UNCHANGED ready
    BY <1>1, <1>2, <2>2, FailGood DEF Orderly
  <2> QED
    BY <1>4, <2>1, <2>2 DEF OnCccdRead
<1> QED
  BY <1>3, <1>4

\* Every callback.
LEMMA CallbackStep ==
  ASSUME ClientOK, Callback
  PROVE  Orderly
BY OtherStep, ServiceStep, CharacteristicsStep, MapStep, ModeStep, DescriptorsStep,
   ReferenceStep, SubscriptionStep
   DEF Callback

-----------------------------------------------------------------------------
(* The handlers of main.c, the timer and the environment.                  *)

\* An unsynced controller does nothing.
Quiet == ~host_synced => link = NoConn /\ trying = None /\ ~scan

\* A connection has a peer and excludes a scan.
Apart == link # NoConn => ~scan /\ peer # None

LinkInv == FlagsAgree /\ Searching /\ Quiet /\ Apart

\* The flags of the client follow "started", which needs a connection.
ClientRuns ==
  /\ client.listening = client.started
  /\ client.active => client.started
  /\ client.started => link # NoConn

SessionInv == ClientRuns /\ SessionSecured /\ HeldNeedsSession

\* A device has one slot, and while a scan runs its slot shows nothing that
\* the device did not show, unless it is the known remote.
OneSlot ==
  \A i, j \in Slots :
    candidates[i].dev = candidates[j].dev /\ candidates[i].dev # None => i = j

Below(m, n) ==
  (m.name => n.name) /\ (m.hid => n.hid) /\ (m.connectable => n.connectable)

Covered ==
  scan => \A i \in Slots :
            candidates[i].dev \in Devices \ {remote_identity}
              => Below(candidates[i].marks, seen[candidates[i].dev])

\* No session.
Resting ==
  /\ client.started = FALSE /\ client.listening = FALSE /\ client.active = FALSE
  /\ ready = FALSE /\ held = FALSE

SeekInv == OneSlot /\ Covered /\ OnlyTheRemote

Inv == TypeOK /\ LinkInv /\ SessionInv /\ SeekInv

-----------------------------------------------------------------------------
(* Operators.                                                              *)

LEMMA SlotsFacts ==
  /\ Slots \subseteq Nat /\ 0 \in Slots
  /\ \A n \in Slots : (n + 1) % Capacity \in Slots
<1>1. Capacity \in Nat \ {0}
  BY LinkAssumption
<1>2. Slots \subseteq Nat /\ 0 \in Slots
  BY <1>1 DEF Slots
<1>3. ASSUME NEW n \in Slots
      PROVE  (n + 1) % Capacity \in Slots
  BY <1>1 DEF Slots
<1> QED
  BY <1>2, <1>3

\* Merging keeps the form and the order of marks.
LEMMA MergeFacts ==
  ASSUME NEW p \in Packets
  PROVE  /\ \A m \in Marks : Merge(m, p) \in Marks
         /\ \A m, n \in Marks : Below(m, n) => Below(Merge(m, p), Merge(n, p))
         /\ NoMarks \in Marks /\ \A n \in Marks : Below(NoMarks, n)
<1>1. p.response \in BOOLEAN /\ p.connectable \in BOOLEAN /\ p.hid \in BOOLEAN
      /\ p.dev \in Devices
  BY LinkAssumption
<1>2. ASSUME NEW m \in Marks
      PROVE  Merge(m, p) \in Marks
  BY <1>1 DEF Merge, Marks
<1>3. ASSUME NEW m \in Marks, NEW n \in Marks, Below(m, n)
      PROVE  Below(Merge(m, p), Merge(n, p))
  BY <1>1, <1>3 DEF Merge, Marks, Below
<1>4. NoMarks \in Marks /\ \A n \in Marks : Below(NoMarks, n)
  BY DEF NoMarks, Marks, Below
<1> QED
  BY <1>2, <1>3, <1>4

\* What a stopped client looks like.
LEMMA StoppedFacts ==
  ASSUME ClientOK, NEW over, Stopped(over)
  PROVE  /\ Fits(client') /\ ready' \in BOOLEAN /\ held' \in BOOLEAN
         /\ IF client.started /\ client.conn = over
            THEN Resting'
            ELSE client' = client /\ ready' = ready /\ held' = held
<1>1. client \in ClientType /\ client.described \subseteq DOMAIN client.chars
      /\ ready \in BOOLEAN /\ held \in BOOLEAN
  BY DEF ClientOK
<1>2. CASE client.started /\ client.conn = over
  <2>1. client' = [client EXCEPT !.active = FALSE, !.listening = FALSE,
                                 !.started = FALSE, !.subscribed = FALSE]
        /\ ready' = FALSE /\ held' = FALSE
    BY <1>2 DEF Stopped
  <2>2. client' \in ClientType /\ client'.described = client.described
        /\ client'.chars = client.chars
    BY <1>1, <2>1 DEF ClientType
  <2>3. Resting'
    BY <1>1, <2>1 DEF ClientType, Resting
  <2> QED
    BY <1>1, <1>2, <2>1, <2>2, <2>3 DEF Fits
<1>3. CASE ~(client.started /\ client.conn = over)
  BY <1>1, <1>3 DEF Stopped, Fits
<1> QED
  BY <1>2, <1>3

\* What a started client looks like.
LEMMA StartedFacts ==
  ASSUME ClientOK, link # NoConn, Started(link)
  PROVE  /\ Fits(client') /\ ProcsFit(procs')
         /\ IF client.started THEN client' = client /\ procs' = procs
            ELSE /\ client'.started = TRUE /\ client'.listening = TRUE
                 /\ client'.conn = link
<1>1. client \in ClientType /\ client.described \subseteq DOMAIN client.chars
      /\ ProcsFit(procs) /\ link \in Handles \union {NoConn}
  BY DEF ClientOK, ProcsFit
<1>2. CASE client.started
  BY <1>1, <1>2 DEF Started, Fits
<1>3. CASE ~client.started
  <2> DEFINE c == [Cleared EXCEPT !.started = TRUE, !.conn = link, !.active = TRUE,
                                  !.listening = TRUE]
             p == Proc("service", 0, 0)
  <2>1. Request(c, procs, p)
    BY <1>3 DEF Started
  <2>2. Len(table) \in Nat /\ MapLength \in Nat
    BY ClientAssumption DEF ClientOK
  <2>3. <<>> \in Seq(1..Len(table)) /\ DOMAIN <<>> = {}
    OBVIOUS
  <2>4. Fits(c) /\ c.started = TRUE /\ c.listening = TRUE /\ c.conn = link
    <3>1. Cleared \in ClientType
      BY <2>2, <2>3 DEF Cleared, ClientType
    <3>2. Cleared.described = {} /\ c.described = Cleared.described
      BY <3>1 DEF Cleared, ClientType
    <3>3. c \in ClientType /\ c.started = TRUE /\ c.listening = TRUE /\ c.conn = link
      BY <1>1, <3>1 DEF ClientType
    <3> QED
      BY <3>2, <3>3 DEF Fits
  <2>5. p \in Procs
    BY ProcType DEF ProcKinds
  <2> HIDE DEF c, p
  <2>6. CASE Len(procs) < MaxProcs /\ client' = c /\ procs' = Append(procs, p)
    BY <1>1, <1>3, <2>4, <2>5, <2>6, ClientAssumption DEF ProcsFit
  <2>7. CASE client' = [c EXCEPT !.active = FALSE] /\ procs' = procs
    BY <1>1, <1>3, <2>4, <2>7 DEF Fits, ClientType
  <2> QED
    BY <2>1, <2>6, <2>7 DEF Request
<1> QED
  BY <1>2, <1>3

\* The client part of the type invariant after a step.
LEMMA ClientNext ==
  ASSUME ClientOK, Fits(client'), ProcsFit(procs'), ready' \in BOOLEAN, held' \in BOOLEAN,
         table' = table, link' \in Handles \union {NoConn}
  PROVE  ClientOK'
<1>1. ClientType' = ClientType
  BY DEF ClientType
<1> QED
  BY <1>1 DEF ClientOK, Fits, ProcsFit

-----------------------------------------------------------------------------
(* Steps.                                                                  *)

\* GATT callbacks and notifications.
LEMMA GattStep ==
  ASSUME Inv, Gatt \/ Notified
  PROVE  Inv'
<1>1. ClientOK /\ UNCHANGED <<gapVars, storeVars, seekVars, mainVars, timerVars>>
  BY DEF Inv, TypeOK, Gatt, Notified
<1>2. UNCHANGED <<scan, trying, peer, secure, ltk, failed, saved, candidates,
                  next_candidate, seen, host_synced, connection_attempted, remote_conn,
                  remote_identity, armed, due>>
  BY <1>1 DEF gapVars, storeVars, seekVars, mainVars, timerVars
<1>3. CASE Gatt
  <2>1. Orderly
    BY <1>1, <1>3, CallbackStep DEF Gatt
  <2>2. ready \in BOOLEAN /\ held \in BOOLEAN /\ link \in Handles \union {NoConn}
    BY <1>1 DEF ClientOK
  <2>3. ClientOK'
    BY <1>1, <2>1, <2>2, ClientNext DEF Orderly, Good
  <2>4. TypeOK'
    BY <1>2, <2>3 DEF Inv, TypeOK
  <2>5. LinkInv' /\ SeekInv'
    BY <1>2, <2>1 DEF Inv, Orderly, LinkInv, FlagsAgree, Searching, Quiet, Apart,
       SeekInv, OneSlot, Covered, OnlyTheRemote
  <2>6. SessionInv'
    BY <1>2, <2>1 DEF Inv, Orderly, Good, Kept, SessionInv, ClientRuns, SessionSecured,
       HeldNeedsSession
  <2> QED
    BY <2>4, <2>5, <2>6 DEF Inv
<1>4. CASE Notified
  <2>1. held' = ~held /\ UNCHANGED <<table, link, client, procs, ready>>
        /\ client.listening /\ client.conn = link
    BY <1>4 DEF Notified, OnNotify
  <2>2. ClientOK'
    BY <1>1, <2>1 DEF ClientOK, ClientType
  <2>3. TypeOK'
    BY <1>2, <2>2 DEF Inv, TypeOK
  <2>4. LinkInv' /\ SeekInv'
    BY <1>2, <2>1 DEF Inv, LinkInv, FlagsAgree, Searching, Quiet, Apart,
       SeekInv, OneSlot, Covered, OnlyTheRemote
  <2>5. SessionInv'
    BY <1>2, <2>1 DEF Inv, SessionInv, ClientRuns, SessionSecured, HeldNeedsSession
  <2> QED
    BY <2>3, <2>4, <2>5 DEF Inv
<1> QED
  BY <1>3, <1>4

\* A step that leaves the client alone.
LEMMA ClientIdle ==
  ASSUME ClientOK, SessionInv, UNCHANGED clientVars, UNCHANGED link
  PROVE  /\ ClientOK' /\ ClientRuns' /\ HeldNeedsSession'
         /\ secure' = secure /\ peer' = peer /\ ltk \subseteq ltk' => SessionSecured'
<1>1. UNCHANGED <<table, client, procs, ready, held, link>>
  BY DEF clientVars
<1>2. ClientOK'
  BY <1>1 DEF ClientOK, ClientType
<1>3. ClientRuns' /\ HeldNeedsSession'
  BY <1>1 DEF SessionInv, ClientRuns, HeldNeedsSession
<1>4. ASSUME secure' = secure, peer' = peer, ltk \subseteq ltk'
      PROVE  SessionSecured'
  BY <1>1, <1>4 DEF SessionInv, SessionSecured
<1> QED
  BY <1>2, <1>3, <1>4

\* Without a session nothing is at stake.
LEMMA RestingSession == (Resting => SessionInv) /\ (Resting' => SessionInv')
BY DEF Resting, SessionInv, ClientRuns, SessionSecured, HeldNeedsSession

\* A scan that is started, or not, in a state of the flags that agrees.
LEMMA StartScanFacts ==
  ASSUME TypeOK, SeekInv, trying # None => ~scan /\ link = NoConn,
         NEW synced \in BOOLEAN, NEW attempted \in BOOLEAN, NEW handle,
         attempted <=> trying # None, trying' = trying,
         StartScan(synced, attempted, handle)
  PROVE  /\ scan' \in BOOLEAN /\ armed' \in BOOLEAN
         /\ candidates' \in [Slots -> [dev : Peers, marks : Marks]]
         /\ next_candidate' \in Slots /\ seen' \in [Devices -> Marks]
         /\ scan' /\ ~scan => synced /\ ~attempted /\ handle = NoConn
         /\ armed => armed'
         /\ synced => attempted \/ handle # NoConn \/ scan' \/ armed'
         /\ OneSlot'
         /\ (remote_identity' = remote_identity \/ ~scan) => Covered'
         /\ (remote_identity' = remote_identity \/ trying = None) => OnlyTheRemote'
<1> DEFINE idle == ~synced \/ attempted \/ handle # NoConn \/ scan
<1>1. CASE idle
  <2>1. UNCHANGED <<scan, seekVars, armed>>
    BY <1>1 DEF StartScan
  <2>2. UNCHANGED <<scan, candidates, next_candidate, seen, armed>>
    BY <2>1 DEF seekVars
  <2>3. OneSlot' /\ ((remote_identity' = remote_identity \/ ~scan) => Covered')
        /\ ((remote_identity' = remote_identity \/ trying = None) => OnlyTheRemote')
    BY <2>2 DEF SeekInv, OneSlot, Covered, OnlyTheRemote
  <2> QED
    BY <1>1, <2>2, <2>3 DEF TypeOK
<1>2. CASE ~idle
  <2>1. NoCandidates
    BY <1>2 DEF StartScan
  <2>2. \/ scan' = TRUE /\ armed' = armed
        \/ scan' = FALSE /\ armed' = TRUE
    BY <1>2 DEF StartScan, RetryScan
  <2>3. candidates' = [i \in Slots |-> [dev |-> None, marks |-> NoMarks]]
        /\ next_candidate' = 0 /\ seen' = [d \in Devices |-> NoMarks]
    BY <2>1 DEF NoCandidates
  <2>4. NoMarks \in Marks /\ None \in Peers /\ 0 \in Slots
    BY SlotsFacts DEF NoMarks, Marks, Peers
  <2>5. /\ candidates' \in [Slots -> [dev : Peers, marks : Marks]]
        /\ next_candidate' \in Slots /\ seen' \in [Devices -> Marks]
    BY <2>3, <2>4
  <2>6. \A i \in Slots : candidates'[i].dev = None
    BY <2>3
  <2>7. OneSlot' /\ Covered'
    BY <2>6, LinkAssumption DEF OneSlot, Covered
  <2>8. trying' = None
    BY <1>2
  <2>9. OnlyTheRemote'
    BY <2>8 DEF OnlyTheRemote
  <2> QED
    BY <1>2, <2>2, <2>5, <2>7, <2>9 DEF TypeOK
<1> QED
  BY <1>1, <1>2

\* The timer and the end of a scan.
LEMMA TimerStep ==
  ASSUME Inv, TimerExpires \/ ScanComplete
  PROVE  Inv'
<1>1. UNCHANGED clientVars /\ UNCHANGED link
  BY DEF TimerExpires, ScanComplete
<1>2. UNCHANGED <<trying, peer, secure, ltk, failed, saved, candidates, next_candidate,
                  seen, host_synced, connection_attempted, remote_conn, remote_identity>>
  BY DEF TimerExpires, ScanComplete, gapVars, storeVars, seekVars, mainVars
<1>3. ClientOK' /\ SessionInv'
  BY <1>1, <1>2, ClientIdle DEF Inv, TypeOK, SessionInv
<1>4. scan \in BOOLEAN /\ armed \in BOOLEAN /\ due \in BOOLEAN
      /\ host_synced \in BOOLEAN /\ connection_attempted \in BOOLEAN
  BY DEF Inv, TypeOK
<1>5. CASE TimerExpires
  <2>1. armed' = FALSE /\ due' = TRUE /\ scan' = scan
    BY <1>5 DEF TimerExpires, gapVars
  <2>2. TypeOK'
    BY <1>2, <1>3, <2>1 DEF Inv, TypeOK
  <2>3. LinkInv' /\ SeekInv'
    BY <1>1, <1>2, <2>1 DEF Inv, LinkInv, FlagsAgree, Searching, Quiet, Apart,
       SeekInv, OneSlot, Covered, OnlyTheRemote
  <2> QED
    BY <1>3, <2>2, <2>3 DEF Inv
<1>6. CASE ScanComplete
  <2>1. scan' = FALSE /\ due' = due
        /\ armed' = (armed \/ (host_synced /\ ~connection_attempted /\ remote_conn = NoConn))
    BY <1>6 DEF ScanComplete, RetryScan
  <2>2. TypeOK'
    BY <1>2, <1>3, <1>4, <2>1 DEF Inv, TypeOK
  <2>3. LinkInv' /\ SeekInv'
    BY <1>1, <1>2, <2>1 DEF Inv, LinkInv, FlagsAgree, Searching, Quiet, Apart,
       SeekInv, OneSlot, Covered, OnlyTheRemote
  <2> QED
    BY <1>3, <2>2, <2>3 DEF Inv
<1> QED
  BY <1>5, <1>6

\* The handlers that start a scan.
LEMMA ScanStep ==
  ASSUME Inv, OnScanRetry \/ OnSync
  PROVE  Inv'
<1>1. UNCHANGED clientVars /\ UNCHANGED link
  BY DEF OnScanRetry, OnSync
<1>2. UNCHANGED <<trying, peer, secure, ltk, failed, saved>>
  BY DEF OnScanRetry, OnSync, storeVars
<1>3. ClientOK' /\ SessionInv'
  BY <1>1, <1>2, ClientIdle DEF Inv, TypeOK, SessionInv
<1>4. TypeOK /\ SeekInv /\ (trying # None => ~scan /\ link = NoConn)
      /\ (connection_attempted <=> trying # None) /\ remote_conn = link
  BY DEF Inv, LinkInv, FlagsAgree
<1>5. CASE OnScanRetry
  <2>1. due' = FALSE /\ StartScan(host_synced, connection_attempted, remote_conn)
        /\ UNCHANGED <<host_synced, connection_attempted, remote_conn, remote_identity>>
    BY <1>5 DEF OnScanRetry, mainVars
  <2>2. /\ scan' \in BOOLEAN /\ armed' \in BOOLEAN
        /\ candidates' \in [Slots -> [dev : Peers, marks : Marks]]
        /\ next_candidate' \in Slots /\ seen' \in [Devices -> Marks]
        /\ scan' /\ ~scan => host_synced /\ ~connection_attempted /\ remote_conn = NoConn
        /\ armed => armed'
        /\ host_synced => connection_attempted \/ remote_conn # NoConn \/ scan' \/ armed'
        /\ SeekInv'
    BY <1>2, <1>4, <2>1, StartScanFacts DEF TypeOK, SeekInv
  <2>3. TypeOK'
    BY <1>2, <1>3, <1>4, <2>1, <2>2 DEF TypeOK
  <2>4. LinkInv'
    BY <1>1, <1>2, <1>4, <2>1, <2>2 DEF Inv, LinkInv, FlagsAgree, Searching, Quiet, Apart
  <2> QED
    BY <1>3, <2>2, <2>3, <2>4 DEF Inv
<1>6. CASE OnSync
  <2>1. /\ ~host_synced /\ host_synced' = TRUE /\ connection_attempted' = FALSE
        /\ remote_conn' = NoConn /\ remote_identity' \in {saved, None}
        /\ StartScan(TRUE, FALSE, NoConn) /\ due' = due
    BY <1>6 DEF OnSync
  <2>2. link = NoConn /\ trying = None /\ ~scan
    BY <2>1 DEF Inv, LinkInv, Quiet
  <2>3. /\ scan' \in BOOLEAN /\ armed' \in BOOLEAN
        /\ candidates' \in [Slots -> [dev : Peers, marks : Marks]]
        /\ next_candidate' \in Slots /\ seen' \in [Devices -> Marks]
        /\ scan' \/ armed'
        /\ SeekInv'
    BY <1>2, <1>4, <2>1, <2>2, StartScanFacts DEF SeekInv
  <2>4. TypeOK'
    BY <1>2, <1>3, <1>4, <2>1, <2>3 DEF TypeOK, Peers
  <2>5. LinkInv'
    BY <1>1, <1>2, <2>1, <2>2, <2>3 DEF LinkInv, FlagsAgree, Searching, Quiet, Apart
  <2> QED
    BY <1>3, <2>3, <2>4, <2>5 DEF Inv
<1> QED
  BY <1>5, <1>6

\* connect_once, of a device that showed that it is the remote.
LEMMA ConnectOnceFacts ==
  ASSUME TypeOK, ~connection_attempted, remote_conn = NoConn, NEW d \in Devices,
         ConnectOnce(d), trying = None, scan
  PROVE  /\ scan' \in BOOLEAN /\ trying' \in Peers /\ connection_attempted' \in BOOLEAN
         /\ armed' \in BOOLEAN /\ (scan' => scan)
         /\ connection_attempted' <=> trying' # None
         /\ trying' # None => ~scan' /\ trying' = d
         /\ host_synced => connection_attempted' \/ scan' \/ armed'
<1>1. scan = TRUE /\ armed \in BOOLEAN /\ connection_attempted = FALSE /\ host_synced \in BOOLEAN
      /\ d \in Peers /\ d # None /\ None \in Peers
  BY LinkAssumption DEF TypeOK, Peers
<1>2. CASE /\ armed' = (armed \/ host_synced)
           /\ UNCHANGED <<scan, trying, connection_attempted>>
  BY <1>1, <1>2
<1>3. CASE /\ scan' = FALSE
           /\ trying' = d /\ connection_attempted' = TRUE /\ UNCHANGED armed
  BY <1>1, <1>3
<1>4. CASE /\ scan' = FALSE /\ armed' = (armed \/ host_synced)
           /\ UNCHANGED <<trying, connection_attempted>>
  BY <1>1, <1>4
<1> QED
  BY <1>1, <1>2, <1>3, <1>4 DEF ConnectOnce, RetryScan

\* An advertisement.
LEMMA AdvertisementStep ==
  ASSUME Inv, NEW p \in Packets, Advertisement(p)
  PROVE  Inv'
<1>1. UNCHANGED <<clientVars, link, peer, secure, ltk, failed, saved, host_synced,
                  remote_conn, remote_identity, due>>
      /\ scan /\ seen' = [seen EXCEPT ![p.dev] = Merge(@, p)]
  BY DEF Advertisement, storeVars
<1>2. ClientOK' /\ SessionInv'
  BY <1>1, ClientIdle DEF Inv, TypeOK, SessionInv
<1>3. /\ TypeOK /\ OneSlot /\ Covered /\ trying = None /\ link = NoConn
      /\ ~connection_attempted /\ remote_conn = NoConn /\ host_synced
  BY <1>1 DEF Inv, LinkInv, FlagsAgree, Quiet, Apart, SeekInv
<1>4. p.dev \in Devices /\ p.dev # None
  BY LinkAssumption
<1>5. seen \in [Devices -> Marks] /\ seen' \in [Devices -> Marks]
      /\ seen'[p.dev] = Merge(seen[p.dev], p)
      /\ \A d \in Devices : d # p.dev => seen'[d] = seen[d]
  BY <1>1, <1>3, <1>4, MergeFacts DEF TypeOK
<1>6. \/ /\ ConnectOnce(p.dev) /\ remote_identity = p.dev
         /\ UNCHANGED <<candidates, next_candidate>>
      \/ Candidate(p)
  BY <1>3 DEF Advertisement
<1> DEFINE Kinds4 == /\ scan' \in BOOLEAN /\ trying' \in Peers
                     /\ connection_attempted' \in BOOLEAN /\ armed' \in BOOLEAN
                     /\ (connection_attempted' <=> trying' # None)
                     /\ (trying' # None => ~scan')
                     /\ connection_attempted' \/ scan' \/ armed'
                     /\ candidates' \in [Slots -> [dev : Peers, marks : Marks]]
                     /\ next_candidate' \in Slots
<1>7. ASSUME Kinds4
      PROVE  TypeOK' /\ LinkInv'
  <2>1. TypeOK'
    BY <1>1, <1>2, <1>3, <1>5, <1>7 DEF TypeOK
  <2>2. LinkInv'
    BY <1>1, <1>3, <1>7 DEF Inv, LinkInv, FlagsAgree, Searching, Quiet, Apart
  <2> QED
    BY <2>1, <2>2
<1>8. CASE /\ ConnectOnce(p.dev) /\ remote_identity = p.dev
           /\ UNCHANGED <<candidates, next_candidate>>
  <2>1. Kinds4
    BY <1>1, <1>3, <1>4, <1>8, ConnectOnceFacts DEF TypeOK
  <2>2. OneSlot' /\ Covered'
    BY <1>1, <1>3, <1>5, <1>8 DEF OneSlot, Covered
  <2>3. OnlyTheRemote'
    BY <1>1, <1>3, <1>4, <1>8, ConnectOnceFacts DEF OnlyTheRemote
  <2> QED
    BY <1>2, <1>7, <2>1, <2>2, <2>3 DEF Inv, SeekInv
<1>9. CASE Candidate(p)
  <2> DEFINE listed == {i \in Slots : candidates[i].dev = p.dev}
             i == IF listed # {} THEN CHOOSE j \in listed : TRUE ELSE next_candidate
             slot == SlotAfter(i, p)
  <2>1. i \in Slots /\ (listed # {} => candidates[i].dev = p.dev)
    BY <1>3 DEF TypeOK
  <2>2. candidates \in [Slots -> [dev : Peers, marks : Marks]]
    BY <1>3 DEF TypeOK
  <2>3. slot \in [dev : Peers, marks : Marks] /\ slot.dev = p.dev
    BY <1>4, <2>1, <2>2, MergeFacts DEF SlotAfter, Peers
  <2>4. \A j \in Slots : j # i => candidates[j].dev # p.dev
    <3>1. CASE listed # {}
      BY <1>3, <1>4, <2>1, <3>1 DEF OneSlot
    <3>2. CASE listed = {}
      BY <3>2
    <3> QED
      BY <3>1, <3>2
  <2>5. p.dev # remote_identity => Below(slot.marks, seen'[p.dev])
    <3>1. CASE candidates[i].dev = p.dev
      <4>1. slot.marks = Merge(candidates[i].marks, p) /\ candidates[i].marks \in Marks
        BY <2>1, <2>2, <3>1 DEF SlotAfter
      <4>2. p.dev # remote_identity => Below(candidates[i].marks, seen[p.dev])
        BY <1>1, <1>3, <1>4, <2>1, <3>1 DEF Covered
      <4> QED
        BY <1>4, <1>5, <4>1, <4>2, MergeFacts
    <3>2. CASE candidates[i].dev # p.dev
      <4>1. slot.marks = Merge(NoMarks, p)
        BY <3>2 DEF SlotAfter
      <4> QED
        BY <1>4, <1>5, <4>1, MergeFacts
    <3> QED
      BY <3>1, <3>2
  <2>6. \/ /\ listed = {}
           /\ UNCHANGED <<candidates, next_candidate, scan, trying, connection_attempted, armed>>
        \/ /\ candidates' = [candidates EXCEPT ![i] = slot]
           /\ next_candidate' \in {next_candidate, NextSlot}
           /\ \/ Complete(slot.marks) /\ ConnectOnce(p.dev)
              \/ UNCHANGED <<scan, trying, connection_attempted, armed>>
    BY <1>9 DEF Candidate
  <2>7. next_candidate \in Slots /\ NextSlot \in Slots
    BY <1>3, SlotsFacts DEF TypeOK, NextSlot
  <2> HIDE DEF i, slot
  <2>8. CASE /\ listed = {}
             /\ UNCHANGED <<candidates, next_candidate, scan, trying, connection_attempted, armed>>
    <3>1. Kinds4
      BY <1>1, <1>3, <2>8 DEF TypeOK
    <3>2. OneSlot' /\ OnlyTheRemote'
      BY <1>3, <2>8 DEF OneSlot, OnlyTheRemote
    <3>3. Covered'
      BY <1>1, <1>3, <1>5, <2>8 DEF Covered
    <3> QED
      BY <1>2, <1>7, <3>1, <3>2, <3>3 DEF Inv, SeekInv
  <2>9. CASE /\ candidates' = [candidates EXCEPT ![i] = slot]
             /\ next_candidate' \in {next_candidate, NextSlot}
             /\ \/ Complete(slot.marks) /\ ConnectOnce(p.dev)
                \/ UNCHANGED <<scan, trying, connection_attempted, armed>>
    <3>1. candidates' \in [Slots -> [dev : Peers, marks : Marks]]
          /\ candidates'[i] = slot /\ \A j \in Slots : j # i => candidates'[j] = candidates[j]
      BY <2>1, <2>2, <2>3, <2>9
    <3>2. Kinds4
      <4>1. next_candidate' \in Slots
        BY <2>7, <2>9
      <4>2. CASE UNCHANGED <<scan, trying, connection_attempted, armed>>
        BY <1>1, <1>3, <3>1, <4>1, <4>2 DEF TypeOK
      <4>3. CASE ConnectOnce(p.dev)
        BY <1>1, <1>3, <1>4, <3>1, <4>1, <4>3, ConnectOnceFacts
      <4> QED
        BY <2>9, <4>2, <4>3
    <3>3. OneSlot'
      BY <1>3, <2>1, <2>3, <2>4, <3>1 DEF OneSlot
    <3>4. Covered'
      <4> SUFFICES ASSUME NEW j \in Slots, candidates'[j].dev \in Devices \ {remote_identity}
                   PROVE  Below(candidates'[j].marks, seen'[candidates'[j].dev])
        BY <1>1 DEF Covered
      <4>1. CASE j = i
        BY <2>3, <2>5, <3>1, <4>1
      <4>2. CASE j # i
        BY <1>1, <1>3, <1>5, <2>4, <3>1, <4>2 DEF Covered
      <4> QED
        BY <4>1, <4>2
    <3>5. OnlyTheRemote'
      <4>1. CASE UNCHANGED <<scan, trying, connection_attempted, armed>>
        BY <1>3, <4>1 DEF OnlyTheRemote
      <4>2. CASE Complete(slot.marks) /\ ConnectOnce(p.dev)
        <5>1. trying' # None => trying' = p.dev
          BY <1>1, <1>3, <1>4, <4>2, ConnectOnceFacts
        <5>2. p.dev # remote_identity => Complete(seen'[p.dev])
          BY <2>5, <4>2 DEF Complete, Below
        <5> QED
          BY <1>1, <5>1, <5>2 DEF OnlyTheRemote
      <4> QED
        BY <2>9, <4>1, <4>2
    <3> QED
      BY <1>2, <1>7, <3>2, <3>3, <3>4, <3>5 DEF Inv, SeekInv
  <2> QED
    BY <2>6, <2>8, <2>9
<1> QED
  BY <1>6, <1>8, <1>9

\* The end of a connection attempt.
LEMMA ConnectStep ==
  ASSUME Inv, ConnectFailed \/ \E h \in Handles : Connected(h)
  PROVE  Inv'
<1>1. TypeOK /\ trying # None /\ trying' = None /\ connection_attempted' = FALSE
  BY DEF Inv, ConnectFailed, Connected
<1>2. /\ UNCHANGED <<clientVars, scan, ltk, failed, saved, candidates, next_candidate,
                      host_synced, remote_identity, due>>
      /\ seen' \in {seen, [d \in Devices |-> NoMarks]}
  <2>1. CASE ConnectFailed
    BY <2>1 DEF ConnectFailed, storeVars, seekVars
  <2>2. CASE \E h \in Handles : Connected(h)
    BY <2>2 DEF Connected, storeVars, timerVars
  <2> QED
    BY <2>1, <2>2
<1>3. UNCHANGED <<table, client, procs, ready, held>>
  BY <1>2 DEF clientVars
<1>4. ~scan /\ link = NoConn /\ remote_conn = NoConn /\ host_synced
  BY <1>1 DEF Inv, LinkInv, FlagsAgree, Quiet
<1>5. Resting
  <2>1. client \in ClientType /\ ready \in BOOLEAN /\ held \in BOOLEAN
    BY <1>1 DEF TypeOK, ClientOK
  <2>2. ~client.started /\ ~client.active /\ ~held /\ ~ready
        /\ client.listening = client.started
    BY <1>4 DEF Inv, SessionInv, ClientRuns, HeldNeedsSession
  <2> QED
    BY <2>1, <2>2 DEF Resting, ClientType
<1>6. /\ trying \in Devices /\ None \in Peers /\ trying \in Peers
      /\ seen' \in [Devices -> Marks]
  <2>1. trying \in Devices /\ None \in Peers /\ trying \in Peers
    BY <1>1 DEF TypeOK, Peers
  <2>2. NoMarks \in Marks
    BY DEF NoMarks, Marks
  <2>3. seen \in [Devices -> Marks]
    BY <1>1 DEF TypeOK
  <2> QED
    BY <1>2, <2>1, <2>2, <2>3
<1>7. SeekInv'
  BY <1>1, <1>2, <1>4 DEF Inv, SeekInv, OneSlot, Covered, OnlyTheRemote
<1>8. SessionInv'
  <2>1. Resting'
    BY <1>3, <1>5 DEF Resting
  <2> QED
    BY <2>1, RestingSession
<1>9. CASE ConnectFailed
  <2>1. UNCHANGED <<link, peer, secure, remote_conn>>
        /\ armed' = (armed \/ (host_synced /\ remote_conn = NoConn))
    BY <1>9 DEF ConnectFailed, RetryScan
  <2>2. ClientOK'
    BY <1>1, <1>3, <2>1 DEF TypeOK, ClientOK, ClientType
  <2>3. TypeOK'
    BY <1>1, <1>2, <1>6, <2>1, <2>2 DEF TypeOK
  <2>4. LinkInv'
    BY <1>1, <1>2, <1>4, <2>1 DEF Inv, LinkInv, FlagsAgree, Searching, Quiet, Apart
  <2> QED
    BY <1>7, <1>8, <2>3, <2>4 DEF Inv
<1>10. ASSUME NEW h \in Handles, Connected(h)
       PROVE  Inv'
  <2>1. link' = h /\ remote_conn' = h /\ peer' = trying /\ secure' = FALSE /\ armed' = armed
    BY <1>10 DEF Connected, timerVars
  <2>2. h # NoConn
    BY ClientAssumption
  <2>3. ClientOK'
    BY <1>1, <1>3, <2>1 DEF TypeOK, ClientOK, ClientType
  <2>4. TypeOK'
    BY <1>1, <1>2, <1>6, <2>1, <2>3 DEF TypeOK
  <2>5. LinkInv'
    BY <1>1, <1>2, <1>4, <2>1, <2>2 DEF LinkInv, FlagsAgree, Searching, Quiet, Apart
  <2> QED
    BY <1>7, <1>8, <2>4, <2>5 DEF Inv
<1> QED
  BY <1>9, <1>10

\* The events of an established connection.
LEMMA SecurityStep ==
  ASSUME Inv, KeysWritten \/ (\E bonded \in BOOLEAN : Encrypted(bonded)) \/ EncryptionFailed
  PROVE  Inv'
<1>1. TypeOK /\ ClientOK /\ link # NoConn
      /\ UNCHANGED <<table, link, scan, trying, peer, candidates, next_candidate, seen,
                     host_synced, connection_attempted, remote_conn, armed, due>>
  BY DEF Inv, TypeOK, KeysWritten, Encrypted, EncryptionFailed, clientVars, gapVars,
     storeVars, seekVars, mainVars, timerVars
<1>2. ~scan /\ trying = None /\ peer \in Devices /\ peer \in Peers
  BY <1>1 DEF Inv, LinkInv, FlagsAgree, Apart, TypeOK, Peers
<1>3. LinkInv'
  BY <1>1 DEF Inv, LinkInv, FlagsAgree, Searching, Quiet, Apart
<1>4. SeekInv'
  BY <1>1, <1>2 DEF Inv, SeekInv, OneSlot, Covered, OnlyTheRemote
<1>5. link \in Handles \union {NoConn} /\ ProcsFit(procs)
      /\ ready \in BOOLEAN /\ held \in BOOLEAN
  BY <1>1 DEF ClientOK, ProcsFit
<1>6. CASE KeysWritten
  <2>1. UNCHANGED clientVars /\ UNCHANGED <<secure, saved, remote_identity>>
        /\ ltk' \in {ltk, ltk \union {peer}}
        /\ failed' \in {failed \ {peer}, failed \union {peer}}
    BY <1>6 DEF KeysWritten, gapVars, mainVars
  <2>2. ClientOK' /\ SessionInv'
    BY <1>1, <2>1, ClientIdle DEF Inv, SessionInv
  <2>3. TypeOK'
    BY <1>1, <1>2, <2>1, <2>2 DEF TypeOK
  <2> QED
    BY <1>3, <1>4, <2>2, <2>3 DEF Inv
<1>7. ASSUME Stopped(link), procs' = procs, secure' \in BOOLEAN,
             UNCHANGED <<ltk, failed, saved, remote_identity>>
      PROVE  Inv'
  <2>1. ClientOK'
    BY <1>1, <1>5, <1>7, StoppedFacts, ClientNext DEF ProcsFit
  <2>2. TypeOK'
    BY <1>1, <1>7, <2>1 DEF TypeOK
  <2>3. SessionInv'
    <3>1. CASE client.started
      <4>1. client.conn = link
        BY <3>1 DEF Inv, SessionInv, SessionSecured
      <4> QED
        BY <1>1, <1>7, <3>1, <4>1, StoppedFacts, RestingSession
    <3>2. CASE ~client.started
      BY <1>1, <1>7, <3>2, StoppedFacts
         DEF Inv, SessionInv, ClientRuns, SessionSecured, HeldNeedsSession
    <3> QED
      BY <3>1, <3>2
  <2> QED
    BY <1>3, <1>4, <2>2, <2>3 DEF Inv
<1>8. CASE EncryptionFailed
  BY <1>7, <1>8 DEF EncryptionFailed, storeVars, mainVars
<1>9. ASSUME NEW bonded \in BOOLEAN, Encrypted(bonded)
      PROVE  Inv'
  <2>1. CASE ~Trusted(bonded)
    BY <1>7, <1>9, <2>1 DEF Encrypted
  <2>2. CASE Trusted(bonded)
    <3>1. /\ secure' = TRUE /\ peer \in ltk
          /\ remote_identity' = peer /\ saved' \in {saved, peer}
          /\ Started(link) /\ UNCHANGED <<ready, held, ltk, failed>>
      BY <1>9, <2>2 DEF Encrypted, Trusted
    <3>2. ClientOK'
      BY <1>1, <1>5, <3>1, StartedFacts, ClientNext
    <3>3. TypeOK'
      BY <1>1, <1>2, <3>1, <3>2 DEF TypeOK
    <3>4. SessionInv'
      <4>1. CASE client.started
        BY <1>1, <3>1, <4>1, StartedFacts
           DEF Inv, SessionInv, ClientRuns, SessionSecured, HeldNeedsSession
      <4>2. CASE ~client.started
        <5>1. ~ready /\ ~held
          BY <4>2 DEF Inv, SessionInv, HeldNeedsSession
        <5> QED
          BY <1>1, <3>1, <4>2, <5>1, StartedFacts
             DEF SessionInv, ClientRuns, SessionSecured, HeldNeedsSession
      <4> QED
        BY <4>1, <4>2
    <3> QED
      BY <1>3, <1>4, <3>3, <3>4 DEF Inv
  <2> QED
    BY <2>1, <2>2
<1> QED
  BY <1>6, <1>8, <1>9

\* The end of the connection, or of everything.
LEMMA EndStep ==
  ASSUME Inv, Disconnected \/ OnReset
  PROVE  Inv'
<1>1. /\ TypeOK /\ ClientOK
      /\ link' = NoConn /\ peer' = None /\ secure' = FALSE /\ procs' = <<>>
      /\ remote_conn' = NoConn /\ connection_attempted' = FALSE
      /\ UNCHANGED <<table, ltk, saved, candidates, next_candidate, seen, remote_identity, due>>
  BY DEF Inv, TypeOK, Disconnected, OnReset, seekVars
<1>2. ~client.started \/ client.conn = link
  BY DEF Inv, SessionInv, SessionSecured
<1>3. Stopped(link) \/ (link = NoConn /\ UNCHANGED <<client, ready, held>>)
  BY DEF Inv, LinkInv, FlagsAgree, Disconnected, OnReset
<1>4. Fits(client') /\ Resting'
  <2>1. ~client.started => Resting
    <3>1. client \in ClientType /\ ready \in BOOLEAN /\ held \in BOOLEAN
      BY <1>1 DEF ClientOK
    <3>2. /\ client.listening = client.started /\ (client.active => client.started)
          /\ held \/ ready => client.started
      BY DEF Inv, SessionInv, ClientRuns, HeldNeedsSession
    <3> QED
      BY <3>1, <3>2 DEF Resting, ClientType
  <2>2. CASE Stopped(link)
    <3>1. CASE client.started
      BY <1>1, <1>2, <2>2, <3>1, StoppedFacts
    <3>2. CASE ~client.started
      <4>1. Fits(client') /\ UNCHANGED <<client, ready, held>>
        BY <1>1, <2>2, <3>2, StoppedFacts
      <4> QED
        BY <2>1, <3>2, <4>1 DEF Resting
    <3> QED
      BY <3>1, <3>2
  <2>3. CASE link = NoConn /\ UNCHANGED <<client, ready, held>>
    <3>1. ~client.started
      BY <2>3 DEF Inv, SessionInv, ClientRuns
    <3> QED
      BY <1>1, <2>1, <2>3, <3>1 DEF Resting, ClientOK, Fits
  <2> QED
    BY <1>3, <2>2, <2>3
<1>5. ClientOK'
  <2>1. ProcsFit(<<>>)
    BY ClientAssumption DEF ProcsFit
  <2> QED
    BY <1>1, <1>4, <2>1, ClientNext DEF Resting
<1>6. SessionInv'
  BY <1>4, RestingSession
<1>7. trying' = None /\ scan' = FALSE /\ failed' \subseteq Devices /\ host_synced' \in BOOLEAN
      /\ armed' \in BOOLEAN /\ (host_synced' => armed')
  <2>1. CASE Disconnected
    <3>1. trying' = trying /\ scan' = scan /\ link # NoConn /\ host_synced' = host_synced
          /\ failed' = failed \ {peer} /\ armed' = (armed \/ host_synced)
      BY <2>1 DEF Disconnected, RetryScan
    <3>2. trying = None /\ scan = FALSE
      BY <1>1, <3>1 DEF Inv, LinkInv, FlagsAgree, Apart, TypeOK
    <3> QED
      BY <1>1, <3>1, <3>2 DEF TypeOK
  <2>2. CASE OnReset
    BY <2>2 DEF OnReset
  <2> QED
    BY <2>1, <2>2
<1>8. TypeOK'
  BY <1>1, <1>5, <1>7 DEF TypeOK, Peers
<1>9. LinkInv'
  BY <1>1, <1>7 DEF LinkInv, FlagsAgree, Searching, Quiet, Apart
<1>10. SeekInv'
  BY <1>1, <1>7 DEF Inv, SeekInv, OneSlot, Covered, OnlyTheRemote
<1> QED
  BY <1>6, <1>8, <1>9, <1>10 DEF Inv

-----------------------------------------------------------------------------
(* The invariant.                                                          *)

LEMMA InitInv == Init => Inv
<1> SUFFICES ASSUME Init PROVE Inv
  OBVIOUS
<1>1. table \in Tables /\ client = Cleared /\ procs = <<>> /\ ready = FALSE /\ held = FALSE
      /\ link = NoConn
  BY DEF Init, InitClient
<1>2. Len(table) \in Nat /\ MapLength \in Nat /\ MaxProcs \in Nat
  BY <1>1, ClientAssumption
<1>3. <<>> \in Seq(1..Len(table)) /\ <<>> \in Seq(Procs) /\ Len(<<>>) = 0
  OBVIOUS
<1>4. Cleared \in ClientType /\ Cleared.described = {}
  BY <1>2, <1>3 DEF Cleared, ClientType
<1>5. ClientOK
  <2>1. client.described \subseteq DOMAIN client.chars
    BY <1>1, <1>4
  <2>2. procs \in Seq(Procs) /\ Len(procs) <= MaxProcs
    BY <1>1, <1>2, <1>3
  <2> QED
    BY <1>1, <1>4, <2>1, <2>2 DEF ClientOK
<1>6. Resting
  BY <1>1 DEF Cleared, Resting
<1>7. NoMarks \in Marks /\ None \in Peers /\ 0 \in Slots
  BY SlotsFacts DEF NoMarks, Marks, Peers
<1>8. TypeOK
  BY <1>5, <1>7 DEF Init, TypeOK, Peers
<1>9. LinkInv
  BY DEF Init, LinkInv, FlagsAgree, Searching, Quiet, Apart
<1>10. SessionInv
  BY <1>6, RestingSession
<1>11. SeekInv
  <2>1. \A i \in Slots : candidates[i].dev = None
    BY DEF Init
  <2> QED
    BY <2>1 DEF Init, SeekInv, OneSlot, Covered, OnlyTheRemote
<1> QED
  BY <1>8, <1>9, <1>10, <1>11 DEF Inv

LEMMA IdleStep ==
  ASSUME Inv, UNCHANGED vars
  PROVE  Inv'
<1>1. UNCHANGED clientVars /\ UNCHANGED link
  BY DEF vars
<1>2. UNCHANGED <<scan, trying, peer, secure, ltk, failed, saved, candidates,
                  next_candidate, seen, host_synced, connection_attempted, remote_conn,
                  remote_identity, armed, due>>
  BY DEF vars, gapVars, storeVars, seekVars, mainVars, timerVars
<1>3. ClientOK' /\ SessionInv'
  BY <1>1, <1>2, ClientIdle DEF Inv, TypeOK, SessionInv
<1>4. TypeOK'
  BY <1>2, <1>3 DEF Inv, TypeOK
<1>5. LinkInv' /\ SeekInv'
  BY <1>1, <1>2 DEF Inv, LinkInv, FlagsAgree, Searching, Quiet, Apart,
     SeekInv, OneSlot, Covered, OnlyTheRemote
<1> QED
  BY <1>3, <1>4, <1>5 DEF Inv

LEMMA InvHolds == Spec => []Inv
<1>1. Inv /\ [Next]_vars => Inv'
  BY GattStep, TimerStep, ScanStep, AdvertisementStep, ConnectStep, SecurityStep,
     EndStep, IdleStep
     DEF Next, Gap
<1> QED
  BY <1>1, InitInv, PTL DEF Spec

\* Every variable has its type, and the ring index stays in candidates[].
THEOREM LinkTypeCorrect == Spec => []TypeOK
<1>1. Inv => TypeOK
  BY DEF Inv
<1> QED
  BY <1>1, InvHolds, PTL

\* With a synced controller the bridge is connected, connecting, scanning, or
\* has a timer that will scan (retry_scan and all its callers).
THEOREM SearchNeverDies == Spec => []Searching
<1>1. Inv => Searching
  BY DEF Inv, LinkInv
<1> QED
  BY <1>1, InvHolds, PTL

\* remote_conn and connection_attempted say what the controller does, and an
\* attempt excludes a scan and a connection.
THEOREM FlagsAlwaysAgree == Spec => []FlagsAgree
<1>1. Inv => FlagsAgree
  BY DEF Inv, LinkInv
<1> QED
  BY <1>1, InvHolds, PTL

\* No device is connected to but the remote: log_advertisement never puts
\* together what two devices showed.
THEOREM OnlyTheRemoteConnects == Spec => []OnlyTheRemote
<1>1. Inv => OnlyTheRemote
  BY DEF Inv, SeekInv
<1> QED
  BY <1>1, InvHolds, PTL

\* The client is started on an encrypted, bonded connection with a stored key
\* only, and stopped whenever one of these ends.
THEOREM SessionsAreSecured == Spec => []SessionSecured
<1>1. Inv => SessionSecured
  BY DEF Inv, SessionInv
<1> QED
  BY <1>1, InvHolds, PTL

\* A key of the remote is held, and the remote is ready, only during a session
\* on the connection there is.
THEOREM NothingOutlivesSession == Spec => []HeldNeedsSession
<1>1. Inv => HeldNeedsSession
  BY DEF Inv, SessionInv
<1> QED
  BY <1>1, InvHolds, PTL

\* The whole BLE side is in a coherent state at every step: its flags, its
\* search, its session and the keys held through it.
THEOREM LinkIsSafe == Spec => []LinkSafety
<1>1. TypeOK /\ Searching /\ FlagsAgree /\ SessionSecured /\ HeldNeedsSession
      => LinkSafety
  BY DEF LinkSafety
<1> QED
  BY <1>1, LinkTypeCorrect, SearchNeverDies, FlagsAlwaysAgree,
     SessionsAreSecured, NothingOutlivesSession, PTL

-----------------------------------------------------------------------------
(* A ready remote is complete.  Procedures of earlier sessions on the same *)
(* connection call back in the session there is.  Either they leave it     *)
(* alone, or one of them has come between: then something is under way     *)
(* that fails it before the keyboard is subscribed.                        *)

\* NimBLE's default for the procedures it keeps, which the build leaves alone.
FewProcs == MaxProcs <= 4

All == 1..Len(procs)

Kind(n, kind) == procs[n].kind = kind

\* A procedure that may still list the characteristics from the first one.
Early(p) == p.kind = "service" \/ (p.kind = "chars" /\ p.at = 0)

\* A request for the report map or the protocol mode names a characteristic.
Addressed == \A n \in All : procs[n].kind \in {"map", "mode"} => procs[n].attr # 0

EmptyClient ==
  client.chars = <<>> => client.map = 0 /\ client.mode = 0 /\ client.length = 0

Unsubscribed == client.known = {} /\ client.input = 0 /\ ~client.subscribed

\* The session waits for its first answer, the one of q.  What was there before
\* fails it, is over, or leaves a read of a CCCD behind q.
WaitsAt(q) == Kind(q, "service") /\ \A n \in q+1..Len(procs) : Kind(n, "cccd")

Waiting ==
  /\ ~client.service /\ client.chars = <<>> /\ Unsubscribed /\ client.index = 1
  /\ \E q \in All : WaitsAt(q)

\* The session has the connection to itself and comes to its only procedure in
\* the order of the code; the input reports before "index" are subscribed.
Accepted(n) == \A j \in 1..n-1 : Eligible(j) /\ IsInput(j) => j \in client.accepted

Listing(n) == Len(client.chars) = n /\ \A i \in 1..n : client.chars[i] = i

ReportTurn(p) ==
  /\ Listing(Len(table)) /\ p.pos = client.index /\ client.index <= Len(table)
  /\ Accepted(client.index)
  /\ p.kind = "dscs" /\ p.at # 0 => p.pos \in client.described
  /\ p.kind = "cccd" => client.index \in client.accepted

Turn(p) ==
  /\ p.kind = "service" => client.chars = <<>> /\ client.index = 1
  /\ p.kind = "chars" => Listing(p.at) /\ client.index = 1
  /\ p.kind \in {"map", "mode"} => Listing(Len(table)) /\ client.index = 1
  /\ p.kind \in {"dscs", "ref", "write", "cccd"} => ReportTurn(p)

Alone == Len(procs) = 1 /\ client.service /\ Turn(procs[1])

\* An earlier procedure found the service for the session: its own search, at
\* q, is still to be answered, and will ask for the characteristics again.
\* Nothing before q gets as far as a subscription.
Unread(q) ==
  /\ client.chars = <<>> => \A i, j, l \in 1..q-1 :
       i < j /\ j < l => ~(Kind(i, "chars") /\ Kind(j, "dscs") /\ procs[j].at = 0 /\ Kind(l, "ref"))
  /\ client.chars # <<>> /\ client.described = {} => \A j, l \in 1..q-1 :
       j < l => ~(Kind(j, "dscs") /\ procs[j].at = 0 /\ Kind(l, "ref"))
  /\ client.described # {} => \A l \in 1..q-1 : ~Kind(l, "ref")

\* As long as nothing is listed there is another procedure that will list.
Another(q) ==
  client.chars = <<>> =>
    /\ \A n \in q+1..Len(procs) : Early(procs[n]) \/ Kind(n, "cccd")
    /\ (\E n \in q+1..Len(procs) : Early(procs[n])) \/ (Kind(1, "service") /\ 1 < q)

SearchesAt(q) ==
  /\ Kind(q, "service") /\ Unread(q) /\ Another(q)
  /\ \A n \in q+1..Len(procs) : ~Kind(n, "write")

SearchesTwice == client.service /\ Unsubscribed /\ \E q \in All : SearchesAt(q)

\* Two procedures will list the characteristics, and nothing else is under way.
ListsTwice ==
  /\ client.service /\ client.chars = <<>> /\ Unsubscribed
  /\ \A n \in All : Early(procs[n]) \/ Kind(n, "cccd")
  /\ \E i, j \in All : i < j /\ Early(procs[i]) /\ Early(procs[j])

\* A list that has begun is begun again, at b.
ListsAt(b) ==
  Kind(b, "chars") /\ procs[b].at = 0 /\ \A n \in 1..b-1 : ~Kind(n, "write")

ListsAgain ==
  client.service /\ client.chars # <<>> /\ ~client.subscribed /\ \E b \in All : ListsAt(b)

\* A CCCD of an earlier session is read before anything is listed.
ReadsEarly ==
  /\ client.service /\ client.chars = <<>> /\ ~client.subscribed /\ procs # <<>>
  /\ \/ Kind(1, "cccd")
     \/ Kind(1, "service") /\ 1 < Len(procs) /\ Kind(2, "cccd")

Discovering ==
  Waiting \/ Alone \/ SearchesTwice \/ ListsTwice \/ ListsAgain \/ ReadsEarly

ReadyInv == ReadyIsComplete /\ (ready => procs = <<>>)

CompleteInv ==
  /\ Addressed /\ EmptyClient /\ ReadyInv
  /\ client.active => ready \/ Discovering

-----------------------------------------------------------------------------
(* What a callback of an active session does to the list of procedures.    *)

\* The oldest is over and p comes last, or p takes the place of the oldest.
Followed(p) ==
  /\ Len(procs') = Len(procs) /\ procs'[Len(procs)] = p
  /\ \A n \in 1..Len(procs)-1 : procs'[n] = procs[n + 1]

Stays(p) ==
  /\ Len(procs') = Len(procs) /\ procs'[1] = p
  /\ \A n \in 2..Len(procs) : procs'[n] = procs[n]

Moved(p) == Followed(p) \/ Stays(p)

LEMMA FollowedFacts ==
  ASSUME ClientOK, procs # <<>>, NEW p \in Procs, procs' = Append(Rest, p)
  PROVE  Followed(p)
<1>1. procs \in Seq(Procs) /\ Rest \in Seq(Procs) /\ Rest = Tail(procs)
  BY Begun DEF ClientOK, Rest
<1>2. Len(procs) \in Nat \ {0} /\ Len(Rest) = Len(procs) - 1
  BY <1>1
<1>3. \A n \in 1..Len(procs)-1 : Rest[n] = procs[n + 1]
  BY <1>1
<1>4. Len(procs') = Len(procs) /\ procs'[Len(procs)] = p
  BY <1>1, <1>2
<1>5. \A n \in 1..Len(procs)-1 : procs'[n] = Rest[n]
  BY <1>1, <1>2
<1> QED
  BY <1>3, <1>4, <1>5 DEF Followed

LEMMA StaysFacts ==
  ASSUME ClientOK, procs # <<>>, NEW p \in Procs, procs' = <<p>> \o Rest
  PROVE  Stays(p)
<1>1. procs \in Seq(Procs) /\ Rest \in Seq(Procs) /\ Rest = Tail(procs)
  BY Begun DEF ClientOK, Rest
<1>2. Len(procs) \in Nat \ {0} /\ Len(Rest) = Len(procs) - 1
  BY <1>1
<1>3. \A n \in 1..Len(procs)-1 : Rest[n] = procs[n + 1]
  BY <1>1
<1>4. <<p>> \in Seq(Procs) /\ Len(<<p>>) = 1 /\ <<p>>[1] = p
  OBVIOUS
<1>5. Len(procs') = Len(procs) /\ procs'[1] = p
  BY <1>1, <1>2, <1>4
<1>6. \A n \in 2..Len(procs) : procs'[n] = procs[n]
  <2> SUFFICES ASSUME NEW n \in 2..Len(procs) PROVE procs'[n] = procs[n]
    OBVIOUS
  <2>1. procs'[n] = Rest[n - 1]
    BY <1>1, <1>2, <1>4
  <2>2. n - 1 \in 1..Len(procs)-1 /\ n - 1 + 1 = n
    BY <1>2
  <2> QED
    BY <2>1, <2>2, <1>3
<1> QED
  BY <1>5, <1>6 DEF Stays

LEMMA AgainMoves ==
  ASSUME ClientOK, procs # <<>>, NEW p \in Procs, Again(p)
  PROVE  Moved(p)
BY FollowedFacts, StaysFacts DEF Again, Moved

LEMMA RequestMoves ==
  ASSUME ClientOK, procs # <<>>, NEW c \in ClientType, NEW kind \in ProcKinds,
         NEW pos \in Nat, NEW attr \in Nat, Request(c, Rest, Proc(kind, pos, attr)),
         client'.active
  PROVE  client' = c /\ Followed(Proc(kind, pos, attr))
<1>1. CASE client' = [c EXCEPT !.active = FALSE]
  BY <1>1 DEF ClientType
<1>2. CASE client' = c /\ procs' = Append(Rest, Proc(kind, pos, attr))
  BY <1>2, FollowedFacts, ProcType
<1> QED
  BY <1>1, <1>2 DEF Request

LEMMA FailMoves ==
  ASSUME ClientOK, Fail
  PROVE  ~client'.active /\ client'.chars = client.chars /\ client'.map = client.map
         /\ client'.mode = client.mode /\ client'.length = client.length
         /\ procs' = Rest
BY DEF ClientOK, Fail, ClientType

\* The next report there is, or the last one was passed.
LEMMA NextReportMoves ==
  ASSUME ClientOK, procs # <<>>, NEW c \in ClientType, NextReport(c), client'.active
  PROVE  \/ /\ Left(c) = {} /\ c.input # 0 /\ c.subscribed /\ ready' = TRUE
            /\ client' = [c EXCEPT !.index = Len(c.chars) + 1] /\ procs' = Rest
         \/ \E i \in Left(c) :
              /\ \A j \in Left(c) : i <= j
              /\ client' = [c EXCEPT !.index = i] /\ ready' = ready
              /\ i \in 1..Len(c.chars) /\ c.chars[i] \in 1..Len(table)
              /\ Followed(Proc("dscs", i, c.chars[i]))
<1>1. c.chars \in Seq(1..Len(table)) /\ c.index \in Nat \ {0} /\ Len(c.chars) \in Nat
  BY DEF ClientType
<1>2. ASSUME NEW i \in Left(c), \A j \in Left(c) : i <= j,
             Request([c EXCEPT !.index = i], Rest, Proc("dscs", i, c.chars[i])),
             UNCHANGED ready
      PROVE  /\ client' = [c EXCEPT !.index = i]
             /\ i \in 1..Len(c.chars) /\ c.chars[i] \in 1..Len(table)
             /\ Followed(Proc("dscs", i, c.chars[i]))
  <2>1. i \in Nat \ {0} /\ i \in 1..Len(c.chars)
    BY <1>1 DEF Left
  <2>2. c.chars[i] \in 1..Len(table) /\ c.chars[i] \in Nat
    BY <1>1, <2>1
  <2>3. [c EXCEPT !.index = i] \in ClientType
    BY <2>1 DEF ClientType
  <2>4. "dscs" \in ProcKinds
    BY DEF ProcKinds
  <2> QED
    BY <1>2, <2>1, <2>2, <2>3, <2>4, RequestMoves
<1>3. CASE Left(c) = {} /\ AllDone(c)
  BY <1>3 DEF AllDone, ClientType
<1> QED
  BY <1>2, <1>3 DEF NextReport

-----------------------------------------------------------------------------
(* What it does to the session, as far as an earlier session's procedures  *)
(* matter.                                                                 *)

SameList == client'.chars = client.chars /\ client'.described = client.described

SameGoal ==
  /\ client'.known = client.known /\ client'.input = client.input
  /\ client'.subscribed = client.subscribed

FindsService(p) ==
  /\ P.kind = "service" /\ ~client.service /\ client'.service
  /\ p = P /\ Moved(p)
  /\ SameList /\ SameGoal /\ client'.index = client.index

AsksForList(p) ==
  /\ P.kind = "service" /\ client.service /\ client'.service
  /\ p.kind = "chars" /\ p.at = 0 /\ Followed(p)
  /\ SameList /\ SameGoal

ListsMore(p) ==
  /\ P.kind = "chars" /\ client.service /\ client'.service
  /\ client.chars # <<>> => P.at # 0
  /\ p.kind = "chars" /\ Moved(p)
  /\ client'.chars # <<>> /\ client'.described = client.described /\ SameGoal

Describes(p) ==
  /\ P.kind = "dscs" /\ P.at = 0 /\ client.chars # <<>>
  /\ p.kind = "dscs" /\ p.at = 1 /\ Moved(p)
  /\ client'.service = client.service /\ client'.chars = client.chars
  /\ client'.described # {} /\ SameGoal

Refers(p) ==
  /\ P.kind = "ref" /\ client.described # {}
  /\ p.kind \in {"dscs", "write"} /\ Followed(p)
  /\ client'.service = client.service /\ SameList
  /\ client'.subscribed = client.subscribed

Subscribes(p) ==
  /\ P.kind = "write" /\ p.kind = "cccd" /\ Followed(p)
  /\ client'.service = client.service /\ SameList
  /\ client'.known = client.known /\ client'.input = client.input
  /\ client'.index = client.index
  /\ client'.subscribed => client.subscribed \/ client.known # {}

GoesOn(p) ==
  /\ P.kind \in {"chars", "map", "mode", "dscs", "cccd"} /\ client.chars # <<>>
  /\ P.kind = "chars" => P.at # 0
  /\ \/ Followed(p) /\ p.kind \in {"map", "mode", "dscs", "ref"}
     \/ Stays(p) /\ P.kind = "map" /\ p.kind = "map"
  /\ client'.service = client.service /\ SameList /\ SameGoal

GoesAs(p) ==
  \/ FindsService(p) \/ AsksForList(p) \/ ListsMore(p) \/ Describes(p)
  \/ Refers(p) \/ Subscribes(p) \/ GoesOn(p)

\* The session goes on, or is done with its keyboard subscribed.
GoesOnOrEnds ==
  \/ client.subscribed
  \/ ready' = ready /\ (client'.active => \E p \in Procs : GoesAs(p))

Start == ClientOK /\ Addressed /\ EmptyClient /\ Current /\ procs # <<>>

LEMMA StartFacts ==
  ASSUME Start
  PROVE  /\ client \in ClientType /\ P \in Procs /\ P = procs[1] /\ 1 \in All
         /\ procs \in Seq(Procs) /\ Len(procs) \in Nat \ {0}
         /\ Len(table) \in Nat /\ MapLength \in Nat
         /\ client.chars \in Seq(1..Len(table)) /\ Len(client.chars) \in Nat
         /\ client.described \subseteq DOMAIN client.chars
         /\ P.at \in Nat /\ P.pos \in Nat /\ P.attr \in Nat
         /\ P.kind \in {"map", "mode"} => P.attr # 0
<1>1. /\ client \in ClientType /\ P \in Procs /\ procs \in Seq(Procs) /\ procs # <<>>
      /\ client.described \subseteq DOMAIN client.chars
  BY Begun DEF Start, ClientOK
<1>2. Len(procs) \in Nat \ {0} /\ P = procs[1] /\ 1 \in All
  BY <1>1 DEF P, All
<1>3. Len(table) \in Nat /\ MapLength \in Nat
  BY ClientAssumption DEF Start, ClientOK
<1>4. client.chars \in Seq(1..Len(table)) /\ Len(client.chars) \in Nat
  BY <1>1 DEF ClientType
<1>5. P.at \in Nat /\ P.pos \in Nat /\ P.attr \in Nat
  BY <1>1 DEF Procs
<1>6. P.kind \in {"map", "mode"} => P.attr # 0
  BY <1>2 DEF Start, Addressed
<1> QED
  BY <1>1, <1>2, <1>3, <1>4, <1>5, <1>6

\* A failed callback leaves no active session.
LEMMA FailEnds ==
  ASSUME Start, Fail, ready' = ready
  PROVE  GoesOnOrEnds
BY FailMoves DEF GoesOnOrEnds, Start

\* The remote becomes ready with its keyboard subscribed only.
LEMMA NextReportReady ==
  ASSUME NEW c, NextReport(c)
  PROVE  ready' = ready \/ c.subscribed
BY DEF NextReport, AllDone

\* A callback that moves on to the next report, having listed some.
LEMMA NextReportGoesOn ==
  ASSUME Start, NEW c \in ClientType, NextReport(c),
         P.kind \in {"map", "mode", "dscs", "cccd"},
         c.service = client.service, c.chars = client.chars,
         c.described = client.described, c.known = client.known,
         c.input = client.input, c.subscribed = client.subscribed
  PROVE  GoesOnOrEnds
<1>1. ClientOK /\ procs # <<>>
  BY DEF Start
<1> SUFFICES ASSUME client'.active, ~client.subscribed
             PROVE  \E p \in Procs : GoesAs(p) /\ ready' = ready
  BY NextReportReady DEF GoesOnOrEnds
<1>2. PICK i \in Left(c) :
        /\ client' = [c EXCEPT !.index = i] /\ ready' = ready
        /\ i \in 1..Len(c.chars) /\ c.chars[i] \in 1..Len(table)
        /\ Followed(Proc("dscs", i, c.chars[i]))
  BY <1>1, NextReportMoves
<1>3. client.chars # <<>>
  BY <1>2, StartFacts
<1>4. Proc("dscs", i, c.chars[i]) \in Procs /\ Proc("dscs", i, c.chars[i]).kind = "dscs"
  <2>1. i \in Nat /\ c.chars[i] \in Nat
    BY <1>2, StartFacts
  <2> QED
    BY <2>1, ProcType DEF ProcKinds, Proc
<1>5. /\ client'.service = client.service /\ client'.chars = client.chars
      /\ client'.described = client.described /\ client'.known = client.known
      /\ client'.input = client.input /\ client'.subscribed = client.subscribed
  BY <1>2 DEF ClientType
<1>6. GoesOn(Proc("dscs", i, c.chars[i]))
  BY <1>2, <1>3, <1>4, <1>5 DEF GoesOn, SameList, SameGoal
<1> QED
  BY <1>2, <1>4, <1>6 DEF GoesAs

\* A request that goes on with a session that is left as it was.
LEMMA NextGoesOn ==
  ASSUME Start, NEW c \in ClientType, NEW kind \in {"map", "mode"}, NEW attr \in Nat,
         Request(c, Rest, Proc(kind, 0, attr)), ready' = ready,
         P.kind \in {"chars", "map"}, client.chars # <<>>, P.kind = "chars" => P.at # 0,
         c.service = client.service, c.chars = client.chars,
         c.described = client.described, c.known = client.known,
         c.input = client.input, c.subscribed = client.subscribed
  PROVE  GoesOnOrEnds
<1> SUFFICES ASSUME client'.active
             PROVE  \E p \in Procs : GoesAs(p)
  BY DEF GoesOnOrEnds
<1>1. ClientOK /\ procs # <<>> /\ kind \in ProcKinds /\ 0 \in Nat
  BY DEF Start, ProcKinds
<1>2. client' = c /\ Followed(Proc(kind, 0, attr))
  BY <1>1, RequestMoves
<1>3. Proc(kind, 0, attr) \in Procs /\ Proc(kind, 0, attr).kind = kind
  BY <1>1, ProcType DEF Proc
<1>4. GoesOn(Proc(kind, 0, attr))
  BY <1>2, <1>3 DEF GoesOn, SameList, SameGoal
<1> QED
  BY <1>3, <1>4 DEF GoesAs

LEMMA ServiceOutcome ==
  ASSUME Start, OnService \/ OnServiceDone
  PROVE  GoesOnOrEnds
<1>0. ClientOK /\ procs # <<>> /\ ready' = ready /\ P.kind = "service"
  BY DEF Start, OnService, OnServiceDone, Answer, P
<1>1. CASE Fail
  BY <1>0, <1>1, FailEnds
<1>2. ASSUME ~client.service, client' = [client EXCEPT !.service = TRUE], Again(P)
      PROVE  GoesOnOrEnds
  <2>1. P \in Procs /\ Moved(P)
    BY <1>0, <1>2, StartFacts, AgainMoves
  <2>2. /\ client'.service /\ client'.chars = client.chars
        /\ client'.described = client.described /\ client'.known = client.known
        /\ client'.input = client.input /\ client'.subscribed = client.subscribed
        /\ client'.index = client.index
    BY <1>2, StartFacts DEF ClientType
  <2>3. FindsService(P)
    BY <1>0, <1>2, <2>1, <2>2 DEF FindsService, SameList, SameGoal
  <2> QED
    BY <1>0, <2>1, <2>3 DEF GoesOnOrEnds, GoesAs
<1>3. ASSUME client.service, Request(client, Rest, Proc("chars", 0, 0)), client'.active
      PROVE  \E p \in Procs : GoesAs(p)
  <2>1. "chars" \in ProcKinds /\ 0 \in Nat
    BY DEF ProcKinds
  <2>2. client' = client /\ Followed(Proc("chars", 0, 0))
    BY <1>0, <1>3, <2>1, StartFacts, RequestMoves
  <2>3. /\ Proc("chars", 0, 0) \in Procs /\ Proc("chars", 0, 0).kind = "chars"
        /\ Proc("chars", 0, 0).at = 0
    BY <2>1, ProcType DEF Proc
  <2>4. AsksForList(Proc("chars", 0, 0))
    BY <1>0, <1>3, <2>2, <2>3 DEF AsksForList, SameList, SameGoal
  <2> QED
    BY <2>3, <2>4 DEF GoesAs
<1> QED
  BY <1>0, <1>1, <1>2, <1>3 DEF OnService, OnServiceDone, GoesOnOrEnds

\* The fields after a characteristic was listed.
ListedFields(k) ==
  /\ client'.service = client.service /\ client'.chars = Append(client.chars, k)
  /\ client'.described = client.described /\ client'.known = client.known
  /\ client'.input = client.input /\ client'.subscribed = client.subscribed
  /\ client'.index = client.index /\ client'.accepted = client.accepted

LEMMA CharacteristicFacts ==
  ASSUME Start, OnCharacteristic
  PROVE  /\ P.kind = "chars" /\ ready' = ready
         /\ \/ Fail
            \/ LET p == [P EXCEPT !.at = P.at + 1]
               IN  /\ P.at + 1 \in 1..Len(table) /\ ListedFields(P.at + 1) /\ client.service
                   /\ client.chars # <<>> => P.at + 1 > client.chars[Len(client.chars)]
                   /\ p \in Procs /\ p.kind = "chars" /\ p.at = P.at + 1 /\ Moved(p)
<1>1. P.kind = "chars" /\ ready' = ready /\ P.at < Len(table) /\ ClientOK /\ procs # <<>>
  BY DEF OnCharacteristic, Answer, P, Start
<1>2. P \in Procs /\ P.at \in Nat /\ Len(table) \in Nat /\ client \in ClientType
      /\ client.chars \in Seq(1..Len(table)) /\ Len(client.chars) \in Nat
  BY StartFacts
<1> DEFINE k == P.at + 1
           kind == table[k].kind
           m == IF kind = "map" THEN k ELSE client.map
           n == IF kind = "mode" THEN k ELSE client.mode
<1>3. \/ /\ client.service /\ (Len(client.chars) > 0 => k > client.chars[Len(client.chars)])
         /\ client' = [client EXCEPT !.chars = Append(@, k), !.map = m, !.mode = n]
         /\ Again([P EXCEPT !.at = k])
      \/ Fail
  BY DEF OnCharacteristic
<1>4. k \in 1..Len(table) /\ k \in Nat
  BY <1>1, <1>2
<1> HIDE DEF m, n, k
<1>5. ASSUME client' = [client EXCEPT !.chars = Append(@, k), !.map = m, !.mode = n]
      PROVE  ListedFields(k)
  BY <1>2, <1>5 DEF ListedFields, ClientType
<1>6. /\ [P EXCEPT !.at = k] \in Procs /\ [P EXCEPT !.at = k].kind = "chars"
      /\ [P EXCEPT !.at = k].at = k
  BY <1>1, <1>2, <1>4 DEF Procs
<1>7. client.chars # <<>> => Len(client.chars) > 0
  BY <1>2
<1>8. Again([P EXCEPT !.at = k]) => Moved([P EXCEPT !.at = k])
  BY <1>1, <1>6, AgainMoves
<1>9. \/ Fail
      \/ /\ k \in 1..Len(table) /\ ListedFields(k) /\ client.service
         /\ client.chars # <<>> => k > client.chars[Len(client.chars)]
         /\ [P EXCEPT !.at = k] \in Procs /\ [P EXCEPT !.at = k].kind = "chars"
         /\ [P EXCEPT !.at = k].at = k /\ Moved([P EXCEPT !.at = k])
  BY <1>3, <1>4, <1>5, <1>6, <1>7, <1>8
<1> QED
  BY <1>1, <1>9 DEF k

LEMMA CharacteristicsOutcome ==
  ASSUME Start, OnCharacteristic \/ OnCharacteristicsDone
  PROVE  GoesOnOrEnds
<1>1. CASE OnCharacteristic
  <2> DEFINE p == [P EXCEPT !.at = P.at + 1]
  <2>1. P.kind = "chars" /\ ready' = ready
    BY <1>1, CharacteristicFacts
  <2>2. CASE Fail
    BY <2>1, <2>2, FailEnds
  <2>3. ASSUME P.at + 1 \in 1..Len(table), ListedFields(P.at + 1), client.service,
               client.chars # <<>> => P.at + 1 > client.chars[Len(client.chars)],
               p \in Procs, p.kind = "chars", Moved(p)
        PROVE  GoesOnOrEnds
    <3> HIDE DEF p
    <3>1. client.chars # <<>> => client.chars[Len(client.chars)] \in 1..Len(table)
      BY StartFacts
    <3>2. client.chars # <<>> => P.at # 0
      BY <2>3, <3>1, StartFacts
    <3>3. client'.chars # <<>>
      <4>1. client.chars \in Seq(1..Len(table)) /\ Len(client.chars) \in Nat
        BY StartFacts
      <4>2. Len(Append(client.chars, P.at + 1)) = Len(client.chars) + 1
        BY <4>1, <2>3
      <4>3. client'.chars = Append(client.chars, P.at + 1)
        BY <2>3 DEF ListedFields
      <4>4. Len(client'.chars) # 0
        BY <4>1, <4>2, <4>3
      <4> QED
        BY <4>4
    <3>4. ListsMore(p)
      BY <2>1, <2>3, <3>2, <3>3 DEF ListsMore, ListedFields, SameGoal
    <3> QED
      BY <2>1, <2>3, <3>4 DEF GoesOnOrEnds, GoesAs
  <2> QED
    BY <1>1, <2>2, <2>3, CharacteristicFacts
<1>2. CASE OnCharacteristicsDone
  <2>1. P.kind = "chars" /\ ready' = ready /\ P.at = Len(table)
    BY <1>2 DEF OnCharacteristicsDone, Answer, P
  <2>2. CASE Fail
    BY <2>1, <2>2, FailEnds
  <2>3. CASE client.map # 0 /\ Request(client, Rest, Proc("map", 0, client.map))
    <3>1. client.chars # <<>> /\ client.map \in Nat
      BY <2>3, StartFacts DEF Start, EmptyClient, ClientType
    <3>2. P.at # 0
      <4>1. client.chars[1] \in 1..Len(table)
        BY <3>1, StartFacts
      <4> QED
        BY <2>1, <4>1, StartFacts
    <3> QED
      BY <2>1, <2>3, <3>1, <3>2, StartFacts, NextGoesOn
  <2> QED
    BY <1>2, <2>2, <2>3 DEF OnCharacteristicsDone
<1> QED
  BY <1>1, <1>2

LEMMA MapOutcome ==
  ASSUME Start, OnMapBlock \/ OnMapDone
  PROVE  GoesOnOrEnds
<1>0. ClientOK /\ procs # <<>> /\ P.kind = "map" /\ P.attr # 0 /\ P \in Procs
      /\ client \in ClientType
  BY StartFacts DEF Start, OnMapBlock, OnMapDone, Answer, P
<1>1. CASE OnMapBlock
  <2>1. ready' = ready
    BY <1>1 DEF OnMapBlock
  <2>2. CASE Fail
    BY <2>1, <2>2, FailEnds
  <2>3. CASE /\ P.attr = client.map /\ client' = [client EXCEPT !.length = @ + 1]
             /\ Again([P EXCEPT !.at = @ + 1])
    <3>1. client.chars # <<>>
      BY <1>0, <2>3 DEF Start, EmptyClient
    <3> DEFINE p == [P EXCEPT !.at = @ + 1]
    <3>2. P.at + 1 \in Nat
      BY StartFacts
    <3>3. p \in Procs /\ p.kind = "map"
      BY <1>0, <3>2 DEF Procs
    <3>4. Moved(p)
      BY <1>0, <2>3, <3>3, AgainMoves
    <3>5. /\ client'.service = client.service /\ client'.chars = client.chars
          /\ client'.described = client.described /\ client'.known = client.known
          /\ client'.input = client.input /\ client'.subscribed = client.subscribed
      BY <1>0, <2>3 DEF ClientType
    <3>6. GoesOn(p)
      BY <1>0, <3>1, <3>3, <3>4, <3>5 DEF GoesOn, SameList, SameGoal, Moved
    <3> QED
      BY <2>1, <3>3, <3>6 DEF GoesOnOrEnds, GoesAs
  <2> QED
    BY <1>1, <2>2, <2>3 DEF OnMapBlock
<1>2. CASE OnMapDone
  <2>1. CASE Fail /\ UNCHANGED ready
    BY <2>1, FailEnds
  <2>2. ASSUME client.length # 0, NEW known \in BOOLEAN,
               LET c == [client EXCEPT !.layout = known]
               IN  IF c.mode # 0
                   THEN Request(c, Rest, Proc("mode", 0, c.mode)) /\ UNCHANGED ready
                   ELSE NextReport(c)
        PROVE  GoesOnOrEnds
    <3> DEFINE c == [client EXCEPT !.layout = known]
    <3>1. /\ c \in ClientType /\ c.service = client.service /\ c.chars = client.chars
          /\ c.described = client.described /\ c.known = client.known
          /\ c.input = client.input /\ c.subscribed = client.subscribed
      BY <1>0 DEF ClientType
    <3>2. client.chars # <<>>
      BY <2>2 DEF Start, EmptyClient
    <3>3. \/ Request(c, Rest, Proc("mode", 0, c.mode)) /\ UNCHANGED ready
          \/ NextReport(c)
      BY <2>2
    <3> HIDE DEF c
    <3>4. c.mode \in Nat
      BY <3>1, StartFacts DEF ClientType
    <3>5. CASE Request(c, Rest, Proc("mode", 0, c.mode)) /\ UNCHANGED ready
      BY <1>0, <3>1, <3>2, <3>4, <3>5, NextGoesOn
    <3>6. CASE NextReport(c)
      BY <1>0, <3>1, <3>6, NextReportGoesOn
    <3> QED
      BY <3>3, <3>5, <3>6
  <2> QED
    BY <1>2, <2>1, <2>2 DEF OnMapDone
<1> QED
  BY <1>1, <1>2

LEMMA ModeOutcome ==
  ASSUME Start, OnProtocolMode
  PROVE  GoesOnOrEnds
<1>1. P.kind = "mode" /\ client \in ClientType
  BY StartFacts DEF OnProtocolMode, Answer, P
<1>2. CASE NextReport(client)
  BY <1>1, <1>2, NextReportGoesOn
<1>3. CASE Fail /\ UNCHANGED ready
  BY <1>3, FailEnds
<1> QED
  BY <1>2, <1>3 DEF OnProtocolMode

\* A session that passed a report.
LEMMA SkippedFacts ==
  ASSUME Start
  PROVE  /\ Skipped \in ClientType /\ Skipped.service = client.service
         /\ Skipped.chars = client.chars /\ Skipped.described = client.described
         /\ Skipped.known = client.known /\ Skipped.input = client.input
         /\ Skipped.subscribed = client.subscribed /\ Skipped.accepted = client.accepted
         /\ Skipped.index = client.index + 1
<1>0. client \in ClientType
  BY StartFacts
<1>1. client.index \in Nat \ {0}
  BY <1>0 DEF ClientType
<1>2. client.index + 1 \in Nat \ {0}
  BY <1>1
<1> QED
  BY <1>0, <1>2 DEF Skipped, ClientType

LEMMA DescriptorsOutcome ==
  ASSUME Start, OnDescriptors \/ OnDescriptorsDone
  PROVE  GoesOnOrEnds
<1>0. ClientOK /\ procs # <<>> /\ P.kind = "dscs" /\ P \in Procs /\ client \in ClientType
      /\ P.pos \in Nat /\ client.described \subseteq Nat
      /\ client.described \subseteq DOMAIN client.chars
  BY StartFacts DEF Start, OnDescriptors, OnDescriptorsDone, Answer, P, ClientType
<1>1. CASE OnDescriptors
  <2>1. ready' = ready /\ P.at = 0
    BY <1>1 DEF OnDescriptors
  <2>2. CASE Fail
    BY <2>1, <2>2, FailEnds
  <2>3. CASE /\ Listed /\ client' = [client EXCEPT !.described = @ \union {P.pos}]
             /\ Again([P EXCEPT !.at = 1])
    <3>1. client.chars # <<>>
      BY <2>3, StartFacts DEF Listed
    <3> DEFINE p == [P EXCEPT !.at = 1]
    <3>2. p \in Procs /\ p.kind = "dscs" /\ p.at = 1
      BY <1>0 DEF Procs
    <3>3. Moved(p)
      BY <1>0, <2>3, <3>2, AgainMoves
    <3>4. /\ client'.service = client.service /\ client'.chars = client.chars
          /\ client'.described = client.described \union {P.pos}
          /\ client'.known = client.known
          /\ client'.input = client.input /\ client'.subscribed = client.subscribed
      BY <1>0, <2>3 DEF ClientType
    <3> HIDE DEF p
    <3>5. Describes(p)
      BY <1>0, <2>1, <3>1, <3>2, <3>3, <3>4 DEF Describes, SameGoal
    <3> QED
      BY <2>1, <3>2, <3>5 DEF GoesOnOrEnds, GoesAs
  <2> QED
    BY <1>1, <2>2, <2>3 DEF OnDescriptors
<1>2. CASE OnDescriptorsDone
  <2>1. ASSUME P.pos \in client.described, ready' = ready,
               Request(client, Rest, Proc("ref", P.pos, client.chars[P.pos])), client'.active
        PROVE  \E p \in Procs : GoesAs(p)
    <3>1. P.pos \in 1..Len(client.chars) /\ client.chars # <<>>
      BY <1>0, <2>1, StartFacts
    <3>2. client.chars[P.pos] \in Nat /\ "ref" \in ProcKinds
      BY <3>1, StartFacts DEF ProcKinds
    <3> DEFINE p == Proc("ref", P.pos, client.chars[P.pos])
    <3>3. p \in Procs /\ p.kind = "ref"
      BY <1>0, <3>2, ProcType DEF Proc
    <3>4. client' = client /\ Followed(p)
      BY <1>0, <2>1, <3>2, RequestMoves
    <3> HIDE DEF p
    <3>5. GoesOn(p)
      BY <1>0, <3>1, <3>3, <3>4 DEF GoesOn, SameList, SameGoal
    <3> QED
      BY <3>3, <3>5 DEF GoesAs
  <2>2. CASE NextReport(Skipped)
    BY <1>0, <2>2, SkippedFacts, NextReportGoesOn
  <2> QED
    BY <1>2, <2>1, <2>2 DEF OnDescriptorsDone, GoesOnOrEnds
<1> QED
  BY <1>1, <1>2

\* An answer to a Report Reference of the session's own list.
LEMMA ReferenceOutcome ==
  ASSUME Start, OnReference
  PROVE  GoesOnOrEnds
<1>0. ClientOK /\ procs # <<>> /\ P.kind = "ref" /\ client \in ClientType
      /\ P.pos \in Nat /\ client.described \subseteq DOMAIN client.chars
  BY StartFacts DEF Start, OnReference, Answer, P
<1>1. CASE Fail /\ UNCHANGED ready
  BY <1>1, FailEnds
<1>2. CASE Listed /\ P.pos \in client.described
  <2> DEFINE k == client.chars[P.pos]
             c == [client EXCEPT !.known = @ \union {P.pos},
                                 !.input = IF table[k].ref = "keyboard" THEN k ELSE @]
             d == [Skipped EXCEPT !.known = @ \union {P.pos}]
  <2>1. client.described # {} /\ k \in 1..Len(table) /\ k \in 0..Len(table) /\ k \in Nat
    BY <1>0, <1>2, StartFacts DEF Listed
  <2>2. \/ NextReport(d)
        \/ Request(c, Rest, Proc("write", P.pos, k)) /\ UNCHANGED ready
        \/ Fail /\ UNCHANGED ready
    BY <1>2, Zenon DEF OnReference
  <2>3. CASE NextReport(d)
    <3>1. /\ d \in ClientType /\ d.service = client.service /\ d.chars = client.chars
          /\ d.described = client.described /\ d.subscribed = client.subscribed
      BY <1>0, SkippedFacts DEF ClientType
    <3> HIDE DEF d
    <3> SUFFICES ASSUME client'.active, ~client.subscribed
                 PROVE  \E p \in Procs : GoesAs(p) /\ ready' = ready
      BY <2>3, <3>1, NextReportReady DEF GoesOnOrEnds
    <3>2. PICK i \in Left(d) :
            /\ client' = [d EXCEPT !.index = i] /\ ready' = ready
            /\ i \in 1..Len(d.chars) /\ d.chars[i] \in 1..Len(table)
            /\ Followed(Proc("dscs", i, d.chars[i]))
      BY <1>0, <2>3, <3>1, NextReportMoves
    <3> DEFINE p == Proc("dscs", i, d.chars[i])
    <3>3. p \in Procs /\ p.kind = "dscs"
      <4>1. i \in Nat /\ d.chars[i] \in Nat
        BY <3>1, <3>2, StartFacts
      <4> QED
        BY <4>1, ProcType DEF ProcKinds, Proc
    <3>4. /\ client'.service = client.service /\ client'.chars = client.chars
          /\ client'.described = client.described
          /\ client'.subscribed = client.subscribed
      BY <3>1, <3>2 DEF ClientType
    <3>5. Followed(p)
      BY <3>2
    <3> HIDE DEF p
    <3>6. Refers(p)
      BY <1>0, <2>1, <3>3, <3>4, <3>5 DEF Refers, SameList
    <3> QED
      BY <3>2, <3>3, <3>6 DEF GoesAs
  <2>4. ASSUME Request(c, Rest, Proc("write", P.pos, k)), ready' = ready, client'.active
        PROVE  \E p \in Procs : GoesAs(p)
    <3>1. /\ c \in ClientType /\ c.service = client.service /\ c.chars = client.chars
          /\ c.described = client.described /\ c.subscribed = client.subscribed
      BY <1>0, <2>1 DEF ClientType
    <3> HIDE DEF c, k
    <3>2. "write" \in ProcKinds
      BY DEF ProcKinds
    <3>3. client' = c /\ Followed(Proc("write", P.pos, k))
      BY <1>0, <2>1, <2>4, <3>1, <3>2, RequestMoves
    <3>4. Proc("write", P.pos, k) \in Procs /\ Proc("write", P.pos, k).kind = "write"
      BY <1>0, <2>1, <3>2, ProcType DEF Proc
    <3>5. Refers(Proc("write", P.pos, k))
      BY <1>0, <2>1, <3>1, <3>3, <3>4 DEF Refers, SameList
    <3> QED
      BY <3>4, <3>5 DEF GoesAs
  <2>5. CASE Fail /\ UNCHANGED ready
    BY <2>5, FailEnds
  <2> HIDE DEF c, d, k
  <2> QED
    BY <2>2, <2>3, <2>4, <2>5 DEF GoesOnOrEnds
<1> QED
  BY <1>1, <1>2 DEF OnReference

LEMMA SubscriptionOutcome ==
  ASSUME Start, OnSubscribed \/ OnCccdRead
  PROVE  GoesOnOrEnds
<1>0. ClientOK /\ procs # <<>> /\ client \in ClientType /\ P.pos \in Nat /\ P.attr \in Nat
  BY StartFacts DEF Start
<1>1. ASSUME OnSubscribed, client'.active
      PROVE  \E p \in Procs : GoesAs(p)
  <2> DEFINE keyboard == P.pos \in client.known /\ table[client.chars[P.pos]].ref = "keyboard"
             c == [client EXCEPT !.accepted = @ \union {P.pos},
                                 !.subscribed = @ \/ keyboard]
  <2>1. P.kind = "write" /\ Request(c, Rest, Proc("cccd", P.pos, P.attr))
    BY <1>1 DEF OnSubscribed, Answer, P
  <2>2. keyboard \in BOOLEAN /\ (keyboard => client.known # {})
    OBVIOUS
  <2> HIDE DEF keyboard
  <2>3. /\ c \in ClientType /\ c.service = client.service /\ c.chars = client.chars
        /\ c.described = client.described /\ c.known = client.known
        /\ c.input = client.input /\ c.index = client.index
        /\ c.subscribed = (client.subscribed \/ keyboard)
    <3>1. (client.subscribed \/ keyboard) \in BOOLEAN
      OBVIOUS
    <3> QED
      BY <1>0, <2>2, <3>1 DEF ClientType
  <2> HIDE DEF c
  <2>4. "cccd" \in ProcKinds
    BY DEF ProcKinds
  <2>5. client' = c /\ Followed(Proc("cccd", P.pos, P.attr))
    BY <1>0, <1>1, <2>1, <2>3, <2>4, RequestMoves
  <2>6. Proc("cccd", P.pos, P.attr) \in Procs /\ Proc("cccd", P.pos, P.attr).kind = "cccd"
    BY <1>0, <2>4, ProcType DEF Proc
  <2>7. Subscribes(Proc("cccd", P.pos, P.attr))
    BY <2>1, <2>2, <2>3, <2>5, <2>6 DEF Subscribes, SameList
  <2> QED
    BY <2>6, <2>7 DEF GoesAs
<1>2. CASE OnCccdRead
  <2>1. P.kind = "cccd"
    BY <1>2 DEF OnCccdRead, Answer, P
  <2>2. CASE NextReport(Skipped)
    BY <2>1, <2>2, SkippedFacts, NextReportGoesOn
  <2>3. CASE Fail /\ UNCHANGED ready
    BY <2>3, FailEnds
  <2> QED
    BY <1>2, <2>2, <2>3 DEF OnCccdRead
<1>3. OnSubscribed => ready' = ready
  BY DEF OnSubscribed
<1> QED
  BY <1>1, <1>2, <1>3 DEF GoesOnOrEnds

\* Every callback.
LEMMA CallbackOutcome ==
  ASSUME Start, Callback
  PROVE  GoesOnOrEnds
<1>1. CASE Refused
  BY <1>1, FailEnds DEF Refused
<1>2. CASE Ignored
  BY <1>2 DEF Ignored, Start
<1> QED
  BY <1>1, <1>2, ServiceOutcome, CharacteristicsOutcome, MapOutcome, ModeOutcome,
     DescriptorsOutcome, ReferenceOutcome, SubscriptionOutcome
     DEF Callback

-----------------------------------------------------------------------------
(* An earlier session's procedure has come between: the session fails.     *)

LEMMA ReadsEarlyStep ==
  ASSUME Start, ReadsEarly, NEW p \in Procs, GoesAs(p)
  PROVE  ReadsEarly'
<1>1. procs[1] = P /\ Len(procs) \in Nat \ {0}
  BY StartFacts
<1>2. Kind(1, "service") /\ 1 < Len(procs) /\ Kind(2, "cccd") /\ AsksForList(p)
  BY <1>1 DEF ReadsEarly, GoesAs, FindsService, AsksForList, ListsMore, Describes,
     Refers, Subscribes, GoesOn, Kind
<1>3. Len(procs') = Len(procs) /\ procs'[1] = procs[2]
  <2>1. 1 \in 1..Len(procs)-1 /\ 1 + 1 = 2
    BY <1>1, <1>2
  <2> QED
    BY <1>2, <2>1 DEF AsksForList, Followed
<1>4. procs' # <<>>
  BY <1>1, <1>3
<1> QED
  BY <1>2, <1>3, <1>4 DEF ReadsEarly, AsksForList, SameList, SameGoal, Kind

\* What was second and later, wherever the oldest went.
LEMMA MovedFacts ==
  ASSUME Start, NEW p, Moved(p), NEW n \in 2..Len(procs)
  PROVE  /\ \/ Followed(p) /\ procs'[n - 1] = procs[n] /\ n - 1 \in All'
            \/ Stays(p) /\ procs'[n] = procs[n] /\ n \in All'
         /\ Len(procs') = Len(procs)
<1>1. Len(procs) \in Nat \ {0}
  BY StartFacts
<1>2. n - 1 \in 1..Len(procs)-1 /\ n - 1 + 1 = n
  BY <1>1
<1>3. CASE Followed(p)
  BY <1>1, <1>2, <1>3 DEF Followed, All
<1>4. CASE Stays(p)
  BY <1>1, <1>4 DEF Stays, All
<1> QED
  BY <1>3, <1>4 DEF Moved

LEMMA ListsAgainStep ==
  ASSUME Start, ListsAgain, NEW p \in Procs, GoesAs(p)
  PROVE  ListsAgain'
<1>1. procs[1] = P /\ Len(procs) \in Nat \ {0}
  BY StartFacts
<1>2. PICK b \in All : ListsAt(b)
  BY DEF ListsAgain
<1>3. b # 1
  BY <1>1, <1>2 DEF ListsAgain, ListsAt, Kind, GoesAs, FindsService, AsksForList,
     ListsMore, Describes, Refers, Subscribes, GoesOn
<1>4. b \in 2..Len(procs) /\ 1 \in 1..b-1
  BY <1>1, <1>3 DEF All
<1>5. P.kind # "write"
  BY <1>1, <1>2, <1>4 DEF ListsAt, Kind
<1>6. client'.service /\ client'.chars # <<>> /\ ~client'.subscribed
  BY <1>5 DEF ListsAgain, GoesAs, FindsService, AsksForList, ListsMore, Describes,
     Refers, Subscribes, GoesOn, SameList, SameGoal
<1>7. Followed(p) \/ (Stays(p) /\ p.kind # "write")
  BY <1>5 DEF ListsAgain, GoesAs, FindsService, AsksForList, ListsMore, Describes,
     Refers, Subscribes, GoesOn, Moved
<1>8. CASE Followed(p)
  <2>1. b - 1 \in All' /\ procs'[b - 1] = procs[b]
    BY <1>1, <1>4, <1>8 DEF Followed, All
  <2>2. ASSUME NEW n \in 1..(b-1)-1
        PROVE  procs'[n].kind # "write"
    <3>1. n \in 1..Len(procs)-1 /\ n + 1 \in 1..b-1
      BY <1>1, <1>4
    <3> QED
      BY <1>2, <1>8, <3>1 DEF Followed, ListsAt, Kind
  <2> QED
    BY <1>2, <1>6, <2>1, <2>2 DEF ListsAgain, ListsAt, Kind
<1>9. CASE Stays(p) /\ p.kind # "write"
  <2>1. b \in All' /\ procs'[b] = procs[b]
    BY <1>1, <1>4, <1>9 DEF Stays, All
  <2>2. ASSUME NEW n \in 1..b-1
        PROVE  procs'[n].kind # "write"
    <3>1. n = 1 \/ n \in 2..Len(procs)
      BY <1>1, <1>4
    <3> QED
      BY <1>2, <1>9, <3>1 DEF Stays, ListsAt, Kind
  <2> QED
    BY <1>2, <1>6, <2>1, <2>2 DEF ListsAgain, ListsAt, Kind
<1> QED
  BY <1>7, <1>8, <1>9

LEMMA ListsTwiceStep ==
  ASSUME Start, ListsTwice, NEW p \in Procs, GoesAs(p)
  PROVE  ListsTwice' \/ SearchesTwice' \/ ListsAgain'
<1>1. procs[1] = P /\ 1 \in All /\ Len(procs) \in Nat \ {0}
  BY StartFacts
<1>2. PICK i \in All, j \in All : i < j /\ Early(procs[i]) /\ Early(procs[j])
  BY DEF ListsTwice
<1>3. j \in 2..Len(procs) /\ i \in 1..Len(procs)-1
  BY <1>1, <1>2 DEF All
<1>4. \A n \in 1..Len(procs) : Early(procs[n]) \/ procs[n].kind = "cccd"
  BY DEF ListsTwice, All, Kind
<1>5. client.described = {}
  BY StartFacts DEF ListsTwice
<1>6. AsksForList(p) \/ ListsMore(p)
  <2>1. 1 \in 1..Len(procs)
    BY <1>1
  <2>2. P.kind \in {"service", "chars", "cccd"}
    BY <1>1, <1>4, <2>1 DEF Early
  <2> QED
    BY <1>5, <2>2 DEF ListsTwice, GoesAs, FindsService, Describes, Refers, Subscribes, GoesOn
<1>7. CASE AsksForList(p)
  <2>1. Len(procs') = Len(procs) /\ procs'[Len(procs)] = p /\ Early(p)
    BY <1>7 DEF AsksForList, Followed, Early
  <2>2. j - 1 \in 1..Len(procs)-1 /\ procs'[j - 1] = procs[j]
    <3>1. j - 1 \in 1..Len(procs)-1 /\ j - 1 + 1 = j
      BY <1>1, <1>3
    <3> QED
      BY <1>7, <3>1 DEF AsksForList, Followed
  <2>3. ASSUME NEW n \in All'
        PROVE  Early(procs'[n]) \/ procs'[n].kind = "cccd"
    <3>1. CASE n = Len(procs)
      BY <2>1, <3>1
    <3>2. CASE n # Len(procs)
      <4>1. n \in 1..Len(procs)-1 /\ n + 1 \in 1..Len(procs)
        BY <1>1, <2>1, <3>2 DEF All
      <4>2. procs'[n] = procs[n + 1]
        BY <1>7, <4>1 DEF AsksForList, Followed
      <4> QED
        BY <1>4, <4>1, <4>2
    <3> QED
      BY <3>1, <3>2
  <2>4. j - 1 \in All' /\ Len(procs) \in All' /\ j - 1 < Len(procs)
    BY <1>1, <2>1, <2>2 DEF All
  <2>5. \E m, n \in All' : m < n /\ Early(procs'[m]) /\ Early(procs'[n])
    BY <1>2, <2>1, <2>2, <2>4
  <2>6. client'.service /\ client'.chars = <<>> /\ Unsubscribed'
    BY <1>7 DEF ListsTwice, AsksForList, SameList, SameGoal, Unsubscribed
  <2> QED
    BY <2>3, <2>5, <2>6 DEF ListsTwice, Kind
<1>8. CASE ListsMore(p)
  <2>1. /\ client'.service /\ client'.chars # <<>> /\ client'.described = {}
        /\ Unsubscribed' /\ p.kind = "chars" /\ Moved(p) /\ Len(procs') = Len(procs)
    BY <1>5, <1>8 DEF ListsTwice, ListsMore, SameGoal, Unsubscribed, Moved, Followed, Stays
  <2>2. PICK e \in All' : Early(procs'[e])
    BY <1>2, <1>3, <2>1, MovedFacts
  <2>3. ASSUME NEW n \in All'
        PROVE  procs'[n].kind \in {"service", "chars", "cccd"}
    <3>1. CASE Followed(p)
      <4>1. n = Len(procs) \/ (n \in 1..Len(procs)-1 /\ n + 1 \in 1..Len(procs))
        BY <1>1, <2>1 DEF All
      <4> QED
        BY <1>4, <2>1, <3>1, <4>1 DEF Followed, Early
    <3>2. CASE Stays(p)
      <4>1. n = 1 \/ (n \in 2..Len(procs) /\ n \in 1..Len(procs))
        BY <1>1, <2>1 DEF All
      <4> QED
        BY <1>4, <2>1, <3>2, <4>1 DEF Stays, Early
    <3> QED
      BY <2>1, <3>1, <3>2 DEF Moved
  <2>4. e \in 1..Len(procs)
    BY <2>1 DEF All
  <2>5. CASE procs'[e].kind = "chars"
    <3>1. \A n \in 1..e-1 : n \in All'
      BY <1>1, <2>1, <2>4 DEF All
    <3>2. procs'[e].at = 0 /\ \A n \in 1..e-1 : procs'[n].kind # "write"
      BY <2>2, <2>3, <2>5, <3>1 DEF Early
    <3> QED
      BY <2>1, <2>5, <3>2 DEF ListsAgain, ListsAt, Kind, Unsubscribed
  <2>6. CASE procs'[e].kind = "service"
    <3>1. \A n \in e+1..Len(procs') : n \in All'
      BY <1>1, <2>1, <2>4 DEF All
    <3>2. \A n \in 1..e-1 : n \in All'
      BY <1>1, <2>1, <2>4 DEF All
    <3>3. Unread(e)' /\ Another(e)'
      BY <2>1, <2>3, <3>2 DEF Unread, Another, Kind
    <3>4. \A n \in e+1..Len(procs') : procs'[n].kind # "write"
      BY <2>3, <3>1
    <3> QED
      BY <2>1, <2>6, <3>3, <3>4 DEF SearchesTwice, SearchesAt, Kind
  <2> QED
    BY <2>2, <2>5, <2>6 DEF Early
<1> QED
  BY <1>6, <1>7, <1>8

\* The own search of the session is answered with others behind it.
LEMMA SearchedStep ==
  ASSUME Start, client.service, Unsubscribed, SearchesAt(1), NEW p \in Procs, GoesAs(p)
  PROVE  ListsTwice' \/ ListsAgain'
<1>1. procs[1] = P /\ Len(procs) \in Nat \ {0}
  BY StartFacts
<1>2. AsksForList(p) /\ Followed(p) /\ Early(p) /\ p.kind = "chars" /\ p.at = 0
  BY <1>1 DEF SearchesAt, Kind, GoesAs, FindsService, AsksForList, ListsMore, Describes,
     Refers, Subscribes, GoesOn, Early
<1>3. /\ client'.service /\ client'.chars = client.chars /\ Unsubscribed'
  BY <1>2 DEF AsksForList, SameList, SameGoal, Unsubscribed
<1>4. Len(procs') = Len(procs) /\ procs'[Len(procs)] = p /\ Len(procs) \in All'
  BY <1>1, <1>2 DEF Followed, All
<1>5. \A n \in 1..Len(procs)-1 : procs'[n] = procs[n + 1] /\ n + 1 \in 1+1..Len(procs)
  BY <1>1, <1>2 DEF Followed
<1>6. CASE client.chars # <<>>
  <2>1. \A n \in 1..Len(procs)-1 : procs'[n].kind # "write"
    BY <1>5 DEF SearchesAt, Kind
  <2> QED
    BY <1>2, <1>3, <1>4, <1>6, <2>1 DEF ListsAgain, ListsAt, Kind, Unsubscribed
<1>7. CASE client.chars = <<>>
  <2>1. /\ \A n \in 1+1..Len(procs) : Early(procs[n]) \/ procs[n].kind = "cccd"
        /\ \E n \in 1+1..Len(procs) : Early(procs[n])
    BY <1>7 DEF SearchesAt, Another, Kind
  <2>2. PICK e \in 1+1..Len(procs) : Early(procs[e])
    BY <2>1
  <2>3. e - 1 \in 1..Len(procs)-1 /\ e - 1 + 1 = e /\ e - 1 \in All' /\ e - 1 < Len(procs)
    BY <1>1, <1>4, <2>2 DEF All
  <2>4. Early(procs'[e - 1])
    BY <1>5, <2>2, <2>3
  <2>5. ASSUME NEW n \in All'
        PROVE  Early(procs'[n]) \/ procs'[n].kind = "cccd"
    <3>1. n = Len(procs) \/ n \in 1..Len(procs)-1
      BY <1>1, <1>4 DEF All
    <3> QED
      BY <1>2, <1>4, <1>5, <2>1, <3>1
  <2>6. \E m, n \in All' : m < n /\ Early(procs'[m]) /\ Early(procs'[n])
    BY <1>2, <1>4, <2>3, <2>4
  <2> QED
    BY <1>3, <1>7, <2>5, <2>6 DEF ListsTwice, Kind
<1> QED
  BY <1>6, <1>7

\* A procedure before the own search of the session calls back.
LEMMA SearchesStep ==
  ASSUME Start, client.service, Unsubscribed, NEW q \in All, q # 1, SearchesAt(q),
         NEW p \in Procs, GoesAs(p)
  PROVE  SearchesTwice'
<1>1. procs[1] = P /\ Len(procs) \in Nat \ {0} /\ q \in 2..Len(procs) /\ 1 \in 1..q-1
  BY StartFacts DEF All
<1>2. client.described \subseteq DOMAIN client.chars
      /\ (client.chars = <<>> => client.described = {})
  BY StartFacts
<1>3. ~Refers(p)
  BY <1>1, <1>2 DEF SearchesAt, Unread, Kind, Refers
<1>4. /\ client'.service /\ Unsubscribed' /\ p.kind # "write" /\ Moved(p)
      /\ Stays(p) => Followed(p) \/ p.kind = P.kind
  BY <1>3 DEF Unsubscribed, GoesAs, FindsService, AsksForList, ListsMore, Describes,
     Subscribes, GoesOn, SameGoal, Moved
<1>5. \/ AsksForList(p) \/ ListsMore(p) \/ Describes(p) \/ Subscribes(p) \/ GoesOn(p)
  BY <1>3 DEF GoesAs, FindsService
<1>6. CASE Followed(p)
  <2> DEFINE r == q - 1
  <2>1. r \in 1..Len(procs)-1 /\ r + 1 = q /\ Len(procs') = Len(procs) /\ r \in All'
    BY <1>1, <1>6 DEF Followed, All
  <2>2. procs'[r] = procs[q] /\ procs'[r].kind = "service"
    BY <1>6, <2>1 DEF Followed, SearchesAt, Kind
  <2>3. \A n \in 1..r-1 : procs'[n] = procs[n + 1] /\ n + 1 \in 1..q-1 /\ n + 1 \in Nat /\ 1 < n + 1
    BY <1>1, <1>6, <2>1 DEF Followed
  <2>4. \A n \in r+1..Len(procs') :
          n = Len(procs) \/ (procs'[n] = procs[n + 1] /\ n + 1 \in q+1..Len(procs))
    BY <1>1, <1>6, <2>1 DEF Followed
  <2>5. procs'[Len(procs)] = p
    BY <1>6 DEF Followed
  <2>6. \A n \in r+1..Len(procs') : procs'[n].kind # "write"
    BY <1>4, <2>4, <2>5 DEF SearchesAt, Kind
  <2>7. Another(r)'
    <3> SUFFICES ASSUME client'.chars = <<>>
                 PROVE  /\ \A n \in r+1..Len(procs') :
                             Early(procs'[n]) \/ procs'[n].kind = "cccd"
                        /\ \E n \in r+1..Len(procs') : Early(procs'[n])
      BY DEF Another, Kind
    <3>1. client.chars = <<>> /\ (AsksForList(p) \/ Subscribes(p))
      BY <1>5 DEF AsksForList, ListsMore, Describes, Subscribes, GoesOn, SameList
    <3>2. Early(p) \/ p.kind = "cccd"
      BY <3>1 DEF AsksForList, Subscribes, Early
    <3>3. /\ \A n \in q+1..Len(procs) : Early(procs[n]) \/ procs[n].kind = "cccd"
          /\ \/ \E n \in q+1..Len(procs) : Early(procs[n])
             \/ procs[1].kind = "service" /\ 1 < q
      BY <3>1 DEF SearchesAt, Another, Kind
    <3>4. \A n \in r+1..Len(procs') : Early(procs'[n]) \/ procs'[n].kind = "cccd"
      BY <2>4, <2>5, <3>2, <3>3
    <3>5. CASE \E n \in q+1..Len(procs) : Early(procs[n])
      <4>1. PICK n \in q+1..Len(procs) : Early(procs[n])
        BY <3>5
      <4>2. n - 1 \in r+1..Len(procs') /\ n - 1 \in 1..Len(procs)-1 /\ n - 1 + 1 = n
        BY <1>1, <2>1, <4>1
      <4>3. procs'[n - 1] = procs[n]
        BY <1>6, <4>2 DEF Followed
      <4> QED
        BY <3>4, <4>1, <4>2, <4>3
    <3>6. CASE procs[1].kind = "service"
      <4>1. AsksForList(p)
        BY <1>1, <3>1, <3>6 DEF Subscribes
      <4>2. Early(p) /\ Len(procs) \in r+1..Len(procs')
        BY <1>1, <2>1, <4>1 DEF AsksForList, Early
      <4> QED
        BY <2>5, <3>4, <4>2
    <3> QED
      BY <3>3, <3>5, <3>6
  <2>8. Unread(r)'
    <3>1. CASE client'.chars = <<>>
      <4>1. client.chars = <<>>
        BY <1>5, <3>1 DEF AsksForList, ListsMore, Describes, Subscribes, GoesOn, SameList
      <4>2. client'.described = {}
        BY <1>2, <1>5, <4>1, <3>1 DEF AsksForList, ListsMore, Describes, Subscribes, GoesOn, SameList
      <4>3. ASSUME NEW i \in 1..r-1, NEW j \in 1..r-1, NEW l \in 1..r-1, i < j, j < l,
                   procs'[i].kind = "chars", procs'[j].kind = "dscs", procs'[j].at = 0,
                   procs'[l].kind = "ref"
            PROVE  FALSE
        <5>1. /\ i + 1 \in 1..q-1 /\ procs[i + 1].kind = "chars"
              /\ j + 1 \in 1..q-1 /\ procs[j + 1].kind = "dscs" /\ procs[j + 1].at = 0
              /\ l + 1 \in 1..q-1 /\ procs[l + 1].kind = "ref"
          BY <2>3, <4>3
        <5>2. i + 1 < j + 1 /\ j + 1 < l + 1
          BY <1>1, <4>3
        <5> QED
          BY <4>1, <5>1, <5>2 DEF SearchesAt, Unread, Kind
      <4> QED
        BY <3>1, <4>2, <4>3 DEF Unread, Kind
    <3>2. CASE client'.chars # <<>> /\ client'.described = {}
      <4>1. client.described = {} /\ (client.chars = <<>> => ListsMore(p))
        BY <1>5, <3>2 DEF AsksForList, ListsMore, Describes, Subscribes, GoesOn, SameList
      <4>2. ASSUME NEW j \in 1..r-1, NEW l \in 1..r-1, j < l,
                   procs'[j].kind = "dscs", procs'[j].at = 0, procs'[l].kind = "ref"
            PROVE  FALSE
        <5>1. /\ j + 1 \in 1..q-1 /\ procs[j + 1].kind = "dscs" /\ procs[j + 1].at = 0
              /\ l + 1 \in 1..q-1 /\ procs[l + 1].kind = "ref"
          BY <2>3, <4>2
        <5>2. j + 1 < l + 1 /\ 1 < j + 1
          BY <1>1, <4>2
        <5>3. client.chars = <<>> => procs[1].kind = "chars"
          BY <1>1, <4>1 DEF ListsMore
        <5> QED
          BY <1>1, <4>1, <5>1, <5>2, <5>3 DEF SearchesAt, Unread, Kind
      <4> QED
        BY <3>2, <4>2 DEF Unread, Kind
    <3>3. CASE client'.described # {}
      <4>0. client'.chars # <<>>
        BY <1>2, <1>5, <3>3 DEF AsksForList, ListsMore, Describes, Subscribes, GoesOn, SameList
      <4>1. CASE client.described # {}
        BY <2>3, <3>3, <4>0, <4>1 DEF SearchesAt, Unread, Kind
      <4>2. CASE client.described = {}
        <5>1. Describes(p)
          BY <1>5, <3>3, <4>2 DEF AsksForList, ListsMore, Subscribes, GoesOn, SameList
        <5> QED
          BY <1>1, <2>3, <3>3, <4>0, <4>2, <5>1 DEF SearchesAt, Unread, Kind, Describes
      <4> QED
        BY <4>1, <4>2
    <3> QED
      BY <3>1, <3>2, <3>3
  <2> QED
    BY <1>4, <2>1, <2>2, <2>6, <2>7, <2>8 DEF SearchesTwice, SearchesAt, Kind
<1>7. CASE Stays(p) /\ p.kind = P.kind
  <2>1. Len(procs') = Len(procs) /\ q \in All' /\ procs'[q] = procs[q] /\ procs'[1] = p
    BY <1>1, <1>7 DEF Stays, All
  <2>2. \A n \in q+1..Len(procs') : procs'[n] = procs[n] /\ n \in q+1..Len(procs)
    BY <1>1, <1>7, <2>1 DEF Stays
  <2>3. \A n \in 1..q-1 : n \in Nat /\ n >= 1 /\ (n # 1 => procs'[n] = procs[n])
    BY <1>1, <1>7 DEF Stays
  <2>4. procs'[q].kind = "service" /\ \A n \in q+1..Len(procs') : procs'[n].kind # "write"
    BY <2>1, <2>2 DEF SearchesAt, Kind
  <2>5. ListsMore(p) \/ Describes(p) \/ GoesOn(p) \/ Followed(p)
    BY <1>5 DEF AsksForList, Subscribes
  <2>6. CASE ListsMore(p) \/ Describes(p) \/ GoesOn(p)
    <3>1. client'.chars # <<>>
      BY <2>6 DEF ListsMore, Describes, GoesOn, SameList
    <3>2. Another(q)'
      BY <3>1 DEF Another
    <3>3. CASE ListsMore(p)
      <4>1. P.kind = "chars" /\ p.kind = "chars" /\ client'.described = client.described
        BY <3>3 DEF ListsMore
      <4>2. Unread(q)'
        BY <1>1, <1>2, <2>1, <2>3, <3>1, <4>1 DEF SearchesAt, Unread, Kind
      <4> QED
        BY <1>4, <2>1, <2>4, <3>2, <4>2 DEF SearchesTwice, SearchesAt, Kind
    <3>4. CASE Describes(p)
      <4>1. P.kind = "dscs" /\ P.at = 0 /\ p.kind = "dscs" /\ client'.described # {}
            /\ client.chars # <<>>
        BY <3>4 DEF Describes
      <4>2. Unread(q)'
        BY <1>1, <1>2, <2>1, <2>3, <3>1, <4>1 DEF SearchesAt, Unread, Kind
      <4> QED
        BY <1>4, <2>1, <2>4, <3>2, <4>2 DEF SearchesTwice, SearchesAt, Kind
    <3>5. CASE GoesOn(p) /\ ~Followed(p)
      <4>1. p.kind = "map" /\ SameList
        BY <3>5 DEF GoesOn
      <4>2. Unread(q)'
        BY <1>1, <1>2, <2>1, <2>3, <3>1, <4>1 DEF SearchesAt, Unread, Kind, SameList
      <4> QED
        BY <1>4, <2>1, <2>4, <3>2, <4>2 DEF SearchesTwice, SearchesAt, Kind
    <3> QED
      BY <1>6, <2>6, <3>3, <3>4, <3>5
  <2> QED
    BY <1>6, <2>5, <2>6
<1> QED
  BY <1>4, <1>6, <1>7 DEF Moved

\* A session that waits for its first answer goes on waiting, has the
\* connection to itself, or is lost.
LEMMA WaitingStep ==
  ASSUME FewProcs, Start, Waiting, NEW p \in Procs, GoesAs(p)
  PROVE  Discovering'
<1>1. procs[1] = P /\ 1 \in All /\ Len(procs) \in Nat \ {0} /\ Len(procs) <= 4
  <2>1. Len(procs) <= MaxProcs /\ MaxProcs \in Nat /\ MaxProcs <= 4
    BY ClientAssumption DEF Start, ClientOK, FewProcs
  <2> QED
    BY <2>1, StartFacts
<1>2. PICK q \in All : WaitsAt(q)
  BY DEF Waiting
<1>3. client.described = {}
  BY StartFacts DEF Waiting
<1>4. FindsService(p) \/ Subscribes(p)
  BY <1>3 DEF Waiting, GoesAs, AsksForList, ListsMore, Describes, Refers, GoesOn
<1>5. q \in 1..Len(procs) /\ procs[q].kind = "service"
      /\ \A n \in q+1..Len(procs) : procs[n].kind = "cccd"
  BY <1>2 DEF All, WaitsAt, Kind
<1>6. CASE Subscribes(p)
  <2>1. q # 1 /\ q - 1 \in 1..Len(procs)-1 /\ q - 1 + 1 = q
    BY <1>1, <1>5, <1>6 DEF Subscribes
  <2>2. procs'[q - 1].kind = "service" /\ Len(procs') = Len(procs) /\ q - 1 \in All'
    BY <1>1, <1>5, <1>6, <2>1 DEF Subscribes, Followed, All
  <2>3. ASSUME NEW n \in q-1+1..Len(procs')
        PROVE  procs'[n].kind = "cccd"
    <3>1. n = Len(procs) \/ (n \in 1..Len(procs)-1 /\ n + 1 \in q+1..Len(procs))
      BY <1>1, <1>5, <2>2
    <3> QED
      BY <1>5, <1>6, <3>1 DEF Subscribes, Followed
  <2>4. WaitsAt(q - 1)'
    BY <2>2, <2>3 DEF WaitsAt, Kind
  <2>5. ~client'.service /\ client'.chars = <<>> /\ Unsubscribed' /\ client'.index = 1
    BY <1>4, <1>6 DEF Waiting, Subscribes, SameList, Unsubscribed, FindsService
  <2> QED
    BY <2>2, <2>4, <2>5 DEF Discovering, Waiting
<1>7. CASE FindsService(p)
  <2>1. /\ client'.service /\ client'.chars = <<>> /\ client'.described = {}
        /\ Unsubscribed' /\ client'.index = 1
        /\ p = P /\ P.kind = "service" /\ Len(procs') = Len(procs)
    BY <1>3, <1>7 DEF Waiting, FindsService, SameList, SameGoal, Unsubscribed,
       Moved, Followed, Stays
  <2>2. Followed(p) \/ Stays(p)
    BY <1>7 DEF FindsService, Moved
  <2>3. CASE Len(procs) = 1
    <3>1. procs'[1] = p
      BY <2>2, <2>3 DEF Followed, Stays
    <3> QED
      BY <2>1, <2>3, <3>1 DEF Discovering, Alone, Turn
  <2>4. CASE q = 1 /\ Len(procs) # 1
    <3>9. Len(procs) \in Nat /\ Len(procs) >= 2
      <4>1. PICK l \in Nat \ {0} : l = Len(procs)
        BY <1>1, Zenon
      <4>2. l # 1
        BY <2>4, <4>1, Zenon
      <4>3. l \in Nat /\ l >= 2
        BY <4>1, <4>2
      <4> QED
        BY <4>1, <4>3, Zenon
    <3>0. 1 \in 1..Len(procs)-1 /\ 1 + 1 = 2 /\ 2 \in 2..Len(procs) /\ 2 \in 1+1..Len(procs)
      BY <3>9
    <3>1. procs[2].kind = "cccd" /\ 1 \in 1..Len(procs)-1 /\ 1 + 1 = 2 /\ 2 \in 2..Len(procs)
      BY <1>5, <2>4, <3>0
    <3>2. procs'[1].kind = "cccd" \/ (procs'[1].kind = "service" /\ procs'[2].kind = "cccd")
      <4>1. CASE Followed(p)
        <5>1. procs'[1] = procs[1 + 1]
          BY <3>0, <4>1, SMTT(60) DEF Followed
        <5> QED
          BY <3>1, <5>1
      <4>2. CASE Stays(p)
        <5>1. procs'[1] = p /\ procs'[2] = procs[2]
          BY <3>0, <4>2, SMTT(60) DEF Stays
        <5> QED
          BY <2>1, <3>1, <5>1
      <4> QED
        BY <2>2, <4>1, <4>2
    <3>3. procs' # <<>> /\ 1 < Len(procs')
      BY <1>1, <2>1, <2>4
    <3> QED
      BY <2>1, <3>2, <3>3 DEF Discovering, ReadsEarly, Kind, Unsubscribed
  <2>5. CASE q # 1 /\ Followed(p)
    <3> DEFINE r == q - 1
    <3>1. r \in 1..Len(procs)-1 /\ r + 1 = q /\ r \in All' /\ r <= 3
      BY <1>1, <1>5, <2>1, <2>5 DEF All
    <3>2. procs'[r].kind = "service" /\ procs'[Len(procs)] = p
      BY <1>5, <2>5, <3>1 DEF Followed
    <3>3. ASSUME NEW n \in r+1..Len(procs')
          PROVE  n = Len(procs) \/ procs'[n].kind = "cccd"
      <4>1. n = Len(procs) \/ (n \in 1..Len(procs)-1 /\ n + 1 \in q+1..Len(procs))
        BY <1>1, <2>1, <3>1
      <4> QED
        BY <1>5, <2>5, <4>1 DEF Followed
    <3>4. Early(p) /\ Len(procs) \in r+1..Len(procs')
      BY <1>1, <2>1, <3>1 DEF Early
    <3>5. Another(r)'
      BY <2>1, <3>2, <3>3, <3>4 DEF Another, Kind
    <3>6. Unread(r)'
      BY <1>1, <2>1, <3>1 DEF Unread
    <3>7. \A n \in r+1..Len(procs') : procs'[n].kind # "write"
      BY <2>1, <3>2, <3>3
    <3>8. SearchesAt(r)'
      BY <3>2, <3>5, <3>6, <3>7 DEF SearchesAt, Kind
    <3> QED
      BY <2>1, <3>1, <3>8 DEF Discovering, SearchesTwice
  <2>6. CASE q # 1 /\ Stays(p)
    <3>1. q \in 2..Len(procs) /\ q \in All' /\ q <= 4 /\ 1 < q
      BY <1>1, <1>5, <2>1, <2>6 DEF All
    <3>2. procs'[q].kind = "service" /\ procs'[1].kind = "service"
      BY <1>5, <2>1, <2>6, <3>1 DEF Stays
    <3>3. ASSUME NEW n \in q+1..Len(procs')
          PROVE  procs'[n].kind = "cccd"
      <4>1. n \in 2..Len(procs) /\ n \in q+1..Len(procs)
        BY <1>1, <2>1, <3>1
      <4> QED
        BY <1>5, <2>6, <4>1 DEF Stays
    <3>4. Another(q)'
      BY <2>1, <3>1, <3>2, <3>3 DEF Another, Kind
    <3>5. Unread(q)'
      <4>1. ASSUME NEW i \in 1..q-1, NEW j \in 1..q-1, NEW l \in 1..q-1, i < j, j < l
            PROVE  i = 1
        BY <3>1, <4>1
      <4> QED
        BY <2>1, <3>2, <4>1 DEF Unread, Kind
    <3>6. \A n \in q+1..Len(procs') : procs'[n].kind # "write"
      BY <3>3
    <3>7. SearchesAt(q)'
      BY <3>2, <3>4, <3>5, <3>6 DEF SearchesAt, Kind
    <3> QED
      BY <2>1, <3>1, <3>7 DEF Discovering, SearchesTwice
  <2> QED
    BY <2>2, <2>3, <2>4, <2>5, <2>6
<1> QED
  BY <1>4, <1>6, <1>7

-----------------------------------------------------------------------------
(* The session has the connection to itself.                               *)

AloneAgain == ReadyInv' /\ (client'.active => ready' \/ Alone')

LEMMA AloneMoved ==
  ASSUME Start, Alone, NEW p, Moved(p), client'.service, Turn(p)', ready' = ready, ~ready
  PROVE  AloneAgain
<1>1. Len(procs) = 1
  BY DEF Alone
<1>2. Len(procs') = 1 /\ procs'[1] = p
  BY <1>1 DEF Moved, Followed, Stays
<1> QED
  BY <1>2 DEF AloneAgain, Alone, ReadyInv, ReadyIsComplete

LEMMA AloneFails ==
  ASSUME Start, Fail, ready' = ready, ~ready
  PROVE  AloneAgain
BY FailMoves DEF Start, AloneAgain, ReadyInv, ReadyIsComplete

LEMMA AloneRequest ==
  ASSUME Start, Alone, NEW c \in ClientType, NEW kind \in ProcKinds,
         NEW pos \in Nat, NEW attr \in Nat, Request(c, Rest, Proc(kind, pos, attr)),
         c.service, client' = c => Turn(Proc(kind, pos, attr))', ready' = ready, ~ready
  PROVE  AloneAgain
<1>1. CASE client'.active
  <2>1. client' = c /\ Followed(Proc(kind, pos, attr))
    BY <1>1, RequestMoves DEF Start
  <2> QED
    BY <2>1, AloneMoved DEF Moved
<1>2. CASE ~client'.active
  BY <1>2 DEF AloneAgain, ReadyInv, ReadyIsComplete
<1> QED
  BY <1>1, <1>2

\* The list is whole, and the input reports before the next one are subscribed.
LEMMA AloneNext ==
  ASSUME Start, Alone, ~ready, table' = table, NEW c \in ClientType, NextReport(c),
         c.active, c.service, Len(c.chars) = Len(table),
         \A i \in 1..Len(table) : c.chars[i] = i,
         \A j \in 1..c.index-1 : Eligible(j) /\ IsInput(j) => j \in c.accepted
  PROVE  AloneAgain
<1>0. ClientOK /\ procs # <<>> /\ Len(table) \in Nat /\ c.index \in Nat \ {0}
      /\ procs \in Seq(Procs) /\ Len(procs) = 1
  BY StartFacts DEF Start, ClientType, Alone
<1>1. ASSUME NEW j \in 1..Len(table), Eligible(j), IsInput(j), j \notin c.accepted
      PROVE  j \in Left(c)
  <2>1. j \in c.index..Len(c.chars) /\ c.chars[j] = j
    BY <1>0, <1>1
  <2> QED
    BY <1>1, <2>1 DEF Left
<1>2. CASE ~client'.active
  <2>1. ready' = ready
    BY <1>2 DEF NextReport, AllDone, ClientType
  <2> QED
    BY <1>2, <2>1 DEF AloneAgain, ReadyInv, ReadyIsComplete
<1>3. CASE /\ Left(c) = {} /\ c.input # 0 /\ c.subscribed /\ ready' = TRUE
           /\ client' = [c EXCEPT !.index = Len(c.chars) + 1] /\ procs' = Rest
  <2>1. procs' = <<>>
    BY <1>0, <1>3 DEF Rest
  <2>2. client'.input # 0 /\ client'.subscribed /\ client'.chars = c.chars
        /\ client'.accepted = c.accepted
    BY <1>3 DEF ClientType
  <2>3. ASSUME NEW k \in 1..Len(table), Eligible(k), IsInput(k)
        PROVE  \E i \in client'.accepted : i <= Len(client'.chars) /\ client'.chars[i] = k
    <3>1. k \in c.accepted
      BY <1>1, <1>3, <2>3
    <3>2. k <= Len(c.chars) /\ c.chars[k] = k
      BY <1>0
    <3> QED
      BY <2>2, <3>1, <3>2
  <2>4. ReadyIsComplete'
    BY <2>2, <2>3 DEF ReadyIsComplete, Eligible, IsInput
  <2> QED
    BY <1>3, <2>1, <2>4 DEF AloneAgain, ReadyInv
<1>4. ASSUME NEW i \in Left(c), \A j \in Left(c) : i <= j,
             client' = [c EXCEPT !.index = i], ready' = ready,
             i \in 1..Len(c.chars), Followed(Proc("dscs", i, c.chars[i]))
      PROVE  AloneAgain
  <2>1. /\ client'.service /\ client'.chars = c.chars /\ client'.index = i
        /\ client'.accepted = c.accepted
    BY <1>4 DEF ClientType
  <2>2. i \in 1..Len(table) /\ c.chars[i] = i
    BY <1>4
  <2>3. ASSUME NEW j \in 1..i-1, Eligible(j), IsInput(j)
        PROVE  j \in c.accepted
    <3>1. j \in 1..Len(table) /\ ~(i <= j)
      BY <1>0, <2>2
    <3> QED
      BY <1>1, <1>4, <2>3, <3>1
  <2>4. Accepted(i)'
    BY <2>1, <2>3 DEF Accepted, Eligible, IsInput
  <2>5. Listing(Len(table))'
    BY <2>1 DEF Listing
  <2> DEFINE p == Proc("dscs", i, c.chars[i])
  <2>6. p.kind = "dscs" /\ p.pos = i /\ p.at = 0
    BY DEF Proc
  <2> HIDE DEF p
  <2>7. Turn(p)'
    BY <1>0, <2>1, <2>2, <2>4, <2>5, <2>6 DEF Turn, ReportTurn
  <2> QED
    BY <1>4, <2>1, <2>7, AloneMoved DEF Moved, p
<1> QED
  BY <1>0, <1>2, <1>3, <1>4, NextReportMoves

LEMMA AloneService ==
  ASSUME Start, Alone, ~ready, OnService \/ OnServiceDone
  PROVE  AloneAgain
<1>0. ready' = ready /\ P.kind = "service" /\ P = procs[1] /\ client \in ClientType
      /\ table' = table /\ client.service
  BY StartFacts DEF OnService, OnServiceDone, Answer, P, Alone
<1>1. CASE Fail
  BY <1>0, <1>1, AloneFails
<1>2. CASE Request(client, Rest, Proc("chars", 0, 0))
  <2>1. client.chars = <<>> /\ client.index = 1
    BY <1>0 DEF Alone, Turn
  <2> DEFINE p == Proc("chars", 0, 0)
  <2>2. p.kind = "chars" /\ p.at = 0 /\ "chars" \in ProcKinds
    BY DEF Proc, ProcKinds
  <2> HIDE DEF p
  <2>3. client' = client => Turn(p)'
    BY <2>1, <2>2 DEF Turn, Listing
  <2> QED
    BY <1>0, <1>2, <2>2, <2>3, AloneRequest DEF p
<1> QED
  BY <1>0, <1>1, <1>2 DEF OnService, OnServiceDone

LEMMA AloneCharacteristics ==
  ASSUME Start, Alone, ~ready, OnCharacteristic \/ OnCharacteristicsDone
  PROVE  AloneAgain
<1>0. ready' = ready /\ P.kind = "chars" /\ P = procs[1] /\ client \in ClientType
      /\ table' = table /\ client.service
  BY StartFacts DEF OnCharacteristic, OnCharacteristicsDone, Answer, P, Alone
<1>1. CASE Fail
  BY <1>0, <1>1, AloneFails
<1>2. Listing(P.at) /\ client.index = 1
  BY <1>0 DEF Alone, Turn
<1>3. CASE OnCharacteristic
  <2> DEFINE x == [P EXCEPT !.at = P.at + 1]
  <2>1. ASSUME P.at + 1 \in 1..Len(table), ListedFields(P.at + 1),
               x \in Procs, x.kind = "chars", x.at = P.at + 1, Moved(x)
        PROVE  AloneAgain
    <3> HIDE DEF x
    <3>0. PICK p \in Procs : p = x
      BY <2>1
    <3>8. PICK n \in Nat : n = P.at
      BY StartFacts
    <3>1. client.chars \in Seq(1..Len(table)) /\ n \in Nat /\ Len(client.chars) = n
          /\ n + 1 \in 1..Len(table) /\ \A i \in 1..n : client.chars[i] = i
      BY <1>2, <2>1, <3>8, StartFacts DEF Listing
    <3>2. client'.service /\ client'.chars = Append(client.chars, n + 1)
          /\ client'.index = 1
      BY <1>0, <1>2, <2>1, <3>8 DEF ListedFields
    <3>3. Len(client'.chars) = n + 1 /\ client'.chars[n + 1] = n + 1
      BY <3>1, <3>2
    <3>4. \A i \in 1..n : client'.chars[i] = client.chars[i]
      BY <3>1, <3>2
    <3>5. \A i \in 1..n + 1 : client'.chars[i] = i
      <4> SUFFICES ASSUME NEW i \in 1..n + 1
                   PROVE  client'.chars[i] = i
        OBVIOUS
      <4>1. i = n + 1 \/ i \in 1..n
        BY <3>1
      <4> QED
        BY <3>1, <3>3, <3>4, <4>1
    <3>6. p.kind = "chars" /\ p.at = n + 1 /\ Moved(p)
      BY <2>1, <3>0, <3>8
    <3>7. Turn(p)'
      BY <3>2, <3>3, <3>5, <3>6 DEF Turn, Listing
    <3> QED
      BY <1>0, <3>2, <3>6, <3>7, AloneMoved
  <2> QED
    BY <1>1, <1>3, <2>1, CharacteristicFacts
<1>4. CASE OnCharacteristicsDone /\ Request(client, Rest, Proc("map", 0, client.map))
  <2>1. PICK attr \in Nat : attr = client.map
    BY StartFacts DEF ClientType
  <2> DEFINE p == Proc("map", 0, attr)
  <2>2. p.kind = "map" /\ "map" \in ProcKinds /\ P.at = Len(table)
    BY <1>4 DEF Proc, ProcKinds, OnCharacteristicsDone
  <2> HIDE DEF p
  <2>3. client' = client => Turn(p)'
    BY <1>0, <1>2, <2>2 DEF Turn, Listing
  <2> QED
    BY <1>0, <1>4, <2>1, <2>2, <2>3, AloneRequest DEF p
<1> QED
  BY <1>1, <1>3, <1>4 DEF OnCharacteristicsDone

LEMMA AloneMap ==
  ASSUME Start, Alone, ~ready, OnMapBlock \/ OnMapDone
  PROVE  AloneAgain
<1>0. P.kind = "map" /\ P = procs[1] /\ P \in Procs /\ P.at \in Nat
      /\ client \in ClientType /\ table' = table /\ client.service /\ client.active
  BY StartFacts DEF OnMapBlock, OnMapDone, Answer, Current, P, Alone
<1>1. CASE Fail /\ ready' = ready
  BY <1>1, AloneFails
<1>2. Listing(Len(table)) /\ client.index = 1
  BY <1>0 DEF Alone, Turn
<1>3. CASE /\ OnMapBlock /\ client' = [client EXCEPT !.length = @ + 1]
           /\ Again([P EXCEPT !.at = @ + 1])
  <2>1. [P EXCEPT !.at = @ + 1] \in Procs /\ [P EXCEPT !.at = @ + 1].kind = "map"
    BY <1>0 DEF Procs
  <2>2. PICK p \in Procs : p = [P EXCEPT !.at = @ + 1]
    BY <2>1
  <2>3. p.kind = "map" /\ Moved(p)
    BY <1>3, <2>1, <2>2, AgainMoves DEF Start
  <2>4. /\ client'.service /\ client'.chars = client.chars /\ client'.index = 1
    BY <1>0, <1>2, <1>3 DEF ClientType
  <2>5. Turn(p)'
    BY <1>0, <1>2, <2>3, <2>4 DEF Turn, Listing
  <2> QED
    BY <1>3, <2>3, <2>4, <2>5, AloneMoved DEF OnMapBlock
<1>4. ASSUME NEW known \in BOOLEAN,
             LET c == [client EXCEPT !.layout = known]
             IN  IF c.mode # 0
                 THEN Request(c, Rest, Proc("mode", 0, c.mode)) /\ UNCHANGED ready
                 ELSE NextReport(c)
      PROVE  AloneAgain
  <2> DEFINE x == [client EXCEPT !.layout = known]
  <2>1. x \in ClientType /\ x.service /\ x.chars = client.chars /\ x.index = 1 /\ x.active
    BY <1>0, <1>2 DEF ClientType
  <2>2. \/ Request(x, Rest, Proc("mode", 0, x.mode)) /\ UNCHANGED ready
        \/ NextReport(x)
    BY <1>4
  <2> HIDE DEF x
  <2>3. PICK c \in ClientType : c = x
    BY <2>1
  <2>4. PICK attr \in Nat : attr = c.mode
    BY StartFacts DEF ClientType
  <2>5. CASE Request(x, Rest, Proc("mode", 0, x.mode)) /\ ready' = ready
    <3> DEFINE p == Proc("mode", 0, attr)
    <3>1. p.kind = "mode" /\ "mode" \in ProcKinds
      BY DEF Proc, ProcKinds
    <3> HIDE DEF p
    <3>2. client' = c => Turn(p)'
      BY <1>0, <1>2, <2>1, <2>3, <3>1 DEF Turn, Listing
    <3>3. Request(c, Rest, p) /\ c.service
      BY <2>1, <2>3, <2>4, <2>5 DEF p
    <3> QED
      BY <2>5, <3>1, <3>2, <3>3, AloneRequest DEF p
  <2>6. CASE NextReport(x)
    <3>1. NextReport(c) /\ c.active /\ c.service /\ Len(c.chars) = Len(table)
          /\ \A i \in 1..Len(table) : c.chars[i] = i
      BY <1>2, <2>1, <2>3, <2>6 DEF Listing
    <3>2. \A j \in 1..c.index-1 : FALSE
      BY <2>1, <2>3
    <3> QED
      BY <1>0, <3>1, <3>2, AloneNext
  <2> QED
    BY <2>2, <2>5, <2>6
<1> QED
  BY <1>1, <1>3, <1>4 DEF OnMapBlock, OnMapDone

LEMMA AloneMode ==
  ASSUME Start, Alone, ~ready, OnProtocolMode
  PROVE  AloneAgain
<1>0. P.kind = "mode" /\ P = procs[1] /\ client \in ClientType /\ table' = table
      /\ client.service /\ client.active
  BY StartFacts DEF OnProtocolMode, Answer, Current, P, Alone
<1>1. CASE Fail /\ ready' = ready
  BY <1>1, AloneFails
<1>2. Listing(Len(table)) /\ client.index = 1
  BY <1>0 DEF Alone, Turn
<1>3. CASE NextReport(client)
  <2>1. PICK c \in ClientType : c = client
    BY <1>0
  <2>2. NextReport(c) /\ c.active /\ c.service /\ Len(c.chars) = Len(table)
        /\ \A i \in 1..Len(table) : c.chars[i] = i
    BY <1>0, <1>2, <1>3, <2>1 DEF Listing
  <2>3. \A j \in 1..c.index-1 : FALSE
    BY <1>2, <2>1
  <2> QED
    BY <1>0, <2>2, <2>3, AloneNext
<1> QED
  BY <1>1, <1>3 DEF OnProtocolMode

\* The report whose turn it is.
LEMMA TurnFacts ==
  ASSUME Start, Alone, P.kind \in {"dscs", "ref", "write", "cccd"}
  PROVE  /\ client.index \in 1..Len(table) /\ P.pos = client.index
         /\ client.chars[client.index] = client.index
         /\ Len(client.chars) = Len(table) /\ client.service /\ client.active
         /\ \A i \in 1..Len(table) : client.chars[i] = i
         /\ Accepted(client.index) /\ ReportTurn(P)
<1>1. P = procs[1] /\ client \in ClientType /\ Len(table) \in Nat
  BY StartFacts
<1>2. ReportTurn(P) /\ client.service /\ client.active
  BY <1>1 DEF Alone, Turn, Start, Current
<1>3. client.index \in Nat \ {0}
  BY <1>1 DEF ClientType
<1>4. client.index \in 1..Len(table)
  BY <1>1, <1>2, <1>3 DEF ReportTurn
<1> QED
  BY <1>2, <1>4 DEF ReportTurn, Listing

\* The next report after one that is subscribed or is no input report.
LEMMA AlonePassed ==
  ASSUME Start, Alone, ~ready, P.kind \in {"dscs", "ref", "cccd"}, table' = table,
         NEW c \in ClientType, NextReport(c), c.active, c.service,
         c.chars = client.chars, c.index = client.index + 1, c.accepted = client.accepted,
         IsInput(client.index) => client.index \in client.accepted
  PROVE  AloneAgain
<1>1. ASSUME NEW j \in 1..c.index-1, Eligible(j), IsInput(j)
      PROVE  j \in c.accepted
  <2>1. j = client.index \/ j \in 1..client.index-1
    BY TurnFacts, StartFacts
  <2> QED
    BY <1>1, <2>1, TurnFacts DEF Accepted
<1>2. Len(c.chars) = Len(table) /\ \A i \in 1..Len(table) : c.chars[i] = i
  BY TurnFacts
<1> QED
  BY <1>1, <1>2, AloneNext

\* The turn of a report is the turn of the procedure that goes on with it.
LEMMA TurnKept ==
  ASSUME Start, Alone, P.kind \in {"dscs", "ref", "write", "cccd"}, table' = table,
         NEW p, p.kind \in {"dscs", "ref", "write", "cccd"}, p.pos = P.pos,
         client'.chars = client.chars, client'.index = client.index,
         client.accepted \subseteq client'.accepted,
         p.kind = "dscs" /\ p.at # 0 => p.pos \in client'.described,
         p.kind = "cccd" => client.index \in client'.accepted
  PROVE  Turn(p)'
<1>1. Accepted(client.index)'
  BY TurnFacts DEF Accepted, Eligible, IsInput
<1>2. Listing(Len(table))'
  BY TurnFacts DEF Listing
<1>3. p.pos = client'.index /\ client'.index <= Len(table')
  BY TurnFacts, StartFacts
<1>4. ReportTurn(p)'
  BY <1>1, <1>2, <1>3 DEF ReportTurn
<1> QED
  BY <1>4 DEF Turn

LEMMA AloneDescriptors ==
  ASSUME Start, Alone, ~ready, OnDescriptors \/ OnDescriptorsDone
  PROVE  AloneAgain
<1>0. P.kind = "dscs" /\ P \in Procs /\ client \in ClientType /\ P.pos \in Nat
      /\ table' = table /\ client.described \subseteq Nat
  BY StartFacts DEF OnDescriptors, OnDescriptorsDone, Answer, P, ClientType
<1>1. CASE Fail /\ ready' = ready
  BY <1>1, AloneFails
<1>2. CASE /\ OnDescriptors /\ client' = [client EXCEPT !.described = @ \union {P.pos}]
           /\ Again([P EXCEPT !.at = 1])
  <2>1. /\ [P EXCEPT !.at = 1] \in Procs /\ [P EXCEPT !.at = 1].kind = "dscs"
        /\ [P EXCEPT !.at = 1].pos = P.pos
    BY <1>0 DEF Procs
  <2>2. PICK p \in Procs : p = [P EXCEPT !.at = 1]
    BY <2>1
  <2>3. p.kind = "dscs" /\ p.pos = P.pos /\ Moved(p)
    BY <1>2, <2>1, <2>2, AgainMoves DEF Start
  <2>4. /\ client'.service = client.service /\ client'.chars = client.chars
        /\ client'.index = client.index /\ client'.accepted = client.accepted
        /\ P.pos \in client'.described
    BY <1>0, <1>2 DEF ClientType
  <2>5. Turn(p)'
    BY <1>0, <2>3, <2>4, TurnKept
  <2> QED
    BY <1>0, <1>2, <2>3, <2>4, <2>5, TurnFacts, AloneMoved DEF OnDescriptors
<1>3. CASE OnDescriptorsDone
  <2>1. P.pos \in client.described /\ P.pos = client.index
        /\ client.chars[P.pos] = client.index
    BY <1>0, <1>3, TurnFacts DEF OnDescriptorsDone, ReportTurn
  <2>2. CASE /\ Request(client, Rest, Proc("ref", P.pos, client.chars[P.pos]))
             /\ ready' = ready
    <3>1. PICK pos \in Nat : pos = P.pos /\ client.chars[P.pos] = pos
      BY <1>0, <2>1
    <3> DEFINE p == Proc("ref", pos, pos)
    <3>2. p.kind = "ref" /\ p.pos = P.pos /\ "ref" \in ProcKinds
      BY <3>1 DEF Proc, ProcKinds
    <3> HIDE DEF p
    <3>3. client' = client => Turn(p)'
      BY <1>0, <3>2, TurnKept
    <3> QED
      BY <1>0, <2>2, <3>1, <3>2, <3>3, TurnFacts, AloneRequest DEF p
  <2>3. CASE NextReport(Skipped) /\ table[client.chars[P.pos]].ref = "none"
    <3>1. PICK c \in ClientType : c = Skipped
      BY SkippedFacts
    <3>2. /\ NextReport(c) /\ c.active /\ c.service /\ c.chars = client.chars
          /\ c.index = client.index + 1 /\ c.accepted = client.accepted
      <4>1. Skipped.active = client.active
        BY <1>0 DEF Skipped, ClientType
      <4> QED
        BY <1>0, <2>3, <3>1, <4>1, SkippedFacts, TurnFacts
    <3>3. ~IsInput(client.index)
      BY <2>1, <2>3 DEF IsInput
    <3> QED
      BY <1>0, <3>2, <3>3, AlonePassed
  <2> QED
    BY <1>3, <2>1, <2>2, <2>3 DEF OnDescriptorsDone
<1> QED
  BY <1>1, <1>2, <1>3 DEF OnDescriptors

LEMMA AloneReference ==
  ASSUME Start, Alone, ~ready, OnReference
  PROVE  AloneAgain
<1>0. P.kind = "ref" /\ client \in ClientType /\ P.pos \in Nat /\ table' = table
      /\ Len(table) \in Nat
  BY StartFacts DEF OnReference, Answer, P
<1>1. CASE Fail /\ UNCHANGED ready
  BY <1>1, AloneFails
<1>2. P.pos = client.index /\ client.chars[P.pos] = client.index
      /\ client.index \in 1..Len(table) /\ client.service /\ client.active
  BY <1>0, TurnFacts
<1>3. CASE Listed /\ P.pos \in client.described
  <2> DEFINE k == client.chars[P.pos]
             c == [client EXCEPT !.known = @ \union {P.pos},
                                 !.input = IF table[k].ref = "keyboard" THEN k ELSE @]
             d == [Skipped EXCEPT !.known = @ \union {P.pos}]
  <2>1. \/ NextReport(d) /\ ~IsInput(k)
        \/ Request(c, Rest, Proc("write", P.pos, k)) /\ UNCHANGED ready
        \/ Fail /\ UNCHANGED ready
    BY <1>3, Zenon DEF OnReference
  <2>2. CASE NextReport(d) /\ ~IsInput(k)
    <3>1. /\ d \in ClientType /\ d.service = client.service /\ d.chars = client.chars
          /\ d.index = client.index + 1 /\ d.accepted = client.accepted
          /\ d.active = client.active
      <4>1. Skipped.active = client.active
        BY <1>0 DEF Skipped, ClientType
      <4> QED
        BY <1>0, <4>1, SkippedFacts DEF ClientType
    <3> HIDE DEF d
    <3>2. PICK e \in ClientType : e = d
      BY <3>1
    <3>3. /\ NextReport(e) /\ e.active /\ e.service /\ e.chars = client.chars
          /\ e.index = client.index + 1 /\ e.accepted = client.accepted
      BY <1>2, <2>2, <3>1, <3>2
    <3>4. ~IsInput(client.index)
      BY <1>2, <2>2
    <3> QED
      BY <1>0, <3>3, <3>4, AlonePassed
  <2>3. CASE Request(c, Rest, Proc("write", P.pos, k)) /\ UNCHANGED ready
    <3>1. k = client.index /\ k \in 0..Len(table)
      BY <1>0, <1>2
    <3>2. /\ c \in ClientType /\ c.service = client.service /\ c.chars = client.chars
          /\ c.index = client.index /\ c.accepted = client.accepted
      BY <1>0, <3>1 DEF ClientType
    <3> HIDE DEF c
    <3>3. PICK e \in ClientType : e = c
      BY <3>2
    <3>4. PICK pos \in Nat : pos = P.pos
      BY <1>0
    <3> DEFINE p == Proc("write", pos, pos)
    <3>5. p.kind = "write" /\ p.pos = P.pos /\ "write" \in ProcKinds
      BY <3>4 DEF Proc, ProcKinds
    <3>6. Request(e, Rest, p) /\ e.service /\ ready' = ready
      BY <1>2, <2>3, <3>1, <3>2, <3>3, <3>4
    <3> HIDE DEF p
    <3>7. client' = e => Turn(p)'
      BY <1>0, <3>2, <3>3, <3>5, TurnKept
    <3> QED
      BY <3>5, <3>6, <3>7, AloneRequest DEF p
  <2>4. CASE Fail /\ UNCHANGED ready
    BY <2>4, AloneFails
  <2> HIDE DEF c, d, k
  <2> QED
    BY <2>1, <2>2, <2>3, <2>4
<1> QED
  BY <1>1, <1>3 DEF OnReference

LEMMA AloneSubscription ==
  ASSUME Start, Alone, ~ready, OnSubscribed \/ OnCccdRead
  PROVE  AloneAgain
<1>0. client \in ClientType /\ P.pos \in Nat /\ P.attr \in Nat /\ table' = table
  BY StartFacts DEF OnSubscribed, OnCccdRead
<1>1. CASE OnSubscribed
  <2> DEFINE keyboard == P.pos \in client.known /\ table[client.chars[P.pos]].ref = "keyboard"
             x == [client EXCEPT !.accepted = @ \union {P.pos},
                                 !.subscribed = @ \/ keyboard]
  <2>1. P.kind = "write" /\ Request(x, Rest, Proc("cccd", P.pos, P.attr)) /\ ready' = ready
    BY <1>1 DEF OnSubscribed, Answer, P
  <2>2. (client.subscribed \/ keyboard) \in BOOLEAN
    OBVIOUS
  <2> HIDE DEF keyboard
  <2>3. /\ x \in ClientType /\ x.service = client.service /\ x.chars = client.chars
        /\ x.index = client.index /\ x.accepted = client.accepted \union {P.pos}
    BY <1>0, <2>2 DEF ClientType
  <2> HIDE DEF x
  <2>4. PICK c \in ClientType : c = x
    BY <2>3
  <2>5. PICK pos \in Nat, attr \in Nat : pos = P.pos /\ attr = P.attr
    BY <1>0
  <2> DEFINE p == Proc("cccd", pos, attr)
  <2>6. p.kind = "cccd" /\ p.pos = P.pos /\ "cccd" \in ProcKinds
    BY <2>5 DEF Proc, ProcKinds
  <2>7. Request(c, Rest, p) /\ c.service
    BY <2>1, <2>3, <2>4, <2>5, TurnFacts
  <2> HIDE DEF p
  <2>8. client' = c => Turn(p)'
    BY <1>0, <2>1, <2>3, <2>4, <2>6, TurnFacts, TurnKept
  <2> QED
    BY <2>1, <2>6, <2>7, <2>8, AloneRequest DEF p
<1>2. CASE OnCccdRead
  <2>1. P.kind = "cccd"
    BY <1>2 DEF OnCccdRead, Answer, P
  <2>2. CASE Fail /\ UNCHANGED ready
    BY <2>2, AloneFails
  <2>3. CASE NextReport(Skipped)
    <3>1. PICK c \in ClientType : c = Skipped
      BY SkippedFacts
    <3>2. /\ NextReport(c) /\ c.active /\ c.service /\ c.chars = client.chars
          /\ c.index = client.index + 1 /\ c.accepted = client.accepted
      <4>1. Skipped.active = client.active
        BY <1>0 DEF Skipped, ClientType
      <4> QED
        BY <2>1, <2>3, <3>1, <4>1, SkippedFacts, TurnFacts
    <3>3. client.index \in client.accepted
      BY <2>1, TurnFacts DEF ReportTurn
    <3> QED
      BY <1>0, <2>1, <3>2, <3>3, AlonePassed
  <2> QED
    BY <1>2, <2>2, <2>3 DEF OnCccdRead
<1> QED
  BY <1>1, <1>2

LEMMA AloneStep ==
  ASSUME Start, Alone, ~ready, Callback
  PROVE  AloneAgain
<1>1. CASE Refused
  BY <1>1, AloneFails DEF Refused
<1>2. CASE Ignored
  BY <1>2 DEF Ignored, Start
<1> QED
  BY <1>1, <1>2, AloneService, AloneCharacteristics, AloneMap, AloneMode,
     AloneDescriptors, AloneReference, AloneSubscription
     DEF Callback

-----------------------------------------------------------------------------
(* What holds of every session, active or not.                             *)

Settled == Addressed /\ EmptyClient

SameMap(c) ==
  /\ c.chars = client.chars /\ c.map = client.map /\ c.mode = client.mode
  /\ c.length = client.length

LEMMA AddressedNext ==
  ASSUME ClientOK, Addressed, procs # <<>>, NEW p \in Procs,
         p.kind \in {"map", "mode"} => p.attr # 0,
         Followed(p) \/ Stays(p) \/ procs' = Rest
  PROVE  Addressed'
<1>0. procs \in Seq(Procs) /\ Len(procs) \in Nat \ {0}
  BY DEF ClientOK
<1>1. CASE Followed(p)
  <2> SUFFICES ASSUME NEW n \in 1..Len(procs'), procs'[n].kind \in {"map", "mode"}
               PROVE  procs'[n].attr # 0
    BY DEF Addressed, All
  <2>1. n = Len(procs) \/ (n \in 1..Len(procs)-1 /\ n + 1 \in 1..Len(procs))
    BY <1>0, <1>1 DEF Followed
  <2> QED
    BY <1>1, <2>1 DEF Followed, Addressed, All
<1>2. CASE Stays(p)
  <2> SUFFICES ASSUME NEW n \in 1..Len(procs'), procs'[n].kind \in {"map", "mode"}
               PROVE  procs'[n].attr # 0
    BY DEF Addressed, All
  <2>1. n = 1 \/ (n \in 2..Len(procs) /\ n \in 1..Len(procs))
    BY <1>0, <1>2 DEF Stays
  <2> QED
    BY <1>2, <2>1 DEF Stays, Addressed, All
<1>3. CASE procs' = Rest
  <2>1. Len(procs') = Len(procs) - 1 /\ \A n \in 1..Len(procs') : procs'[n] = procs[n + 1]
    BY <1>0, <1>3 DEF Rest
  <2>2. \A n \in 1..Len(procs') : n + 1 \in 1..Len(procs)
    BY <1>0, <2>1
  <2> QED
    BY <2>1, <2>2 DEF Addressed, All
<1> QED
  BY <1>1, <1>2, <1>3

\* The oldest procedure goes on or ends, and the client keeps what it has listed.
LEMMA OldestKeeps ==
  ASSUME ClientOK, Settled, procs # <<>>, SameMap(client'),
         NEW n \in Nat, Again([P EXCEPT !.at = n]) \/ procs' = Rest
  PROVE  Settled'
<1>1. P \in Procs /\ P = procs[1] /\ 1 \in All
  BY Begun DEF P, All, ClientOK
<1>2. /\ [P EXCEPT !.at = n] \in Procs /\ [P EXCEPT !.at = n].kind = P.kind
      /\ [P EXCEPT !.at = n].attr = P.attr
  BY <1>1 DEF Procs
<1>3. P.kind \in {"map", "mode"} => P.attr # 0
  BY <1>1 DEF Settled, Addressed
<1>4. PICK p \in Procs : p = [P EXCEPT !.at = n]
  BY <1>2
<1>5. Followed(p) \/ Stays(p) \/ procs' = Rest
  BY <1>4, AgainMoves DEF Moved
<1>6. Addressed'
  BY <1>2, <1>3, <1>4, <1>5, AddressedNext DEF Settled
<1> QED
  BY <1>6 DEF Settled, EmptyClient, SameMap

LEMMA RequestKeeps ==
  ASSUME ClientOK, Settled, procs # <<>>, NEW c \in ClientType, SameMap(c),
         NEW kind \in ProcKinds, NEW pos \in Nat, NEW attr \in Nat,
         kind \in {"map", "mode"} => attr # 0, Request(c, Rest, Proc(kind, pos, attr))
  PROVE  Settled'
<1> DEFINE p == Proc(kind, pos, attr)
<1>1. p \in Procs /\ p.kind = kind /\ p.attr = attr
  BY ProcType DEF Proc
<1> HIDE DEF p
<1>2. Followed(p) \/ procs' = Rest
  BY <1>1, FollowedFacts DEF Request, p
<1>3. SameMap(client')
  BY DEF Request, SameMap, ClientType
<1>4. Addressed'
  BY <1>1, <1>2, AddressedNext DEF Settled
<1> QED
  BY <1>3, <1>4 DEF Settled, EmptyClient, SameMap

LEMMA NextReportKeeps ==
  ASSUME ClientOK, Settled, procs # <<>>, NEW c \in ClientType, SameMap(c), NextReport(c)
  PROVE  Settled'
<1>1. ASSUME NEW i \in Left(c), Request([c EXCEPT !.index = i], Rest, Proc("dscs", i, c.chars[i]))
      PROVE  Settled'
  <2>1. i \in Nat \ {0} /\ i \in 1..Len(c.chars)
    BY DEF Left, ClientType
  <2>2. c.chars[i] \in Nat /\ "dscs" \in ProcKinds
    BY <2>1 DEF ClientType, ProcKinds
  <2>3. [c EXCEPT !.index = i] \in ClientType /\ SameMap([c EXCEPT !.index = i])
    BY <2>1 DEF ClientType, SameMap
  <2> QED
    BY <1>1, <2>1, <2>2, <2>3, RequestKeeps
<1>2. CASE AllDone(c)
  <2>1. SameMap(client') /\ procs' = Rest
    BY <1>2 DEF AllDone, SameMap, ClientType
  <2> QED
    BY <2>1, OldestKeeps
<1> QED
  BY <1>1, <1>2 DEF NextReport

LEMMA FailKeeps ==
  ASSUME ClientOK, Settled, procs # <<>>, Fail
  PROVE  Settled'
<1>1. SameMap(client') /\ procs' = Rest
  BY FailMoves DEF SameMap, Fail
<1> QED
  BY <1>1, OldestKeeps

LEMMA SettledStep ==
  ASSUME ClientOK, Settled, Callback
  PROVE  Settled'
<1>0. procs # <<>> /\ client \in ClientType /\ P \in Procs /\ P.at \in Nat /\ P.pos \in Nat
      /\ P.attr \in Nat /\ 0 \in Nat
      /\ client.described \subseteq DOMAIN client.chars
  <2>1. procs # <<>>
    BY DEF Callback, Refused, Ignored, OnService, OnServiceDone, OnCharacteristic,
       OnCharacteristicsDone, OnMapBlock, OnMapDone, OnProtocolMode, OnDescriptors,
       OnDescriptorsDone, OnReference, OnSubscribed, OnCccdRead, Answer
  <2> QED
    BY <2>1, Begun DEF Procs, ClientOK
<1>1. CASE Fail
  BY <1>0, <1>1, FailKeeps
<1>2. CASE Ignored
  <2>1. SameMap(client')
    BY <1>2 DEF Ignored, SameMap
  <2>2. P.at + 1 \in Nat
    BY <1>0
  <2>3. \E n \in Nat : Again([P EXCEPT !.at = n]) \/ procs' = Rest
    BY <1>0, <1>2, <2>2 DEF Ignored
  <2> QED
    BY <1>0, <2>1, <2>3, OldestKeeps
<1>3. CASE OnService /\ ~Fail
  <2>1. SameMap(client') /\ Again(P)
    BY <1>0, <1>3 DEF OnService, SameMap, ClientType
  <2>2. P = [P EXCEPT !.at = P.at]
    BY <1>0 DEF Procs
  <2> QED
    BY <1>0, <2>1, <2>2, OldestKeeps
<1>4. CASE OnServiceDone /\ ~Fail
  BY <1>0, <1>4, RequestKeeps DEF OnServiceDone, SameMap, ProcKinds
<1>5. CASE OnCharacteristic /\ ~Fail
  <2> DEFINE k == P.at + 1
             kind == table[k].kind
             m == IF kind = "map" THEN k ELSE client.map
             n == IF kind = "mode" THEN k ELSE client.mode
  <2>1. client' = [client EXCEPT !.chars = Append(@, k), !.map = m, !.mode = n]
        /\ Again([P EXCEPT !.at = k])
    BY <1>5 DEF OnCharacteristic
  <2>2. k \in Nat
    BY <1>0
  <2> HIDE DEF k, m, n
  <2>3. client'.chars = Append(client.chars, k)
    BY <1>0, <2>1 DEF ClientType
  <2>4. client'.chars # <<>>
    <3>1. Len(Append(client.chars, k)) = Len(client.chars) + 1 /\ Len(client.chars) \in Nat
      <4>1. Len(table) \in Nat
        BY ClientAssumption DEF ClientOK
      <4>2. client.chars \in Seq(Nat)
        BY <1>0, <4>1 DEF ClientType
      <4> QED
        BY <4>2, <2>2
    <3> QED
      BY <2>3, <3>1
  <2>5. PICK p \in Procs : p = [P EXCEPT !.at = k] /\ p.kind = P.kind
    <3>1. [P EXCEPT !.at = k] \in Procs /\ [P EXCEPT !.at = k].kind = P.kind
      BY <1>0, <2>2 DEF Procs
    <3> QED
      BY <3>1
  <2>6. Followed(p) \/ Stays(p)
    BY <1>0, <2>1, <2>5, AgainMoves DEF Moved
  <2>7. P.kind = "chars"
    BY <1>5 DEF OnCharacteristic, Answer, P
  <2>8. Addressed'
    BY <1>0, <2>5, <2>6, <2>7, AddressedNext DEF Settled
  <2> QED
    BY <2>4, <2>8 DEF Settled, EmptyClient
<1>6. CASE OnCharacteristicsDone /\ ~Fail
  <2>1. client.map \in Nat
    <3>1. Len(table) \in Nat
      BY ClientAssumption DEF ClientOK
    <3> QED
      BY <1>0, <3>1 DEF ClientType
  <2> QED
    BY <1>0, <1>6, <2>1, RequestKeeps DEF OnCharacteristicsDone, SameMap, ProcKinds
<1>7. CASE OnMapBlock /\ ~Fail
  <2>1. /\ P.kind = "map" /\ P.attr = client.map
        /\ client' = [client EXCEPT !.length = @ + 1] /\ Again([P EXCEPT !.at = @ + 1])
    BY <1>7 DEF OnMapBlock, Answer, P
  <2>2. P = procs[1] /\ 1 \in All
    BY <1>0 DEF P, All, ClientOK
  <2>3. P.attr # 0
    BY <2>1, <2>2 DEF Settled, Addressed
  <2>4. client.chars # <<>>
    BY <2>1, <2>3 DEF Settled, EmptyClient
  <2>5. client'.chars # <<>>
    BY <1>0, <2>1, <2>4 DEF ClientType
  <2>6. P.at + 1 \in Nat
    BY <1>0
  <2>7. PICK p \in Procs : p = [P EXCEPT !.at = @ + 1] /\ p.attr = P.attr
    <3>1. [P EXCEPT !.at = @ + 1] \in Procs /\ [P EXCEPT !.at = @ + 1].attr = P.attr
      BY <1>0, <2>6 DEF Procs
    <3> QED
      BY <3>1
  <2>8. Followed(p) \/ Stays(p)
    BY <1>0, <2>1, <2>7, AgainMoves DEF Moved
  <2>9. Addressed'
    BY <1>0, <2>3, <2>7, <2>8, AddressedNext DEF Settled
  <2> QED
    BY <2>5, <2>9 DEF Settled, EmptyClient
<1>8. ASSUME OnMapDone, ~Fail
      PROVE  Settled'
  <2>1. PICK known \in BOOLEAN :
          LET c == [client EXCEPT !.layout = known]
          IN  IF c.mode # 0
              THEN Request(c, Rest, Proc("mode", 0, c.mode)) /\ UNCHANGED ready
              ELSE NextReport(c)
    BY <1>8 DEF OnMapDone
  <2> DEFINE c == [client EXCEPT !.layout = known]
  <2>2. c \in ClientType /\ SameMap(c)
    BY <1>0 DEF ClientType, SameMap
  <2>3. \/ c.mode # 0 /\ Request(c, Rest, Proc("mode", 0, c.mode))
        \/ NextReport(c)
    BY <2>1
  <2> HIDE DEF c
  <2>4. c.mode \in Nat /\ "mode" \in ProcKinds
    <3>1. Len(table) \in Nat
      BY ClientAssumption DEF ClientOK
    <3> QED
      BY <2>2, <3>1 DEF ClientType, ProcKinds
  <2>5. CASE c.mode # 0 /\ Request(c, Rest, Proc("mode", 0, c.mode))
    BY <1>0, <2>2, <2>4, <2>5, RequestKeeps
  <2>6. CASE NextReport(c)
    BY <1>0, <2>2, <2>6, NextReportKeeps
  <2> QED
    BY <2>3, <2>5, <2>6
<1>9. CASE OnProtocolMode /\ ~Fail
  <2>1. SameMap(client)
    BY DEF SameMap
  <2> QED
    BY <1>0, <1>9, <2>1, NextReportKeeps DEF OnProtocolMode
<1>10. Skipped \in ClientType /\ SameMap(Skipped)
  <2>1. client.index \in Nat \ {0}
    BY <1>0 DEF ClientType
  <2>2. client.index + 1 \in Nat \ {0}
    BY <2>1
  <2> QED
    BY <1>0, <2>2 DEF Skipped, ClientType, SameMap
<1>11. CASE OnDescriptors /\ ~Fail
  <2>1. SameMap(client') /\ Again([P EXCEPT !.at = 1])
    BY <1>0, <1>11 DEF OnDescriptors, SameMap, ClientType
  <2> QED
    BY <1>0, <2>1, OldestKeeps
<1>12. CASE OnDescriptorsDone
  <2>1. ASSUME P.pos \in client.described,
               Request(client, Rest, Proc("ref", P.pos, client.chars[P.pos]))
        PROVE  Settled'
    <3>1. Len(table) \in Nat /\ P.pos \in DOMAIN client.chars
      BY <1>0, <2>1, ClientAssumption DEF ClientOK
    <3>2. client.chars[P.pos] \in Nat /\ "ref" \in ProcKinds /\ SameMap(client)
      BY <1>0, <3>1 DEF ClientType, ProcKinds, SameMap
    <3> QED
      BY <1>0, <2>1, <3>2, RequestKeeps
  <2>2. CASE NextReport(Skipped)
    BY <1>0, <1>10, <2>2, NextReportKeeps
  <2> QED
    BY <1>12, <2>1, <2>2 DEF OnDescriptorsDone
<1>13. CASE OnReference /\ ~Fail
  <2> DEFINE k == client.chars[P.pos]
             c == [client EXCEPT !.known = @ \union {P.pos},
                                 !.input = IF table[k].ref = "keyboard" THEN k ELSE @]
             d == [Skipped EXCEPT !.known = @ \union {P.pos}]
  <2>1. \/ NextReport(d)
        \/ Listed /\ Request(c, Rest, Proc("write", P.pos, k))
    BY <1>13, Zenon DEF OnReference
  <2>2. CASE NextReport(d)
    <3>1. d \in ClientType /\ SameMap(d)
      BY <1>0, <1>10 DEF ClientType, SameMap
    <3> QED
      BY <1>0, <2>2, <3>1, NextReportKeeps
  <2>3. CASE Listed /\ Request(c, Rest, Proc("write", P.pos, k))
    <3>1. Len(table) \in Nat /\ P.pos \in DOMAIN client.chars
      BY <2>3, ClientAssumption DEF ClientOK, Listed
    <3>2. k \in 1..Len(table) /\ k \in 0..Len(table) /\ k \in Nat /\ "write" \in ProcKinds
      <4>1. client.chars \in Seq(1..Len(table))
        BY <1>0 DEF ClientType
      <4>2. k \in 1..Len(table)
        BY <3>1, <4>1
      <4> QED
        BY <3>1, <4>2 DEF ProcKinds
    <3>3. c \in ClientType /\ SameMap(c)
      BY <1>0, <3>2 DEF ClientType, SameMap
    <3> HIDE DEF c, k
    <3> QED
      BY <1>0, <2>3, <3>2, <3>3, RequestKeeps
  <2> QED
    BY <2>1, <2>2, <2>3
<1>14. CASE OnSubscribed
  <2> DEFINE keyboard == P.pos \in client.known /\ table[client.chars[P.pos]].ref = "keyboard"
             c == [client EXCEPT !.accepted = @ \union {P.pos},
                                 !.subscribed = @ \/ keyboard]
  <2>1. Request(c, Rest, Proc("cccd", P.pos, P.attr))
    BY <1>14 DEF OnSubscribed
  <2>2. (client.subscribed \/ keyboard) \in BOOLEAN
    OBVIOUS
  <2> HIDE DEF keyboard
  <2>3. c \in ClientType /\ SameMap(c)
    BY <1>0, <2>2 DEF ClientType, SameMap
  <2> HIDE DEF c
  <2>4. "cccd" \in ProcKinds
    BY DEF ProcKinds
  <2> QED
    BY <1>0, <2>1, <2>3, <2>4, RequestKeeps
<1>15. CASE OnCccdRead /\ ~Fail
  BY <1>0, <1>10, <1>15, NextReportKeeps DEF OnCccdRead
<1> QED
  BY <1>1, <1>2, <1>3, <1>4, <1>5, <1>6, <1>7, <1>8, <1>9, <1>11, <1>12, <1>13, <1>14,
     <1>15, Zenon DEF Callback, Refused

-----------------------------------------------------------------------------
(* Every step of the BLE side.                                             *)

\* A callback in a session that is current.
LEMMA DiscoveringStep ==
  ASSUME FewProcs, Start, Discovering, ~ready, Callback
  PROVE  AloneAgain \/ (~ready' /\ (client'.active => Discovering'))
<1>1. CASE Alone
  BY <1>1, AloneStep
<1>2. CASE ~Alone
  <2>1. ~client.subscribed
    BY <1>2 DEF Discovering, Waiting, SearchesTwice, ListsTwice, ListsAgain, ReadsEarly,
       Unsubscribed
  <2>2. ready' = ready /\ (client'.active => \E p \in Procs : GoesAs(p))
    BY <2>1, CallbackOutcome DEF GoesOnOrEnds
  <2>3. ASSUME NEW p \in Procs, GoesAs(p)
        PROVE  Discovering'
    <3>1. CASE Waiting
      BY <2>3, <3>1, WaitingStep
    <3>2. CASE SearchesTwice
      <4>1. PICK q \in All : SearchesAt(q)
        BY <3>2 DEF SearchesTwice
      <4>2. CASE q = 1
        BY <2>3, <3>2, <4>1, <4>2, SearchedStep DEF SearchesTwice, Discovering
      <4>3. CASE q # 1
        BY <2>3, <3>2, <4>1, <4>3, SearchesStep DEF SearchesTwice, Discovering
      <4> QED
        BY <4>2, <4>3
    <3>3. CASE ListsTwice
      BY <2>3, <3>3, ListsTwiceStep DEF Discovering
    <3>4. CASE ListsAgain
      BY <2>3, <3>4, ListsAgainStep DEF Discovering
    <3>5. CASE ReadsEarly
      BY <2>3, <3>5, ReadsEarlyStep DEF Discovering
    <3> QED
      BY <1>2, <3>1, <3>2, <3>3, <3>4, <3>5 DEF Discovering
  <2> QED
    BY <2>2, <2>3
<1> QED
  BY <1>1, <1>2

LEMMA CompleteCallback ==
  ASSUME FewProcs, ClientOK, SessionInv, CompleteInv, Callback
  PROVE  CompleteInv'
<1>1. procs # <<>> /\ ~ready
  <2>1. procs # <<>>
    BY DEF Callback, Refused, Ignored, OnService, OnServiceDone, OnCharacteristic,
       OnCharacteristicsDone, OnMapBlock, OnMapDone, OnProtocolMode, OnDescriptors,
       OnDescriptorsDone, OnReference, OnSubscribed, OnCccdRead, Answer
  <2> QED
    BY <2>1 DEF CompleteInv, ReadyInv
<1>2. Settled'
  BY SettledStep DEF CompleteInv, Settled
<1>3. CASE client.active
  <2>1. Start /\ Discovering
    BY <1>1, <1>3 DEF Start, CompleteInv, SessionInv, ClientRuns, SessionSecured, Current
  <2>2. AloneAgain \/ (~ready' /\ (client'.active => Discovering'))
    BY <1>1, <2>1, DiscoveringStep
  <2> QED
    BY <1>2, <2>2 DEF CompleteInv, Settled, AloneAgain, ReadyInv, ReadyIsComplete, Discovering
<1>4. CASE ~client.active
  <2>1. ready' = ready /\ client' = client
    BY <1>4 DEF Callback, Refused, Ignored, OnService, OnServiceDone, OnCharacteristic,
       OnCharacteristicsDone, OnMapBlock, OnMapDone, OnProtocolMode, OnDescriptors,
       OnDescriptorsDone, OnReference, OnSubscribed, OnCccdRead, Answer, Current
  <2> QED
    BY <1>1, <1>2, <1>4, <2>1 DEF CompleteInv, Settled, ReadyInv, ReadyIsComplete
<1> QED
  BY <1>3, <1>4

\* The client, its procedures and its report of a remote stay as they are.
LEMMA CompleteIdle ==
  ASSUME CompleteInv, UNCHANGED <<table, client, procs, ready>>
  PROVE  CompleteInv'
BY DEF CompleteInv, Addressed, All, EmptyClient, ReadyInv, ReadyIsComplete, Eligible, IsInput,
   Discovering, Waiting, WaitsAt, Unsubscribed, Kind, Alone, Turn, ReportTurn, Listing, Accepted,
   SearchesTwice, SearchesAt, Unread, Another, Early, ListsTwice, ListsAgain, ListsAt, ReadsEarly

\* The session is over; its procedures go on, or end with the connection.
LEMMA CompleteStopped ==
  ASSUME ClientOK, CompleteInv, NEW over, Stopped(over), procs' \in {procs, <<>>}, table' = table,
         ready => client.started /\ client.conn = over,
         client.active => client.started /\ client.conn = over
  PROVE  CompleteInv'
<1>1. client \in ClientType
  BY DEF ClientOK
<1>2. ready' = FALSE /\ client'.active = FALSE /\ SameMap(client')
  BY <1>1 DEF Stopped, SameMap, ClientType, ClientOK
<1>3. Addressed'
  BY DEF CompleteInv, Addressed, All
<1> QED
  BY <1>2, <1>3 DEF CompleteInv, EmptyClient, SameMap, ReadyInv, ReadyIsComplete

\* A new session begins behind whatever is under way.
LEMMA CompleteStarted ==
  ASSUME ClientOK, CompleteInv, HeldNeedsSession, NEW over \in Handles, Started(over),
         UNCHANGED <<table, ready>>
  PROVE  CompleteInv'
<1>1. CASE client.started
  BY <1>1, CompleteIdle DEF Started
<1>2. CASE ~client.started
  <2> DEFINE c == [Cleared EXCEPT !.started = TRUE, !.conn = over, !.active = TRUE,
                                  !.listening = TRUE]
             p == Proc("service", 0, 0)
  <2>1. \/ client' = c /\ procs' = Append(procs, p)
        \/ client' = [c EXCEPT !.active = FALSE] /\ procs' = procs
    BY <1>2 DEF Started, Request
  <2>2. /\ ~client'.service /\ client'.chars = <<>> /\ client'.known = {}
        /\ client'.input = 0 /\ ~client'.subscribed /\ client'.index = 1
        /\ client'.map = 0 /\ client'.mode = 0 /\ client'.length = 0
    <3> HIDE DEF p
    <3>1. CASE client' = c
      BY <3>1, SMTT(60) DEF Cleared
    <3>2. CASE client' = [c EXCEPT !.active = FALSE]
      BY <3>2, SMTT(60) DEF Cleared
    <3> QED
      BY <2>1, <3>1, <3>2
  <2>3. ~ready /\ ~ready'
    BY <1>2 DEF HeldNeedsSession
  <2>4. p \in Procs /\ p.kind = "service"
    BY ProcType DEF Proc, ProcKinds
  <2>5. procs \in Seq(Procs) /\ Len(procs) \in Nat
    BY DEF ClientOK
  <2> HIDE DEF p, c
  <2>6. CASE procs' = Append(procs, p)
    <3>1. /\ Len(procs') = Len(procs) + 1 /\ procs'[Len(procs) + 1] = p
          /\ \A n \in 1..Len(procs) : procs'[n] = procs[n]
      BY <2>4, <2>5, <2>6
    <3>2. ASSUME NEW n \in 1..Len(procs'), procs'[n].kind \in {"map", "mode"}
          PROVE  procs'[n].attr # 0
      <4>1. n = Len(procs) + 1 \/ n \in 1..Len(procs)
        BY <2>5, <3>1
      <4> QED
        BY <2>4, <3>1, <3>2, <4>1 DEF CompleteInv, Addressed, All
    <3>3. Addressed'
      BY <3>2 DEF Addressed, All
    <3>4. PICK m \in Nat : m = Len(procs) + 1
      BY <2>5
    <3>5. m \in All' /\ procs'[m].kind = "service" /\ \A n \in m+1..Len(procs') : FALSE
      BY <2>4, <2>5, <3>1, <3>4 DEF All
    <3>6. WaitsAt(m)'
      BY <3>5 DEF WaitsAt, Kind
    <3>7. Waiting'
      BY <2>2, <3>5, <3>6 DEF Waiting, Unsubscribed
    <3> QED
      BY <2>2, <2>3, <3>3, <3>7 DEF CompleteInv, EmptyClient, ReadyInv, ReadyIsComplete, Discovering
  <2>7. CASE client' = [c EXCEPT !.active = FALSE] /\ procs' = procs
    <3>1. ~client'.active
      BY <2>7 DEF c, Cleared
    <3>2. Addressed'
      BY <2>7 DEF CompleteInv, Addressed, All
    <3> QED
      BY <2>2, <2>3, <3>1, <3>2 DEF CompleteInv, EmptyClient, ReadyInv, ReadyIsComplete
  <2> QED
    BY <2>1, <2>6, <2>7
<1> QED
  BY <1>1, <1>2

LEMMA CompleteStep ==
  ASSUME FewProcs, Inv, CompleteInv, [Next]_vars
  PROVE  CompleteInv'
<1>0. /\ ClientOK /\ SessionInv /\ HeldNeedsSession /\ FlagsAgree
      /\ ready => client.started /\ client.conn = link
      /\ client.active => client.started /\ client.conn = link
      /\ link = NoConn => ~ready /\ ~client.active
  BY DEF Inv, TypeOK, LinkInv, SessionInv, ClientRuns, SessionSecured, HeldNeedsSession
<1>1. CASE UNCHANGED <<table, client, procs, ready>>
  BY <1>1, CompleteIdle
<1>2. CASE Gatt
  BY <1>0, <1>2, CompleteCallback DEF Gatt
<1>3. ASSUME NEW bonded \in BOOLEAN, Encrypted(bonded)
      PROVE  CompleteInv'
  <2>1. PICK h \in Handles : h = link
    BY <1>0, <1>3 DEF Encrypted, ClientOK
  <2>2. CASE Started(link) /\ UNCHANGED <<table, ready>>
    BY <1>0, <2>1, <2>2, CompleteStarted
  <2>3. CASE Stopped(link) /\ UNCHANGED <<table, procs>>
    BY <1>0, <2>1, <2>3, CompleteStopped
  <2> QED
    BY <1>3, <2>2, <2>3 DEF Encrypted
<1>4. CASE EncryptionFailed
  <2>1. PICK h : h = link
    OBVIOUS
  <2> QED
    BY <1>0, <1>4, <2>1, CompleteStopped DEF EncryptionFailed
<1>5. CASE Disconnected
  <2>1. PICK h : h = link
    OBVIOUS
  <2> QED
    BY <1>0, <1>5, <2>1, CompleteStopped DEF Disconnected
<1>6. CASE OnReset
  <2>1. PICK h : h = remote_conn
    OBVIOUS
  <2>2. table' = table /\ procs' = <<>> /\ remote_conn = link
    BY <1>0, <1>6 DEF OnReset, FlagsAgree
  <2>3. CASE Stopped(remote_conn)
    BY <1>0, <2>1, <2>2, <2>3, CompleteStopped
  <2>4. CASE remote_conn = NoConn /\ UNCHANGED <<client, ready, held>>
    <3>1. Addressed' /\ EmptyClient' /\ ~ready' /\ ~client'.active
      BY <1>0, <2>2, <2>4 DEF CompleteInv, Addressed, All, EmptyClient
    <3> QED
      BY <3>1 DEF CompleteInv, ReadyInv, ReadyIsComplete
  <2> QED
    BY <1>6, <2>3, <2>4 DEF OnReset
<1>7. UNCHANGED clientVars => UNCHANGED <<table, client, procs, ready>>
  BY DEF clientVars
<1>8. CASE Next
  <2>1. Notified => UNCHANGED <<table, client, procs, ready>>
    BY DEF Notified, OnNotify
  <2>2. \/ \E p \in Packets : Advertisement(p)
        \/ ScanComplete \/ ConnectFailed \/ (\E h \in Handles : Connected(h)) \/ KeysWritten
        \/ TimerExpires \/ OnScanRetry \/ OnSync
        => UNCHANGED clientVars
    BY DEF Advertisement, ScanComplete, ConnectFailed, Connected, KeysWritten, TimerExpires,
       OnScanRetry, OnSync
  <2> QED
    BY <1>1, <1>2, <1>3, <1>4, <1>5, <1>6, <1>7, <1>8, <2>1, <2>2 DEF Next, Gap
<1>9. CASE UNCHANGED vars
  BY <1>1, <1>7, <1>9 DEF vars
<1> QED
  BY <1>8, <1>9

LEMMA CompleteInit == Init => CompleteInv
<1> SUFFICES ASSUME Init PROVE CompleteInv
  OBVIOUS
<1>1. procs = <<>> /\ ~ready /\ ~client.active /\ client.map = 0 /\ client.mode = 0
      /\ client.length = 0
  BY DEF Init, InitClient, Cleared
<1> QED
  BY <1>1 DEF CompleteInv, Addressed, All, EmptyClient, ReadyInv, ReadyIsComplete

\* With the number of procedures NimBLE keeps by default, or fewer: a remote is
\* ready only when every input report it can notify is subscribed, for every
\* attribute table and whatever earlier sessions left under way (next_report,
\* the test "current" and the handles the callbacks compare).
THEOREM ReadyMeansComplete ==
  ASSUME FewProcs
  PROVE  Spec => []ReadyIsComplete
<1>1. Inv /\ CompleteInv /\ [Next]_vars => CompleteInv'
  BY CompleteStep
<1>2. CompleteInv => ReadyIsComplete
  BY DEF CompleteInv, ReadyInv
<1> QED
  BY <1>1, <1>2, CompleteInit, InvHolds, PTL DEF Spec

-----------------------------------------------------------------------------
(* The bond store (BondTables).  Its tables are sequences without          *)
(* repetition.                                                             *)

\* The sets of BondStore are counted as those of the library are.
LEMMA Counted ==
  /\ \A S : B!Cardinality(S) = Cardinality(S)
  /\ \A S : B!IsFiniteSet(S) <=> IsFiniteSet(S)
BY DEF B!Cardinality, Cardinality, B!IsFiniteSet, IsFiniteSet

\* A table has as many peers as records.
LEMMA TableSize ==
  ASSUME NEW S, NEW s \in Seq(S), B!IsInjective(s)
  PROVE  B!IsFiniteSet(B!ToSet(s)) /\ B!Cardinality(B!ToSet(s)) = Len(s)
<1>1. Len(s) \in Nat /\ DOMAIN s = 1..Len(s) /\ s \in [1..Len(s) -> S]
  OBVIOUS
<1>2. s \in Surjection(1..Len(s), B!ToSet(s)) /\ s \in Injection(1..Len(s), B!ToSet(s))
  BY <1>1 DEF Surjection, Injection, IsInjective, B!IsInjective, B!ToSet
<1>3. B!IsFiniteSet(1..Len(s)) /\ B!Cardinality(1..Len(s)) = Len(s)
  <2>1. IsFiniteSet(1..Len(s)) /\ Cardinality(1..Len(s)) = Len(s)
    BY <1>1, FS_Interval
  <2> QED
    BY Counted, <2>1
<1> QED
  BY Counted, <1>2, <1>3, FS_Surjection

\* An ordering of a finite set is a table of all of it.
LEMMA Ordered ==
  ASSUME NEW S, B!IsFiniteSet(S), NEW f \in B!SetToSeqs(S)
  PROVE  f \in Seq(S) /\ B!IsInjective(f) /\ B!ToSet(f) = S /\ Len(f) = B!Cardinality(S)
<1> DEFINE n == B!Cardinality(S)
<1>1. n \in Nat
  BY Counted, FS_CardinalityType
<1>2. f \in [1..n -> S] /\ \A i, j \in 1..n : i # j => f[i] # f[j]
  BY DEF B!SetToSeqs
<1>3. f \in Injection(1..n, S)
  BY <1>2 DEF Injection, IsInjective, B!IsInjective
<1>4. B!IsFiniteSet(1..n) /\ B!Cardinality(1..n) = n
  BY Counted, <1>1, FS_Interval
<1>5. f \in Surjection(1..n, S)
  BY Counted, <1>3, <1>4, FS_Injection
<1>6. f \in Seq(S) /\ Len(f) = n
  BY <1>1, <1>2
<1> QED
  BY <1>2, <1>5, <1>6 DEF Surjection, B!ToSet, B!IsInjective

\* Two tables without a common peer make one.
LEMMA Joined ==
  ASSUME NEW S, NEW s \in Seq(S), NEW t \in Seq(S), B!IsInjective(s), B!IsInjective(t),
         B!ToSet(s) \cap B!ToSet(t) = {}
  PROVE  /\ s \o t \in Seq(S) /\ B!IsInjective(s \o t) /\ B!ToSet(s \o t) = B!ToSet(s) \cup B!ToSet(t)
         /\ Len(s \o t) = Len(s) + Len(t)
<1> DEFINE r == s \o t
           n == Len(s)
           m == Len(t)
<1>1. n \in Nat /\ m \in Nat /\ DOMAIN s = 1..n /\ DOMAIN t = 1..m
  OBVIOUS
<1>2. /\ r \in Seq(S) /\ Len(r) = n + m /\ DOMAIN r = 1..n + m
      /\ \A i \in 1..n + m : r[i] = IF i <= n THEN s[i] ELSE t[i - n]
  BY ConcatProperties
<1> HIDE DEF r, n, m
<1>3. \A i \in DOMAIN r :
        \/ i \in DOMAIN s /\ r[i] = s[i]
        \/ i > n /\ i - n \in DOMAIN t /\ r[i] = t[i - n]
  BY <1>1, <1>2
<1>4. /\ \A i \in DOMAIN s : i \in DOMAIN r /\ r[i] = s[i]
      /\ \A i \in DOMAIN t : i + n \in DOMAIN r /\ r[i + n] = t[i]
  <2>1. \A i \in DOMAIN s : i \in DOMAIN r /\ r[i] = s[i]
    BY <1>1, <1>2
  <2>2. ASSUME NEW i \in DOMAIN t
        PROVE  i + n \in DOMAIN r /\ r[i + n] = t[i]
    <3>1. i \in 1..m /\ i + n \in 1..n + m /\ ~(i + n <= n) /\ (i + n) - n = i
      BY <1>1
    <3> QED
      BY <1>2, <3>1
  <2> QED
    BY <2>1, <2>2
<1>5. B!ToSet(r) = B!ToSet(s) \cup B!ToSet(t)
  BY <1>3, <1>4 DEF B!ToSet
<1>6. B!IsInjective(r)
  <2> SUFFICES ASSUME NEW i \in DOMAIN r, NEW j \in DOMAIN r, r[i] = r[j]
               PROVE  i = j
    BY DEF B!IsInjective
  <2>1. i \in Nat /\ j \in Nat
    BY <1>2
  <2>2. CASE i \in DOMAIN s /\ r[i] = s[i] /\ j \in DOMAIN s /\ r[j] = s[j]
    BY <2>2 DEF B!IsInjective
  <2>3. CASE i - n \in DOMAIN t /\ r[i] = t[i - n] /\ j - n \in DOMAIN t /\ r[j] = t[j - n]
    <3>1. i - n = j - n
      BY <2>3 DEF B!IsInjective
    <3> QED
      BY <1>1, <2>1, <3>1
  <2>4. ASSUME NEW a \in DOMAIN s, NEW b \in DOMAIN t
        PROVE  s[a] # t[b]
    BY DEF B!ToSet
  <2> QED
    BY <1>3, <2>2, <2>3, <2>4
<1> QED
  BY <1>2, <1>5, <1>6 DEF r, n, m

\* A new peer at the end of a table.
LEMMA Appended ==
  ASSUME NEW S, NEW s \in Seq(S), B!IsInjective(s), NEW e \in S, e \notin B!ToSet(s)
  PROVE  /\ Append(s, e) \in Seq(S) /\ B!IsInjective(Append(s, e))
         /\ B!ToSet(Append(s, e)) = B!ToSet(s) \cup {e} /\ Len(Append(s, e)) = Len(s) + 1
<1>1. /\ Append(s, e) \in Seq(S) /\ Len(Append(s, e)) = Len(s) + 1
      /\ DOMAIN s = 1..Len(s) /\ DOMAIN Append(s, e) = 1..Len(s) + 1 /\ Len(s) \in Nat
      /\ \A i \in 1..Len(s) : Append(s, e)[i] = s[i]
      /\ Append(s, e)[Len(s) + 1] = e
  BY AppendProperties
<1>2. B!ToSet(Append(s, e)) = B!ToSet(s) \cup {e}
  BY <1>1 DEF B!ToSet
<1>3. B!IsInjective(Append(s, e))
  BY <1>1 DEF B!IsInjective, B!ToSet
<1> QED
  BY <1>1, <1>2, <1>3

\* A table without one of its peers keeps the others.
LEMMA Removed ==
  ASSUME NEW S, NEW s \in Seq(S), B!IsInjective(s), NEW p
  PROVE  /\ B!RemoveFirst(s, p) \in Seq(S) /\ B!IsInjective(B!RemoveFirst(s, p))
         /\ B!ToSet(B!RemoveFirst(s, p)) = B!ToSet(s) \ {p}
<1>1. CASE ~\E i \in 1..Len(s) : s[i] = p
  <2>1. B!RemoveFirst(s, p) = s
    BY <1>1 DEF B!RemoveFirst
  <2> QED
    BY <1>1, <2>1 DEF B!ToSet
<1>2. CASE \E i \in 1..Len(s) : s[i] = p
  <2>1. PICK k \in 1..Len(s) : s[k] = p
    BY <1>2
  <2>2. {i \in 1..Len(s) : s[i] = p} = {k}
    BY <2>1 DEF B!IsInjective
  <2>3. B!SelectInSeq(s, LAMBDA v : v = p) = k
    BY <2>1, <2>2 DEF B!SelectInSeq, B!Min
  <2>4. B!RemoveFirst(s, p) = SubSeq(s, 1, k - 1) \o SubSeq(s, k + 1, Len(s))
    BY <1>2, <2>3 DEF B!RemoveFirst, B!RemoveAt
  <2> DEFINE a == SubSeq(s, 1, k - 1)
             b == SubSeq(s, k + 1, Len(s))
             n == Len(s)
  <2>5. n \in Nat /\ k \in 1..n /\ DOMAIN s = 1..n
    OBVIOUS
  <2>6. a \in Seq(S) /\ DOMAIN a = 1..k - 1 /\ \A i \in 1..k - 1 : a[i] = s[i]
    BY SubSeqProperties
  <2>7. b \in Seq(S) /\ DOMAIN b = 1..n - k /\ \A i \in 1..n - k : b[i] = s[k + i]
    BY SubSeqProperties
  <2>8. B!RemoveFirst(s, p) = a \o b
    BY <2>4
  <2> HIDE DEF a, b, n
  <2>9. /\ \A i \in DOMAIN a : i \in DOMAIN s /\ i < k /\ a[i] = s[i]
        /\ \A i \in DOMAIN b : i \in Nat /\ k + i \in DOMAIN s /\ k + i > k /\ b[i] = s[k + i]
    BY <2>5, <2>6, <2>7
  <2>10. B!IsInjective(a) /\ B!IsInjective(b) /\ \A i \in DOMAIN a, j \in DOMAIN b : a[i] # b[j]
    <3>1. B!IsInjective(a)
      BY <2>9 DEF B!IsInjective
    <3>2. ASSUME NEW i \in DOMAIN b, NEW j \in DOMAIN b, b[i] = b[j]
          PROVE  i = j
      <4>1. k + i = k + j
        BY <2>9, <3>2 DEF B!IsInjective
      <4> QED
        BY <2>5, <2>9, <4>1
    <3>3. ASSUME NEW i \in DOMAIN a, NEW j \in DOMAIN b, a[i] = b[j]
          PROVE  FALSE
      <4>1. i = k + j
        BY <2>9, <3>3 DEF B!IsInjective
      <4> QED
        BY <2>5, <2>6, <2>9, <4>1
    <3> QED
      BY <3>1, <3>2, <3>3 DEF B!IsInjective
  <2>11. B!ToSet(a) \cap B!ToSet(b) = {}
    BY <2>10 DEF B!ToSet
  <2>12. B!ToSet(a) \cup B!ToSet(b) = B!ToSet(s) \ {p}
    <3>1. \A i \in DOMAIN a : a[i] \in B!ToSet(s) \ {p}
      <4>1. \A i \in DOMAIN a : i # k
        BY <2>5, <2>6
      <4> QED
        BY <2>1, <2>5, <2>9, <4>1 DEF B!ToSet, B!IsInjective
    <3>2. \A i \in DOMAIN b : b[i] \in B!ToSet(s) \ {p}
      <4>1. \A i \in DOMAIN b : k + i # k
        BY <2>5, <2>9
      <4> QED
        BY <2>1, <2>5, <2>9, <4>1 DEF B!ToSet, B!IsInjective
    <3>3. ASSUME NEW i \in DOMAIN s, s[i] # p
          PROVE  s[i] \in B!ToSet(a) \cup B!ToSet(b)
      <4>1. CASE i < k
        BY <2>5, <2>6, <4>1 DEF B!ToSet
      <4>2. CASE i > k
        <5>1. i - k \in DOMAIN b /\ b[i - k] = s[i]
          BY <2>5, <2>7, <4>2
        <5> QED
          BY <5>1 DEF B!ToSet
      <4>3. i # k
        BY <2>1, <3>3
      <4> QED
        BY <2>5, <4>1, <4>2, <4>3
    <3> QED
      BY <3>1, <3>2, <3>3 DEF B!ToSet
  <2> QED
    BY <2>6, <2>7, <2>8, <2>10, <2>11, <2>12, Joined
<1> QED
  BY <1>1, <1>2

-----------------------------------------------------------------------------
(* The invariant of the bond store.                                        *)

\* The records in flash fit into the table; that of the remote is in RAM too.
FlashFits == \A t \in B!SecTypes : B!Cardinality(nvs[t]) <= MaxBonds

RemoteHeld == remote \in nvs["peer_sec"] => B!Holds("peer_sec", remote)

\* Only a connected peer has records to write.
Written == queue # <<>> => conn # Nobody

\* The records of a pairing are to be written, in flash, or known to have
\* failed.
Outcome(t) ==
  \/ t \in B!ToSet(queue) \/ conn \in nvs[t]
  \/ results_exhausted \/ <<t, conn>> \in failures

PairingOK == paired => conn # Nobody /\ \A t \in B!SecTypes : Outcome(t)

\* A secured link has its key in RAM, writes no other and has no failed write.
SecuredOK ==
  secured # Nobody =>
    /\ B!Holds("peer_sec", conn) /\ queue \in {<<>>, <<"cccd">>}
    /\ B!PeerOk(conn)
    /\ paired => \A t \in B!SecTypes : conn \in nvs[t]

\* The inductive invariant of the bond store.
BondInv ==
  /\ B!TypeOK /\ FlashFits /\ RemoteHeld /\ Written /\ PairingOK /\ SecuredOK
  /\ B!ResultsAreOfLink

\* Every table of the next state is one, and fits.
TablesFit ==
  /\ ram' \in [B!Types -> Seq(Addresses)]
  /\ \A t \in B!Types : Len(ram'[t]) <= B!Limit(t) /\ B!IsInjective(ram'[t])

\* What the type invariant says of the sets and their sizes.
LEMMA Flash ==
  ASSUME B!TypeOK
  PROVE  /\ \A t \in B!SecTypes : t \in B!Types /\ nvs[t] \subseteq Addresses /\ B!IsFiniteSet(nvs[t])
                               /\ B!Cardinality(nvs[t]) \in Nat
         /\ \A t \in B!Types : B!IsFiniteSet(B!ToSet(ram[t])) /\ B!Cardinality(B!ToSet(ram[t])) = Len(ram[t])
                            /\ B!ToSet(ram[t]) \subseteq Addresses /\ Len(ram[t]) \in Nat
                            /\ B!Limit(t) \in Nat
         /\ B!IsFiniteSet(failures) /\ B!Cardinality(failures) \in Nat
<1>1. ASSUME NEW t \in B!SecTypes
      PROVE  t \in B!Types /\ nvs[t] \subseteq Addresses /\ B!IsFiniteSet(nvs[t]) /\ B!Cardinality(nvs[t]) \in Nat
  <2>1. t \in B!Types /\ nvs[t] \subseteq Addresses
    BY DEF B!TypeOK, B!Types
  <2> QED
    BY Counted, <2>1, FS_Subset, FS_CardinalityType, StoreAssumption
<1>2. ASSUME NEW t \in B!Types
      PROVE  /\ B!IsFiniteSet(B!ToSet(ram[t])) /\ B!Cardinality(B!ToSet(ram[t])) = Len(ram[t])
             /\ B!ToSet(ram[t]) \subseteq Addresses /\ Len(ram[t]) \in Nat
             /\ B!Limit(t) \in Nat
  <2>1. ram[t] \in Seq(Addresses) /\ B!IsInjective(ram[t])
    BY DEF B!TypeOK
  <2>2. B!Limit(t) \in Nat
    BY StoreAssumption DEF B!Limit
  <2>3. B!ToSet(ram[t]) \subseteq Addresses /\ Len(ram[t]) \in Nat
    BY <2>1 DEF B!ToSet
  <2> QED
    BY <2>1, <2>2, <2>3, TableSize
<1>3. B!IsFiniteSet(failures) /\ B!Cardinality(failures) \in Nat
  <2>1. B!SecTypes = {"our_sec"} \cup {"peer_sec"}
    BY DEF B!SecTypes
  <2>2. B!IsFiniteSet(B!SecTypes)
    BY Counted, <2>1, FS_Singleton, FS_Union
  <2>3. B!IsFiniteSet(B!SecTypes \X Addresses)
    BY Counted, <2>2, FS_Product, StoreAssumption
  <2> QED
    BY Counted, <2>3, FS_Subset, FS_CardinalityType DEF B!TypeOK
<1> QED
  BY <1>1, <1>2, <1>3

\* Only an inactive peer is selected, and of a security table the oldest one.
LEMMA SelectedFacts ==
  ASSUME B!TypeOK, NEW t \in B!Types, NEW known \in BOOLEAN, NEW p \in B!Selected(t, known)
  PROVE  /\ p \in Addresses /\ p # conn /\ p # remote
         /\ t \in B!SecTypes =>
              \A i, j \in DOMAIN ram[t] :
                ram[t][i] = p /\ j < i => ram[t][j] \in {remote, conn}
<1>1. ASSUME NEW u \in B!Types, NEW S, p \in B!Oldest(ram[u], S, known)
      PROVE  /\ p \in Addresses /\ known /\ p # conn /\ p # remote
             /\ S = Addresses => \A i, j \in DOMAIN ram[u] :
                  ram[u][i] = p /\ j < i => ram[u][j] \in {remote, conn}
  <2>1. ram[u] \in Seq(Addresses) /\ B!ToSet(ram[u]) \subseteq Addresses
    BY Flash DEF B!TypeOK
  <2>2. p \in B!ToSet(ram[u]) /\ known /\ p # conn /\ p # remote
    BY <1>1 DEF B!Oldest, B!Protected
  <2>3. ASSUME S = Addresses, NEW i \in DOMAIN ram[u], NEW j \in DOMAIN ram[u], ram[u][i] = p, j < i
        PROVE  ram[u][j] \in {remote, conn}
    <3>1. ram[u][j] \in Addresses
      BY <2>1
    <3> QED
      BY <1>1, <2>2, <2>3, <3>1 DEF B!Oldest, B!Protected
  <2> QED
    BY <2>1, <2>2, <2>3
<1>2. {"our_sec", "peer_sec", "cccd"} \subseteq B!Types
  BY DEF B!Types, B!SecTypes
<1>3. CASE t \in B!SecTypes
  <2>1. p \in B!Oldest(ram[t], Addresses, known)
    BY <1>3 DEF B!Selected
  <2> QED
    BY <1>1, <2>1
<1>4. CASE t \notin B!SecTypes
  <2>1. \E u \in B!Types : \E S : p \in B!Oldest(ram[u], S, known)
    BY <1>2, <1>4 DEF B!Selected
  <2> QED
    BY <1>1, <1>4, <2>1
<1> QED
  BY <1>3, <1>4

\* A deletion takes nothing but records of the peer it was given.
LEMMA DeletedFacts ==
  ASSUME B!TypeOK, NEW p, NEW gone, NEW kept, B!Deleted(p, gone, kept)
  PROVE  /\ TablesFit
         /\ \A t \in B!Types : B!ToSet(ram'[t]) \in {B!ToSet(ram[t]), B!ToSet(ram[t]) \ {p}}
         /\ nvs' \in [B!SecTypes -> SUBSET Addresses]
         /\ \A t \in B!SecTypes : nvs'[t] \in {nvs[t], nvs[t] \ {p}}
<1>1. ASSUME NEW t \in B!Types
      PROVE  /\ ram'[t] \in Seq(Addresses) /\ B!IsInjective(ram'[t]) /\ Len(ram'[t]) <= B!Limit(t)
             /\ B!ToSet(ram'[t]) \in {B!ToSet(ram[t]), B!ToSet(ram[t]) \ {p}}
  <2>1. ram'[t] = IF t \in gone THEN B!RemoveFirst(ram[t], p) ELSE ram[t]
    BY DEF B!Deleted
  <2>2. ram[t] \in Seq(Addresses) /\ B!IsInjective(ram[t]) /\ Len(ram[t]) <= B!Limit(t)
    BY DEF B!TypeOK
  <2>3. CASE t \in gone
    <3> DEFINE r == B!RemoveFirst(ram[t], p)
    <3>1. r \in Seq(Addresses) /\ B!IsInjective(r) /\ B!ToSet(r) = B!ToSet(ram[t]) \ {p}
      BY <2>2, Removed
    <3>2. ram'[t] = r
      BY <2>1, <2>3
    <3> HIDE DEF r
    <3>3. Len(r) = B!Cardinality(B!ToSet(r))
      BY <3>1, TableSize
    <3>4. B!Cardinality(B!ToSet(r)) <= B!Cardinality(B!ToSet(ram[t]))
      BY Counted, <3>1, Flash, FS_Subset
    <3>5. Len(r) <= B!Limit(t)
      <4>1. Len(r) \in Nat
        BY <3>1
      <4> QED
        BY <2>2, <3>3, <3>4, <4>1, Flash
    <3> QED
      BY <3>1, <3>2, <3>5
  <2> QED
    BY <2>1, <2>2, <2>3
<1>2. ram' \in [B!Types -> Seq(Addresses)]
  <2>1. ram' = [t \in B!Types |-> ram'[t]]
    BY DEF B!Deleted
  <2> QED
    BY <1>1, <2>1
<1>3. /\ nvs' \in [B!SecTypes -> SUBSET Addresses]
      /\ \A t \in B!SecTypes : nvs'[t] \in {nvs[t], nvs[t] \ {p}}
  BY DEF B!Deleted, B!TypeOK
<1> QED
  BY <1>1, <1>2, <1>3 DEF TablesFit

\* The results after one write: at most that of its record is new.
LEMMA ResultType ==
  ASSUME B!TypeOK, NEW t \in B!Types, NEW bad \in BOOLEAN, conn \in Addresses,
         B!SecurityResult(t, conn, bad)
  PROVE  /\ failures' \subseteq B!SecTypes \X Addresses /\ B!Cardinality(failures') <= MaxFailures
         /\ results_exhausted' \in BOOLEAN
         /\ failures' \subseteq failures \cup {<<t, conn>>}
         /\ \A u \in B!SecTypes \ {t} : <<u, conn>> \in failures => <<u, conn>> \in failures'
         /\ results_exhausted => results_exhausted'
         /\ t \in B!SecTypes /\ bad => results_exhausted' \/ <<t, conn>> \in failures'
<1>1. B!IsFiniteSet(failures) /\ B!Cardinality(failures) \in Nat /\ B!Cardinality(failures) <= MaxFailures
      /\ failures \subseteq B!SecTypes \X Addresses /\ results_exhausted \in BOOLEAN
  BY Flash DEF B!TypeOK
<1>2. CASE UNCHANGED failures
  BY <1>1, <1>2 DEF B!SecurityResult, B!resultVars
<1>3. CASE failures' = failures \ {<<t, conn>>} /\ ~bad /\ UNCHANGED results_exhausted
  <2>1. B!IsFiniteSet(failures) /\ failures' \in SUBSET failures
    BY <1>1, <1>3
  <2>2. B!Cardinality(failures') <= B!Cardinality(failures) /\ B!Cardinality(failures') \in Nat
    BY Counted, <2>1, FS_Subset, FS_CardinalityType
  <2>3. B!Cardinality(failures') <= MaxFailures
    BY <1>1, <2>2, StoreAssumption
  <2> QED
    BY <1>1, <1>3, <2>3
<1>4. CASE /\ t \in B!SecTypes /\ B!Cardinality(failures) # MaxFailures
           /\ failures' = failures \cup {<<t, conn>>} /\ UNCHANGED results_exhausted
  <2>1. B!Cardinality(failures') <= B!Cardinality(failures) + 1
    <3> DEFINE e == <<t, conn>>
    <3>1. failures' = failures \cup {e}
      BY <1>4
    <3> HIDE DEF e
    <3>2. B!Cardinality(failures \cup {e}) \in {B!Cardinality(failures), B!Cardinality(failures) + 1}
      BY Counted, <1>1, FS_AddElement
    <3> QED
      BY <1>1, <3>1, <3>2
  <2>2. B!Cardinality(failures) + 1 <= MaxFailures
    BY <1>1, <1>4, StoreAssumption
  <2>3. B!Cardinality(failures') \in Nat
    <3>1. failures' \subseteq B!SecTypes \X Addresses
      BY <1>1, <1>4
    <3>2. B!IsFiniteSet(failures')
      BY Counted, <1>1, <1>4, FS_AddElement
    <3> QED
      BY Counted, <3>2, FS_CardinalityType
  <2>4. B!Cardinality(failures') <= MaxFailures
    BY <1>1, <2>1, <2>2, <2>3, StoreAssumption
  <2> QED
    BY <1>1, <1>4, <2>4
<1> QED
  BY <1>2, <1>3, <1>4 DEF B!SecurityResult, B!resultVars

\* A record that is written fits and is in its table.
LEMMA PlacedFacts ==
  ASSUME B!TypeOK, NEW t \in B!Types, NEW p \in Addresses, B!Holds(t, p) \/ Len(ram[t]) # B!Limit(t),
         NEW s \in B!Placed(t, p)
  PROVE  /\ s \in Seq(Addresses) /\ B!IsInjective(s) /\ B!ToSet(s) = B!ToSet(ram[t]) \cup {p}
         /\ Len(s) <= B!Limit(t)
<1>1. ram[t] \in Seq(Addresses) /\ B!IsInjective(ram[t]) /\ Len(ram[t]) <= B!Limit(t)
  BY DEF B!TypeOK
<1>2. CASE s = ram[t] /\ B!Holds(t, p)
  BY <1>1, <1>2 DEF B!Holds
<1>3. CASE s = Append(B!RemoveFirst(ram[t], p), p)
  <2> DEFINE r == B!RemoveFirst(ram[t], p)
  <2>1. r \in Seq(Addresses) /\ B!IsInjective(r) /\ B!ToSet(r) = B!ToSet(ram[t]) \ {p} /\ s = Append(r, p)
    BY <1>1, <1>3, Removed
  <2> HIDE DEF r
  <2>2. /\ s \in Seq(Addresses) /\ B!IsInjective(s) /\ B!ToSet(s) = B!ToSet(r) \cup {p}
        /\ Len(s) = Len(r) + 1
    BY <2>1, Appended
  <2>3. Len(r) = B!Cardinality(B!ToSet(r)) /\ Len(r) \in Nat
    <3>1. r \in Seq(Addresses) /\ B!IsInjective(r)
      BY <2>1
    <3>2. Len(r) = B!Cardinality(B!ToSet(r))
      BY <3>1, TableSize
    <3>3. Len(r) \in Nat
      BY <3>1
    <3> QED
      BY <3>2, <3>3
  <2>4. B!Cardinality(B!ToSet(r)) = IF p \in B!ToSet(ram[t]) THEN Len(ram[t]) - 1 ELSE Len(ram[t])
    <3>1. B!IsFiniteSet(B!ToSet(ram[t])) /\ B!Cardinality(B!ToSet(ram[t])) = Len(ram[t])
      BY Flash
    <3>2. B!Cardinality(B!ToSet(ram[t]) \ {p})
            = IF p \in B!ToSet(ram[t]) THEN B!Cardinality(B!ToSet(ram[t])) - 1 ELSE B!Cardinality(B!ToSet(ram[t]))
      BY Counted, <3>1, FS_RemoveElement
    <3>3. B!ToSet(r) = B!ToSet(ram[t]) \ {p}
      BY <2>1
    <3> QED
      BY <3>1, <3>2, <3>3
  <2>5. Len(ram[t]) \in Nat /\ B!Limit(t) \in Nat
    BY Flash
  <2>6. Len(s) <= B!Limit(t)
    BY <1>1, <2>2, <2>3, <2>4, <2>5 DEF B!Holds
  <2> QED
    BY <2>1, <2>2, <2>6
<1> QED
  BY <1>2, <1>3 DEF B!Placed

\* The head of the queue and what is left of it.
LEMMA QueueFacts ==
  ASSUME B!TypeOK, queue # <<>>
  PROVE  /\ Head(queue) \in B!Types
         /\ Tail(queue) \in {<<>>, <<"our_sec", "peer_sec">>, <<"peer_sec">>, <<"cccd">>}
         /\ B!ToSet(queue) \subseteq B!ToSet(Tail(queue)) \cup {Head(queue)}
         /\ queue \in {<<>>, <<"cccd">>} => Head(queue) = "cccd" /\ Tail(queue) = <<>>
<1>1. CASE queue = <<"our_sec", "peer_sec">>
  <2>1. Head(queue) = "our_sec" /\ Tail(queue) = <<"peer_sec">>
    BY <1>1
  <2>2. "our_sec" # "peer_sec" /\ "our_sec" # "cccd" /\ "peer_sec" # "cccd"
    OBVIOUS
  <2>3. queue[1] = "our_sec" /\ queue[2] = "peer_sec" /\ DOMAIN queue = {1, 2}
    BY <1>1
  <2> DEFINE rest == <<"peer_sec">>
  <2>4. Tail(queue) = rest /\ rest[1] = "peer_sec" /\ DOMAIN rest = {1}
    BY <2>1
  <2> HIDE DEF rest
  <2>5. B!ToSet(queue) \subseteq B!ToSet(Tail(queue)) \cup {Head(queue)}
    BY <2>1, <2>3, <2>4 DEF B!ToSet
  <2>6. queue \notin {<<>>, <<"cccd">>}
    <3>1. Len(queue) = 2 /\ Len(<<"cccd">>) = 1
      BY <1>1
    <3> QED
      BY <1>1, <3>1
  <2> QED
    BY <2>1, <2>5, <2>6 DEF B!Types, B!SecTypes
<1>2. ASSUME NEW k \in {"peer_sec", "cccd"}, queue = <<k>>
      PROVE  /\ Head(queue) = k /\ Tail(queue) = <<>> /\ B!ToSet(queue) = {k}
             /\ queue = <<"cccd">> => k = "cccd"
  <2>1. Head(queue) = k /\ Tail(queue) = <<>> /\ queue[1] = k /\ DOMAIN queue = {1}
    BY <1>2
  <2>2. queue = <<"cccd">> => k = "cccd"
    BY <2>1
  <2> QED
    BY <2>1, <2>2 DEF B!ToSet
<1> QED
  BY <1>1, <1>2 DEF B!TypeOK, B!Types, B!SecTypes

\* A write to RAM and its copy to flash.
LEMMA WriteStep ==
  ASSUME BondInv, B!Write
  PROVE  BondInv'
<1> DEFINE t == Head(queue)
<1>1. B!TypeOK /\ queue # <<>> /\ ~full /\ conn \in Addresses /\ UNCHANGED <<remote, conn, secured, paired>>
  BY DEF B!Write, BondInv, Written, B!TypeOK, B!linkVars
<1>2. /\ t \in B!Types
      /\ Tail(queue) \in {<<>>, <<"our_sec", "peer_sec">>, <<"peer_sec">>, <<"cccd">>}
      /\ B!ToSet(queue) \subseteq B!ToSet(Tail(queue)) \cup {t}
      /\ queue \in {<<>>, <<"cccd">>} => t = "cccd" /\ Tail(queue) = <<>>
  BY <1>1, QueueFacts
<1>3. CASE ~B!Holds(t, conn) /\ Len(ram[t]) = B!Limit(t)
  <2>1. full' = TRUE /\ UNCHANGED <<ram, nvs, queue, failures, results_exhausted, faults>>
    BY <1>3 DEF B!Write, B!resultVars
  <2>2. B!TypeOK'
    BY <1>1, <2>1 DEF B!TypeOK
  <2> QED
    BY <1>1, <2>1, <2>2 DEF BondInv, FlashFits, RemoteHeld, B!Holds, Written, PairingOK, Outcome, SecuredOK,
                              B!PeerOk, B!ResultsAreOfLink
<1>4. CASE B!Holds(t, conn) \/ Len(ram[t]) # B!Limit(t)
  <2>1. /\ \E s \in B!Placed(t, conn) : ram' = [ram EXCEPT ![t] = s]
        /\ queue' = Tail(queue) /\ UNCHANGED full
        /\ \/ /\ nvs' = B!Copied(t, ram'[t])
              /\ B!SecurityResult(t, conn, FALSE) /\ UNCHANGED faults
           \/ UNCHANGED nvs /\ B!SecurityResult(t, conn, TRUE) /\ B!Fault
    BY <1>4 DEF B!Write
  <2>2. PICK s \in B!Placed(t, conn) : ram' = [ram EXCEPT ![t] = s]
    BY <2>1
  <2> HIDE DEF t
  <2>3. s \in Seq(Addresses) /\ B!IsInjective(s) /\ B!ToSet(s) = B!ToSet(ram[t]) \cup {conn} /\ Len(s) <= B!Limit(t)
    BY <1>1, <1>2, <1>4, PlacedFacts
  <2>4. /\ ram' \in [B!Types -> Seq(Addresses)] /\ ram'[t] = s /\ \A u \in B!Types \ {t} : ram'[u] = ram[u]
    BY <1>1, <1>2, <2>2, <2>3 DEF B!TypeOK
  <2>5. \A u \in B!Types : Len(ram'[u]) <= B!Limit(u) /\ B!IsInjective(ram'[u]) /\ B!ToSet(ram[u]) \subseteq B!ToSet(ram'[u])
    BY <1>1, <2>3, <2>4 DEF B!TypeOK
  <2>6. PICK bad \in BOOLEAN :
          /\ B!SecurityResult(t, conn, bad)
          /\ bad => UNCHANGED nvs /\ B!Fault
          /\ ~bad => nvs' = B!Copied(t, s) /\ UNCHANGED faults
    BY <2>1, <2>4
  <2>7. /\ nvs' \in [B!SecTypes -> SUBSET Addresses]
        /\ \A u \in B!SecTypes : u # t => nvs'[u] = nvs[u]
        /\ t \in B!SecTypes => IF bad THEN nvs'[t] = nvs[t] ELSE nvs'[t] = (nvs[t] \cap B!ToSet(s)) \cup {conn}
    BY <1>1, <2>6 DEF B!Copied, B!TypeOK, B!Types, B!SecTypes
  <2>8. /\ failures' \subseteq B!SecTypes \X Addresses /\ B!Cardinality(failures') <= MaxFailures
        /\ results_exhausted' \in BOOLEAN
        /\ failures' \subseteq failures \cup {<<t, conn>>}
        /\ \A u \in B!SecTypes \ {t} : <<u, conn>> \in failures => <<u, conn>> \in failures'
        /\ results_exhausted => results_exhausted'
        /\ t \in B!SecTypes /\ bad => results_exhausted' \/ <<t, conn>> \in failures'
    BY <1>1, <1>2, <2>6, ResultType
  <2>9. faults' \in 0..MaxFaults
    BY <1>1, <2>6, StoreAssumption DEF B!Fault, B!TypeOK
  <2>10. B!TypeOK'
    BY <1>1, <1>2, <2>1, <2>4, <2>5, <2>7, <2>8, <2>9 DEF B!TypeOK
  <2>11. FlashFits'
    <3> SUFFICES ASSUME NEW u \in B!SecTypes PROVE B!Cardinality(nvs'[u]) <= MaxBonds
      BY DEF FlashFits
    <3>1. CASE u = t /\ ~bad
      <4>1. nvs'[t] \subseteq B!ToSet(s)
        BY <2>3, <2>7, <3>1
      <4>2. B!IsFiniteSet(B!ToSet(s)) /\ B!Cardinality(B!ToSet(s)) = Len(s) /\ Len(s) \in Nat
        <5>1. s \in Seq(Addresses) /\ B!IsInjective(s)
          BY <2>3
        <5>2. B!IsFiniteSet(B!ToSet(s)) /\ B!Cardinality(B!ToSet(s)) = Len(s)
          BY <5>1, TableSize
        <5>3. Len(s) \in Nat
          BY <5>1
        <5> QED
          BY <5>2, <5>3
      <4>3. B!Cardinality(nvs'[t]) <= B!Cardinality(B!ToSet(s)) /\ B!Cardinality(nvs'[t]) \in Nat
        BY Counted, <4>1, <4>2, FS_Subset, FS_CardinalityType
      <4>4. B!Limit(t) = MaxBonds
        BY <3>1 DEF B!Limit, B!SecTypes
      <4> QED
        BY <2>3, <3>1, <4>2, <4>3, <4>4, StoreAssumption
    <3>2. CASE ~(u = t /\ ~bad)
      BY <2>7, <3>2 DEF BondInv, FlashFits
    <3> QED
      BY <3>1, <3>2
  <2>12. RemoteHeld'
    <3> SUFFICES ASSUME remote \in nvs'["peer_sec"] PROVE remote \in B!ToSet(ram'["peer_sec"])
      BY <1>1 DEF RemoteHeld, B!Holds
    <3>1. "peer_sec" \in B!SecTypes /\ "peer_sec" \in B!Types
      BY DEF B!SecTypes, B!Types
    <3>2. remote \in nvs["peer_sec"] => remote \in B!ToSet(ram["peer_sec"])
      BY DEF BondInv, RemoteHeld, B!Holds
    <3> QED
      BY <2>3, <2>4, <2>5, <2>7, <3>1, <3>2
  <2>13. Written'
    BY <1>1, StoreAssumption DEF Written
  <2>14. PairingOK'
    <3> SUFFICES ASSUME paired, NEW u \in B!SecTypes PROVE Outcome(u)'
      BY <1>1, StoreAssumption DEF PairingOK
    <3>1. Outcome(u)
      BY DEF BondInv, PairingOK
    <3>2. CASE u = t
      BY <1>1, <2>7, <2>8, <3>2 DEF Outcome
    <3>3. CASE u # t
      BY <1>1, <1>2, <2>1, <2>7, <2>8, <3>1, <3>3 DEF Outcome
    <3> QED
      BY <3>2, <3>3
  <2>15. SecuredOK'
    <3> SUFFICES ASSUME secured # Nobody
                 PROVE  /\ conn \in B!ToSet(ram'["peer_sec"]) /\ queue' \in {<<>>, <<"cccd">>}
                        /\ ~results_exhausted' /\ \A u \in B!SecTypes : <<u, conn>> \notin failures'
                        /\ paired => \A u \in B!SecTypes : conn \in nvs'[u]
      BY <1>1 DEF SecuredOK, B!Holds, B!PeerOk
    <3>1. /\ conn \in B!ToSet(ram["peer_sec"]) /\ queue \in {<<>>, <<"cccd">>}
          /\ ~results_exhausted /\ \A u \in B!SecTypes : <<u, conn>> \notin failures
          /\ paired => \A u \in B!SecTypes : conn \in nvs[u]
      BY DEF BondInv, SecuredOK, B!Holds, B!PeerOk
    <3>2. t = "cccd" /\ Tail(queue) = <<>> /\ "peer_sec" \in B!Types
      BY <1>2, <3>1 DEF B!Types, B!SecTypes
    <3>3. \A u \in B!SecTypes : u # t
      BY <3>2 DEF B!SecTypes
    <3>4. UNCHANGED <<failures, results_exhausted>>
      BY <2>6, <3>3 DEF B!SecurityResult, B!resultVars
    <3> QED
      BY <2>1, <2>5, <2>7, <3>1, <3>2, <3>3, <3>4
  <2>16. B!ResultsAreOfLink'
    BY <1>1, <2>8 DEF BondInv, B!ResultsAreOfLink
  <2> QED
    BY <2>10, <2>11, <2>12, <2>13, <2>14, <2>15, <2>16 DEF BondInv
<1> QED
  BY <1>3, <1>4

\* What a deletion may take: nothing of the connected or remembered peer.
Shrunk ==
  /\ TablesFit /\ nvs' \in [B!SecTypes -> SUBSET Addresses]
  /\ \A u \in B!Types : \A q \in {conn, remote} :
       q \in B!ToSet(ram[u]) => q \in B!ToSet(ram'[u])
  /\ \A u \in B!SecTypes :
       nvs'[u] \subseteq nvs[u] /\ \A q \in {conn, remote} : q \in nvs[u] => q \in nvs'[u]

\* The deletion of an inactive peer.
LEMMA DeletedShrinks ==
  ASSUME B!TypeOK, NEW p, p # conn, p # remote, NEW gone, NEW kept, B!Deleted(p, gone, kept)
  PROVE  Shrunk
BY DeletedFacts DEF Shrunk

\* No deletion.
LEMMA SameShrinks ==
  ASSUME B!TypeOK, UNCHANGED B!storeVars
  PROVE  Shrunk
BY DEF Shrunk, TablesFit, B!TypeOK, B!storeVars

\* Every overflow deletes, if it does, one that was selected; it gives up or
\* lets the write be tried again.
LEMMA OverflowCases ==
  ASSUME B!TypeOK, B!Overflow
  PROVE  /\ UNCHANGED <<remote, conn, secured, paired>> /\ full
         /\ \/ UNCHANGED B!storeVars
            \/ \E known \in BOOLEAN : \E p \in B!Selected(Head(queue), known) : \E gone, kept : B!Deleted(p, gone, kept)
         /\ B!GiveUp \/ (full' = FALSE /\ UNCHANGED <<queue, B!resultVars>>)
         /\ faults' \in 0..MaxFaults
<1>1. UNCHANGED <<remote, conn, secured, paired>> /\ full
  BY DEF B!Overflow, B!linkVars
<1>2. PICK known \in BOOLEAN :
       IF B!Selected(Head(queue), known) = {} THEN B!GiveUp /\ UNCHANGED <<B!storeVars, faults>>
       ELSE \E p \in B!Selected(Head(queue), known) :
              \/ \E f \in B!Failing : B!Deleted(p, f[1], f[2]) /\ B!GiveUp /\ B!Fault
              \/ \E gone \in {B!Types, {}} :
                   /\ B!Deleted(p, gone, {}) /\ UNCHANGED faults
                   /\ IF Len(ram'[Head(queue)]) < Len(ram[Head(queue)])
                      THEN full' = FALSE /\ UNCHANGED <<queue, B!resultVars>>
                      ELSE B!GiveUp
  BY DEF B!Overflow
<1>3. B!Fault \/ UNCHANGED faults => faults' \in 0..MaxFaults
  BY StoreAssumption DEF B!Fault, B!TypeOK
<1>4. CASE B!Selected(Head(queue), known) = {}
  BY <1>1, <1>2, <1>3, <1>4
<1>5. CASE B!Selected(Head(queue), known) # {}
  <2>1. PICK p \in B!Selected(Head(queue), known) :
              \/ \E f \in B!Failing : B!Deleted(p, f[1], f[2]) /\ B!GiveUp /\ B!Fault
              \/ \E gone \in {B!Types, {}} :
                   /\ B!Deleted(p, gone, {}) /\ UNCHANGED faults
                   /\ IF Len(ram'[Head(queue)]) < Len(ram[Head(queue)])
                      THEN full' = FALSE /\ UNCHANGED <<queue, B!resultVars>>
                      ELSE B!GiveUp
    BY <1>2, <1>5
  <2>2. \E gone, kept : B!Deleted(p, gone, kept)
    BY <2>1
  <2>3. (B!GiveUp \/ (full' = FALSE /\ UNCHANGED <<queue, B!resultVars>>)) /\ faults' \in 0..MaxFaults
    BY <1>3, <2>1
  <2> QED
    BY <1>1, <2>2, <2>3
<1> QED
  BY <1>4, <1>5

\* An overflow takes only records of an inactive peer.
LEMMA OverflowShrinks ==
  ASSUME BondInv, B!Overflow
  PROVE  Shrunk
<1>1. B!TypeOK /\ Head(queue) \in B!Types
  <2>1. B!TypeOK /\ queue # <<>>
    BY OverflowCases DEF BondInv, B!TypeOK
  <2> QED
    BY <2>1, QueueFacts
<1>2. CASE UNCHANGED B!storeVars
  BY <1>1, <1>2, SameShrinks
<1>3. ASSUME NEW known \in BOOLEAN, NEW p \in B!Selected(Head(queue), known), NEW gone, NEW kept,
             B!Deleted(p, gone, kept)
      PROVE  Shrunk
  BY <1>1, <1>3, SelectedFacts, DeletedShrinks
<1> QED
  BY <1>1, <1>2, <1>3, OverflowCases

\* An overflow event.
LEMMA OverflowStep ==
  ASSUME BondInv, B!Overflow
  PROVE  BondInv'
<1> DEFINE t == Head(queue)
<1>1. /\ B!TypeOK /\ full /\ queue # <<>> /\ conn \in Addresses
      /\ UNCHANGED <<remote, conn, secured, paired>> /\ faults' \in 0..MaxFaults
  BY OverflowCases DEF BondInv, Written, B!TypeOK
<1>2. /\ t \in B!Types
      /\ Tail(queue) \in {<<>>, <<"our_sec", "peer_sec">>, <<"peer_sec">>, <<"cccd">>}
      /\ B!ToSet(queue) \subseteq B!ToSet(Tail(queue)) \cup {t}
      /\ queue \in {<<>>, <<"cccd">>} => t = "cccd" /\ Tail(queue) = <<>>
  BY <1>1, QueueFacts
<1>3. Shrunk
  BY OverflowShrinks
<1>4. \/ B!SecurityResult(t, conn, TRUE) /\ queue' = Tail(queue) /\ full' = FALSE
      \/ full' = FALSE /\ UNCHANGED <<queue, failures, results_exhausted>>
  BY <1>1, OverflowCases DEF B!GiveUp, B!resultVars
<1> HIDE DEF t
<1>5. /\ failures' \subseteq B!SecTypes \X Addresses /\ B!Cardinality(failures') <= MaxFailures
      /\ results_exhausted' \in BOOLEAN
      /\ failures' \subseteq failures \cup {<<t, conn>>}
      /\ \A u \in B!SecTypes \ {t} : <<u, conn>> \in failures => <<u, conn>> \in failures'
      /\ results_exhausted => results_exhausted'
      /\ t \in B!SecTypes /\ queue' = Tail(queue) =>
           results_exhausted' \/ <<t, conn>> \in failures' \/ UNCHANGED <<queue, failures, results_exhausted>>
  <2>1. CASE B!SecurityResult(t, conn, TRUE)
    BY <1>1, <1>2, <2>1, ResultType
  <2>2. CASE UNCHANGED <<queue, failures, results_exhausted>>
    BY <1>1, <2>2 DEF B!TypeOK
  <2> QED
    BY <1>4, <2>1, <2>2
<1>6. B!TypeOK'
  BY <1>1, <1>2, <1>3, <1>4, <1>5 DEF B!TypeOK, Shrunk, TablesFit
<1>7. FlashFits'
  <2> SUFFICES ASSUME NEW u \in B!SecTypes PROVE B!Cardinality(nvs'[u]) <= MaxBonds
    BY DEF FlashFits
  <2>1. B!IsFiniteSet(nvs[u]) /\ B!Cardinality(nvs[u]) \in Nat /\ nvs'[u] \in SUBSET nvs[u]
    BY <1>1, <1>3, Flash DEF Shrunk
  <2>2. B!Cardinality(nvs'[u]) <= B!Cardinality(nvs[u]) /\ B!Cardinality(nvs'[u]) \in Nat
    BY Counted, <2>1, FS_Subset, FS_CardinalityType
  <2> QED
    BY <2>1, <2>2, StoreAssumption DEF BondInv, FlashFits
<1>8. RemoteHeld'
  <2>1. "peer_sec" \in B!SecTypes /\ "peer_sec" \in B!Types
    BY DEF B!SecTypes, B!Types
  <2> QED
    BY <1>1, <1>3, <2>1 DEF BondInv, RemoteHeld, B!Holds, Shrunk
<1>9. Written'
  BY <1>1, StoreAssumption DEF Written
<1>10. PairingOK'
  <2> SUFFICES ASSUME paired, NEW u \in B!SecTypes PROVE Outcome(u)'
    BY <1>1, StoreAssumption DEF PairingOK
  <2>1. Outcome(u)
    BY DEF BondInv, PairingOK
  <2>2. conn \in nvs[u] => conn \in nvs'[u]
    BY <1>3 DEF Shrunk
  <2>3. CASE UNCHANGED <<queue, failures, results_exhausted>>
    BY <1>1, <2>1, <2>2, <2>3 DEF Outcome
  <2>4. CASE B!SecurityResult(t, conn, TRUE) /\ queue' = Tail(queue)
    <3>1. t \in B!SecTypes => results_exhausted' \/ <<t, conn>> \in failures'
      BY <1>1, <1>2, <2>4, ResultType
    <3> QED
      BY <1>1, <1>2, <1>5, <2>1, <2>2, <2>4, <3>1 DEF Outcome
  <2> QED
    BY <1>4, <2>3, <2>4
<1>11. SecuredOK'
  <2> SUFFICES ASSUME secured # Nobody
               PROVE  /\ conn \in B!ToSet(ram'["peer_sec"]) /\ queue' \in {<<>>, <<"cccd">>}
                      /\ ~results_exhausted' /\ \A u \in B!SecTypes : <<u, conn>> \notin failures'
                      /\ paired => \A u \in B!SecTypes : conn \in nvs'[u]
    BY <1>1 DEF SecuredOK, B!Holds, B!PeerOk
  <2>1. /\ conn \in B!ToSet(ram["peer_sec"]) /\ queue \in {<<>>, <<"cccd">>}
        /\ ~results_exhausted /\ \A u \in B!SecTypes : <<u, conn>> \notin failures
        /\ paired => \A u \in B!SecTypes : conn \in nvs[u]
    BY DEF BondInv, SecuredOK, B!Holds, B!PeerOk
  <2>2. "peer_sec" \in B!Types /\ "cccd" \notin B!SecTypes
    BY DEF B!SecTypes, B!Types
  <2>3. queue' \in {<<>>, <<"cccd">>}
    BY <1>2, <1>4, <2>1
  <2>4. UNCHANGED <<failures, results_exhausted>>
    BY <1>2, <1>4, <2>1, <2>2 DEF B!SecurityResult, B!resultVars
  <2> QED
    BY <1>3, <2>1, <2>2, <2>3, <2>4 DEF Shrunk
<1>12. B!ResultsAreOfLink'
  BY <1>1, <1>5 DEF BondInv, B!ResultsAreOfLink
<1> QED
  BY <1>6, <1>7, <1>8, <1>9, <1>10, <1>11, <1>12 DEF BondInv

\* A table read back from flash holds all that was there, and fits.
LEMMA RestoredFacts ==
  ASSUME BondInv, NEW t \in B!SecTypes, NEW s \in B!Restored(t)
  PROVE  s \in Seq(Addresses) /\ B!IsInjective(s) /\ B!ToSet(s) = nvs[t] /\ Len(s) <= MaxBonds
<1>1. nvs[t] \subseteq Addresses /\ B!IsFiniteSet(nvs[t])
  BY Flash DEF BondInv
<1> DEFINE A == nvs[t] \ B!ToSet(ram[t])
           C == B!ToSet(ram[t]) \intersect nvs[t]
<1>2. PICK l \in B!SetToSeqs(A), k \in B!SetToSeqs(C) : s = l \o k
  <2>1. \A kept \in B!Kept(t) : kept \in B!SetToSeqs(C)
    BY Zenon DEF B!Kept
  <2>2. \E left \in B!LeftOver(t), kept \in B!Kept(t) : s = left \o kept
    BY DEF B!Restored
  <2> QED
    BY <2>1, <2>2 DEF B!LeftOver
<1>3. B!IsFiniteSet(A) /\ B!IsFiniteSet(C) /\ A \cup C = nvs[t] /\ A \cap C = {}
  <2>1. A \in SUBSET nvs[t] /\ C \in SUBSET nvs[t] /\ A \cup C = nvs[t] /\ A \cap C = {}
    OBVIOUS
  <2> HIDE DEF A, C
  <2> QED
    BY Counted, <1>1, <2>1, FS_Subset
<1> HIDE DEF A, C
<1>4. l \in Seq(A) /\ B!IsInjective(l) /\ B!ToSet(l) = A
  BY <1>2, <1>3, Ordered
<1>5. k \in Seq(C) /\ B!IsInjective(k) /\ B!ToSet(k) = C
  BY <1>2, <1>3, Ordered
<1>6. l \in Seq(Addresses) /\ k \in Seq(Addresses)
  BY <1>1, <1>3, <1>4, <1>5
<1>7. s \in Seq(Addresses) /\ B!IsInjective(s) /\ B!ToSet(s) = nvs[t]
  <2>1. B!IsInjective(l) /\ B!IsInjective(k) /\ B!ToSet(l) \cap B!ToSet(k) = {}
    BY <1>3, <1>4, <1>5
  <2>2. l \o k \in Seq(Addresses) /\ B!IsInjective(l \o k) /\ B!ToSet(l \o k) = B!ToSet(l) \cup B!ToSet(k)
    BY <1>6, <2>1, Joined
  <2> QED
    BY <1>2, <1>3, <1>4, <1>5, <2>2
<1>8. Len(s) = B!Cardinality(nvs[t])
  BY <1>7, TableSize
<1> QED
  BY <1>7, <1>8 DEF BondInv, FlashFits

\* A connection begins, with no entry of the results left of the one before.
LEMMA ConnectedStep ==
  ASSUME BondInv, NEW p \in Addresses, B!Connected(p)
  PROVE  BondInv'
<1>1. /\ queue = <<>> /\ conn = Nobody /\ conn' = p /\ secured' = Nobody /\ paired' = FALSE
      /\ UNCHANGED <<ram, nvs, remote, queue, full, failures, results_exhausted, faults>>
  BY DEF B!Connected, B!Idle, B!storeVars, B!resultVars
<1>2. failures = {}
  <2>1. ASSUME NEW f \in failures PROVE FALSE
    <3>1. f[2] = Nobody /\ f \in B!SecTypes \X Addresses
      BY <1>1, <2>1 DEF BondInv, B!ResultsAreOfLink, B!TypeOK
    <3> QED
      BY <3>1, StoreAssumption
  <2> QED
    BY <2>1
<1>3. B!TypeOK'
  BY <1>1 DEF BondInv, B!TypeOK
<1> QED
  BY <1>1, <1>2, <1>3 DEF BondInv, FlashFits, RemoteHeld, B!Holds, Written, PairingOK, SecuredOK, B!PeerOk,
                        B!ResultsAreOfLink

\* A pairing puts its records on the queue.
LEMMA KeysExchangedStep ==
  ASSUME BondInv, B!KeysExchanged
  PROVE  BondInv'
<1>1. /\ queue = <<>> /\ conn # Nobody /\ ~B!Holds("peer_sec", conn)
      /\ paired' = TRUE /\ queue' = <<"our_sec", "peer_sec">>
      /\ UNCHANGED <<ram, nvs, remote, conn, secured, full, failures, results_exhausted, faults>>
  BY DEF B!KeysExchanged, B!Idle, B!storeVars, B!resultVars
<1>2. secured = Nobody
  BY <1>1 DEF BondInv, SecuredOK
<1>3. full' = FALSE
  BY <1>1 DEF BondInv, B!TypeOK
<1>4. B!TypeOK'
  BY <1>1, <1>3 DEF BondInv, B!TypeOK
<1>5. PairingOK'
  <2>1. \A t \in B!SecTypes : t \in B!ToSet(queue')
    BY <1>1 DEF B!ToSet, B!SecTypes
  <2> QED
    BY <1>1, <2>1 DEF PairingOK, Outcome
<1> QED
  BY <1>1, <1>2, <1>4, <1>5 DEF BondInv, FlashFits, RemoteHeld, B!Holds, Written, SecuredOK, B!PeerOk,
                        B!ResultsAreOfLink

\* A subscription puts its record on the queue.
LEMMA SubscribedStep ==
  ASSUME BondInv, B!Subscribed
  PROVE  BondInv'
<1>1. /\ queue = <<>> /\ conn # Nobody /\ queue' = <<"cccd">>
      /\ UNCHANGED <<ram, nvs, remote, conn, secured, paired, full, failures, results_exhausted, faults>>
  BY DEF B!Subscribed, B!Idle, B!storeVars, B!resultVars, B!linkVars
<1>2. full' = FALSE
  BY <1>1 DEF BondInv, B!TypeOK
<1>3. B!TypeOK'
  BY <1>1, <1>2 DEF BondInv, B!TypeOK
<1>4. PairingOK'
  <2>1. \A t \in B!SecTypes : t \notin B!ToSet(queue)
    BY <1>1 DEF B!ToSet
  <2> QED
    BY <1>1, <2>1 DEF BondInv, PairingOK, Outcome
<1> QED
  BY <1>1, <1>3, <1>4 DEF BondInv, FlashFits, RemoteHeld, B!Holds, Written, SecuredOK, B!PeerOk,
                        B!ResultsAreOfLink

\* The security check: no failed copy passes it.
LEMMA EncryptedStep ==
  ASSUME BondInv, NEW bonded \in BOOLEAN, B!Encrypted(bonded)
  PROVE  BondInv'
<1>1. /\ queue = <<>> /\ conn # Nobody
      /\ UNCHANGED <<ram, nvs, conn, paired, queue, full, failures, results_exhausted, faults>>
  BY DEF B!Encrypted, B!Idle, B!storeVars, B!resultVars
<1>2. \/ B!Trusted(bonded) /\ secured' = conn /\ remote' \in {remote, conn}
      \/ secured' = Nobody /\ remote' = remote
  BY DEF B!Encrypted
<1>3. B!Trusted(bonded) => B!Holds("peer_sec", conn) /\ ~results_exhausted
                        /\ \A t \in B!SecTypes : <<t, conn>> \notin failures
  BY DEF B!Trusted, B!PeerOk
<1>4. B!TypeOK'
  BY <1>1, <1>2 DEF BondInv, B!TypeOK
<1>5. RemoteHeld'
  BY <1>1, <1>2, <1>3 DEF BondInv, RemoteHeld, B!Holds
<1>6. PairingOK'
  BY <1>1 DEF BondInv, PairingOK, Outcome
<1>7. SecuredOK'
  <2> SUFFICES ASSUME secured' # Nobody
               PROVE  /\ B!Holds("peer_sec", conn) /\ queue \in {<<>>, <<"cccd">>}
                      /\ B!PeerOk(conn)
                      /\ paired => \A t \in B!SecTypes : conn \in nvs[t]
    BY <1>1 DEF SecuredOK, B!Holds, B!PeerOk
  <2>1. B!Trusted(bonded)
    BY <1>2
  <2>2. \A t \in B!SecTypes : t \notin B!ToSet(queue)
    BY <1>1 DEF B!ToSet
  <2>3. B!PeerOk(conn)
    BY <2>1 DEF B!Trusted
  <2> QED
    BY <1>1, <1>3, <2>1, <2>2, <2>3 DEF BondInv, PairingOK, Outcome
<1> QED
  BY <1>1, <1>4, <1>5, <1>6, <1>7 DEF BondInv, FlashFits, Written, B!ResultsAreOfLink

\* The end of a link: no entry of the results is left of it.
LEMMA DisconnectedStep ==
  ASSUME BondInv, B!Disconnected
  PROVE  BondInv'
<1>1. /\ queue = <<>> /\ conn' = Nobody /\ secured' = Nobody /\ paired' = FALSE
      /\ failures' = {f \in failures : f[2] # conn}
      /\ UNCHANGED <<ram, nvs, remote, queue, full, results_exhausted, faults>>
  BY DEF B!Disconnected, B!Idle, B!storeVars
<1>2. failures' = {}
  BY <1>1 DEF BondInv, B!ResultsAreOfLink
<1>3. B!Cardinality({}) <= MaxFailures
  BY Counted, FS_EmptySet, StoreAssumption
<1>4. B!TypeOK'
  BY <1>1, <1>2, <1>3 DEF BondInv, B!TypeOK
<1> QED
  BY <1>1, <1>2, <1>4 DEF BondInv, FlashFits, RemoteHeld, B!Holds, Written, PairingOK, SecuredOK, B!PeerOk,
                        B!ResultsAreOfLink

\* The host resets.
LEMMA HostResetStep ==
  ASSUME BondInv, B!HostReset
  PROVE  BondInv'
<1>1. /\ queue = <<>> /\ conn' = Nobody /\ secured' = Nobody /\ paired' = FALSE
      /\ failures' = {} /\ results_exhausted' = FALSE
      /\ UNCHANGED <<ram, nvs, remote, queue, full, faults>>
  BY DEF B!HostReset, B!Fresh, B!Idle
<1>2. B!Cardinality({}) <= MaxFailures
  BY Counted, FS_EmptySet, StoreAssumption
<1>3. B!TypeOK'
  BY <1>1, <1>2 DEF BondInv, B!TypeOK
<1> QED
  BY <1>1, <1>3 DEF BondInv, FlashFits, RemoteHeld, B!Holds, Written, PairingOK, SecuredOK, B!PeerOk,
                        B!ResultsAreOfLink

\* Power is lost.
LEMMA RestartStep ==
  ASSUME BondInv, B!Restart
  PROVE  BondInv'
<1>1. /\ conn' = Nobody /\ secured' = Nobody /\ paired' = FALSE /\ queue' = <<>> /\ full' = FALSE
      /\ failures' = {} /\ results_exhausted' = FALSE /\ UNCHANGED <<nvs, remote, faults>>
  BY DEF B!Restart, B!Fresh
<1>2. PICK ours \in B!Restored("our_sec"), theirs \in B!Restored("peer_sec") :
        ram' = [ram EXCEPT !["our_sec"] = ours, !["peer_sec"] = theirs]
  BY DEF B!Restart
<1>3. /\ "our_sec" \in B!SecTypes /\ "peer_sec" \in B!SecTypes
      /\ B!Types = {"our_sec", "peer_sec", "cccd"} /\ \A t \in B!SecTypes : B!Limit(t) = MaxBonds
  BY DEF B!SecTypes, B!Types, B!Limit
<1>4. ours \in Seq(Addresses) /\ B!IsInjective(ours) /\ Len(ours) <= MaxBonds
  BY <1>3, RestoredFacts
<1>5. theirs \in Seq(Addresses) /\ B!IsInjective(theirs) /\ Len(theirs) <= MaxBonds
      /\ B!ToSet(theirs) = nvs["peer_sec"]
  BY <1>3, RestoredFacts
<1>6. ram \in [B!Types -> Seq(Addresses)]
  BY DEF BondInv, B!TypeOK
<1>7. /\ ram' \in [B!Types -> Seq(Addresses)] /\ ram'["our_sec"] = ours /\ ram'["peer_sec"] = theirs
      /\ ram'["cccd"] = ram["cccd"]
  BY <1>2, <1>3, <1>4, <1>5, <1>6
<1>8. \A t \in B!Types : Len(ram'[t]) <= B!Limit(t) /\ B!IsInjective(ram'[t])
  BY <1>3, <1>4, <1>5, <1>7 DEF BondInv, B!TypeOK
<1>9. B!Cardinality({}) <= MaxFailures
  BY Counted, FS_EmptySet, StoreAssumption
<1>10. B!TypeOK'
  BY <1>1, <1>7, <1>8, <1>9 DEF BondInv, B!TypeOK
<1> QED
  BY <1>1, <1>5, <1>7, <1>10 DEF BondInv, FlashFits, RemoteHeld, B!Holds, Written, PairingOK, SecuredOK, B!PeerOk,
                        B!ResultsAreOfLink

\* The invariant holds of what a start finds in flash.
LEMMA BondInit == B!Init => BondInv
<1> SUFFICES ASSUME B!Init PROVE BondInv
  OBVIOUS
<1>1. /\ conn = Nobody /\ secured = Nobody /\ paired = FALSE /\ queue = <<>> /\ full = FALSE
      /\ failures = {} /\ results_exhausted = FALSE /\ faults = 0
  BY DEF B!Init
<1>2. PICK S \in SUBSET Addresses :
        /\ B!Cardinality(S) <= MaxBonds /\ remote \in Addresses \union {Nobody}
        /\ \E order \in B!SetToSeqs(S) :
             /\ ram = [t \in B!Types |-> IF t = "cccd" THEN <<>> ELSE order]
             /\ nvs = [t \in B!SecTypes |-> S]
  BY DEF B!Init
<1>3. B!IsFiniteSet(S)
  BY Counted, StoreAssumption, FS_Subset
<1>4. PICK order \in B!SetToSeqs(S) :
        /\ ram = [t \in B!Types |-> IF t = "cccd" THEN <<>> ELSE order]
        /\ nvs = [t \in B!SecTypes |-> S]
  BY <1>2
<1>5. order \in Seq(Addresses) /\ B!IsInjective(order) /\ B!ToSet(order) = S /\ Len(order) = B!Cardinality(S)
  BY <1>2, <1>3, Ordered
<1>6. B!Types = {"our_sec", "peer_sec", "cccd"} /\ B!SecTypes = {"our_sec", "peer_sec"}
  BY DEF B!SecTypes, B!Types
<1>7. <<>> \in Seq(Addresses) /\ Len(<<>>) = 0 /\ B!IsInjective(<<>>) /\ 0 <= MaxCccds
  BY StoreAssumption DEF B!IsInjective
<1>8. ram \in [B!Types -> Seq(Addresses)]
  BY <1>4, <1>5, <1>7
<1>9. \A t \in B!Types : Len(ram[t]) <= B!Limit(t) /\ B!IsInjective(ram[t])
  BY <1>2, <1>4, <1>5, <1>6, <1>7 DEF B!Limit
<1>10. nvs \in [B!SecTypes -> SUBSET Addresses]
  BY <1>4
<1>11. B!Cardinality({}) <= MaxFailures /\ 0 \in 0..MaxFaults
  BY Counted, FS_EmptySet, StoreAssumption
<1>12. B!TypeOK
  BY <1>1, <1>2, <1>8, <1>9, <1>10, <1>11 DEF B!TypeOK
<1>13. FlashFits /\ RemoteHeld
  BY <1>2, <1>4, <1>5, <1>6 DEF FlashFits, RemoteHeld, B!Holds
<1> QED
  BY <1>1, <1>12, <1>13 DEF BondInv, Written, PairingOK, SecuredOK, B!ResultsAreOfLink

\* Every step keeps the invariant.
LEMMA BondStep ==
  ASSUME BondInv, [B!Next]_(B!vars)
  PROVE  BondInv'
<1>1. CASE UNCHANGED B!vars
  BY <1>1 DEF B!vars, B!storeVars, B!resultVars, B!linkVars, BondInv, B!TypeOK, FlashFits, RemoteHeld, B!Holds,
              Written, PairingOK, Outcome, SecuredOK, B!PeerOk, B!ResultsAreOfLink
<1>2. CASE B!Write
  BY <1>2, WriteStep
<1>3. CASE B!Overflow
  BY <1>3, OverflowStep
<1>4. CASE \E p \in Addresses : B!Connected(p)
  BY <1>4, ConnectedStep
<1>5. CASE B!KeysExchanged
  BY <1>5, KeysExchangedStep
<1>6. CASE B!Subscribed
  BY <1>6, SubscribedStep
<1>7. CASE \E bonded \in BOOLEAN : B!Encrypted(bonded)
  BY <1>7, EncryptedStep
<1>8. CASE B!Disconnected
  BY <1>8, DisconnectedStep
<1>9. CASE B!HostReset
  BY <1>9, HostResetStep
<1>10. CASE B!Restart
  BY <1>10, RestartStep
<1> QED
  BY <1>1, <1>2, <1>3, <1>4, <1>5, <1>6, <1>7, <1>8, <1>9, <1>10 DEF B!Next

\* The invariant holds in every reachable state of the store.
LEMMA BondInvariant == B!Spec => []BondInv
BY BondInit, BondStep, PTL DEF B!Spec

\* A link that made its key is secured only with its records in flash, and no
\* link is secured with a failed write of its own or a full result table
\* (BondStore.tla).
THEOREM BondIsSafe == B!Spec => []BondSafety
<1>1. BondInv => BondSafety
  <2> SUFFICES ASSUME BondInv PROVE BondSafety
    OBVIOUS
  <2>1. B!PairedIsStored
    BY DEF BondInv, B!TypeOK, SecuredOK, B!PairedIsStored
  <2>2. B!SecuredIsUnblamed
    BY DEF BondInv, B!TypeOK, SecuredOK, B!PeerOk, B!SecuredIsUnblamed
  <2> QED
    BY <2>1, <2>2 DEF BondInv, BondSafety, B!BondSafety
<1> QED
  BY <1>1, BondInvariant, PTL

-----------------------------------------------------------------------------
(* The action properties of the bond store.                                *)

\* No step takes the key of the remembered remote from flash.
LEMMA RemoteKept ==
  ASSUME BondInv, [B!Next]_(B!vars), remote \in nvs["peer_sec"]
  PROVE  remote \in nvs'["peer_sec"]
<1>1. "peer_sec" \in B!SecTypes
  BY DEF B!SecTypes
<1>2. CASE UNCHANGED nvs
  BY <1>2
<1>3. CASE B!Overflow
  BY <1>1, <1>3, OverflowShrinks DEF Shrunk
<1>4. CASE B!Write
  <2> DEFINE t == Head(queue)
  <2>1. B!TypeOK /\ queue # <<>> /\ conn \in Addresses /\ B!Holds("peer_sec", remote)
    BY <1>4 DEF B!Write, BondInv, Written, B!TypeOK, RemoteHeld
  <2>2. t \in B!Types
    BY <2>1, QueueFacts
  <2>3. CASE nvs' = B!Copied(t, ram'[t]) /\ \E s \in B!Placed(t, conn) : ram' = [ram EXCEPT ![t] = s]
                /\ (B!Holds(t, conn) \/ Len(ram[t]) # B!Limit(t))
    <3>1. PICK s \in B!Placed(t, conn) : ram' = [ram EXCEPT ![t] = s]
      BY <2>3
    <3> HIDE DEF t
    <3>2. B!ToSet(s) = B!ToSet(ram[t]) \cup {conn}
      BY <2>1, <2>2, <2>3, PlacedFacts
    <3>3. ram'[t] = s
      BY <2>1, <2>2, <3>1 DEF B!TypeOK
    <3>4. nvs' = nvs \/ nvs' = [nvs EXCEPT ![t] = (@ \intersect B!ToSet(s)) \union {conn}]
      BY <2>3, <3>3 DEF B!Copied
    <3>5. nvs \in [B!SecTypes -> SUBSET Addresses]
      BY <2>1 DEF B!TypeOK
    <3> QED
      BY <1>1, <2>1, <3>2, <3>4, <3>5 DEF B!Holds
  <2> QED
    BY <1>2, <1>4, <2>3 DEF B!Write
<1> QED
  BY <1>2, <1>3, <1>4 DEF B!Next, B!vars, B!storeVars, B!Connected, B!KeysExchanged, B!Subscribed, B!Encrypted,
       B!Disconnected, B!HostReset, B!Restart, B!Fresh

\* A peer that loses a record while a table is full is the oldest inactive one.
LEMMA OldestEvicted ==
  ASSUME BondInv, [B!Next]_(B!vars), full, conn' = conn, NEW p \in Addresses, NEW t \in B!SecTypes,
         (B!Holds(t, p) /\ p \notin B!ToSet(ram'[t])) \/ p \in nvs[t] \ nvs'[t]
  PROVE  /\ p \notin {remote, conn}
         /\ t = Head(queue) => \A i, j \in 1..Len(ram[t]) :
              ram[t][i] = p /\ j < i => ram[t][j] \in {remote, conn}
<1>1. B!TypeOK /\ queue # <<>> /\ t \in B!Types /\ conn # Nobody
  BY DEF BondInv, B!TypeOK, Written, B!Types
<1>2. B!Overflow
  <2>1. ~UNCHANGED B!storeVars
    BY DEF B!storeVars, B!Holds
  <2>2. ~B!Write /\ ~B!Restart
    BY <1>1 DEF B!Write, B!Restart, B!Fresh
  <2> QED
    BY <2>1, <2>2 DEF B!Next, B!vars, B!storeVars, B!Connected, B!KeysExchanged, B!Subscribed, B!Encrypted,
       B!Disconnected, B!HostReset, B!Fresh
<1>3. Head(queue) \in B!Types
  BY <1>1, QueueFacts
<1>4. DOMAIN ram[t] = 1..Len(ram[t])
  BY <1>1 DEF B!TypeOK
<1>5. ASSUME NEW known \in BOOLEAN, NEW q \in B!Selected(Head(queue), known), NEW gone, NEW kept,
             B!Deleted(q, gone, kept)
      PROVE  /\ p \notin {remote, conn}
             /\ t = Head(queue) => \A i, j \in 1..Len(ram[t]) :
                  ram[t][i] = p /\ j < i => ram[t][j] \in {remote, conn}
  <2>1. p = q
    BY <1>1, <1>5, DeletedFacts DEF B!Holds
  <2> QED
    BY <1>1, <1>3, <1>4, <1>5, <2>1, SelectedFacts
<1>6. ~UNCHANGED B!storeVars
  BY DEF B!storeVars, B!Holds
<1> QED
  BY <1>1, <1>2, <1>5, <1>6, OverflowCases

\* Room is made at the cost of the oldest inactive peer, and the key of the
\* remembered remote stays in flash (BondStore.tla).
THEOREM EvictionIsAlwaysRight == B!Spec => EvictionIsRight
<1>1. BondInv /\ [B!Next]_(B!vars) =>
        [full /\ conn' = conn =>
          (\A p \in Addresses, t \in B!SecTypes :
            (B!Holds(t, p) /\ p \notin B!ToSet(ram'[t])) \/ p \in nvs[t] \ nvs'[t]
            => /\ p \notin {remote, conn}
               /\ t = Head(queue) => \A i, j \in 1..Len(ram[t]) :
                    ram[t][i] = p /\ j < i => ram[t][j] \in {remote, conn})]_(B!vars)
  BY OldestEvicted
<1>2. BondInv /\ [B!Next]_(B!vars) =>
        [(remote \in nvs["peer_sec"]) => (remote \in nvs'["peer_sec"])]_(B!vars)
  BY RemoteKept
<1>3. B!Spec => B!EvictsOldest
  BY <1>1, BondInvariant, PTL DEF B!Spec, B!EvictsOldest
<1>4. B!Spec => B!RemoteKeepsBond
  BY <1>2, BondInvariant, PTL DEF B!Spec, B!RemoteKeepsBond
<1> QED
  BY <1>3, <1>4 DEF EvictionIsRight, B!EvictionIsRight
=============================================================================
