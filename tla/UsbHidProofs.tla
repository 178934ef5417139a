---------------------------- MODULE UsbHidProofs ----------------------------
(***************************************************************************)
(* Theorems about UsbHid, for every queue size, reserve and bound: type    *)
(* correctness, the worker and the endpoint, the link handshake, the host  *)
(* sessions, no stuck key, and the refinement of ReportChannel.            *)
(***************************************************************************)
EXTENDS UsbHid, TLAPS

\* Every list of calls a handler makes is a list of sections.
LEMMA CallLists ==
  /\ Flush \in Seq(Ops) /\ Publish \in Seq(Ops) /\ Release \in Seq(Ops)
  /\ \A c, r, a \in BOOLEAN : LinkCalls(c, r, a) \in Seq(Ops)
<1>1. /\ <<>> \in Seq(Ops)
      /\ \A o \in Ops : <<o>> \in Seq(Ops)
      /\ \A o, p \in Ops : <<o, p>> \in Seq(Ops)
  OBVIOUS
<1>2. /\ "clear" \in Ops /\ "vendor" \in Ops /\ "keyboard" \in Ops
      /\ "consumer" \in Ops /\ "dirty" \in Ops
  BY DEF Ops
<1>3. \A s, t \in Seq(Ops) : s \o t \in Seq(Ops)
  OBVIOUS
<1>4. Flush \in Seq(Ops)
  BY <1>1, <1>2 DEF Flush
<1>5. Publish \in Seq(Ops) /\ Release \in Seq(Ops)
  BY <1>1, <1>2, <1>3, <1>4 DEF Publish, Release
<1>6. \A c, r, a \in BOOLEAN : LinkCalls(c, r, a) \in Seq(Ops)
  BY <1>1, <1>2, <1>3, <1>5 DEF LinkCalls
<1> QED
  BY <1>4, <1>5, <1>6

LEMMA InitTypeOK == Init => TypeOK
<1> SUFFICES ASSUME Init PROVE TypeOK
  OBVIOUS
<1>1. <<>> \in Seq(Reports) /\ <<>> \in Seq(Events) /\ <<>> \in Seq(Ops)
  OBVIOUS
<1>2. BusOK
  <2>1. host \in [NativeIds -> BOOLEAN]
    BY DEF Init
  <2> QED
    BY <1>1, <2>1 DEF Init, BusOK
<1>3. LinkOK /\ OwnerOK
  BY DEF Init, LinkOK, OwnerOK
<1>4. QueueOK
  <2>1. packets \in Seq(Reports) /\ Len(packets) = 0
    BY <1>1 DEF Init
  <2>2. in_flight \in BOOLEAN /\ retry_state \in BOOLEAN
    BY DEF Init
  <2> QED
    BY <2>1, <2>2, QueueAssumption DEF QueueOK
<1>5. SlotsOK
  BY DEF Init, SlotsOK, Slots
<1>6. TasksOK
  <2>1. eventq \in Seq(Events) /\ todo \in Seq(Ops)
    BY <1>1 DEF Init
  <2>2. notified \in BOOLEAN
    BY DEF Init
  <2> QED
    BY <2>1, <2>2 DEF Init, TasksOK
<1> QED
  BY <1>2, <1>3, <1>4, <1>5, <1>6 DEF TypeOK

\* A step that leaves a group of variables alone keeps its part of TypeOK.
LEMMA Kept ==
  /\ BusOK   /\ UNCHANGED busVars   => BusOK'
  /\ LinkOK  /\ UNCHANGED linkVars  => LinkOK'
  /\ QueueOK /\ UNCHANGED queueVars => QueueOK'
  /\ OwnerOK /\ UNCHANGED ownerVars => OwnerOK'
  /\ SlotsOK /\ UNCHANGED slotVars  => SlotsOK'
<1>1. BusOK /\ UNCHANGED busVars => BusOK'
  BY DEF BusOK, busVars
<1>2. LinkOK /\ UNCHANGED linkVars => LinkOK'
  BY DEF LinkOK, linkVars
<1>3. QueueOK /\ UNCHANGED queueVars => QueueOK'
  BY DEF QueueOK, queueVars
<1>4. OwnerOK /\ UNCHANGED ownerVars => OwnerOK'
  BY DEF OwnerOK, ownerVars
<1>5. SlotsOK /\ UNCHANGED slotVars => SlotsOK'
  BY DEF SlotsOK, slotVars
<1> QED
  BY <1>1, <1>2, <1>3, <1>4, <1>5

LEMMA PutOK ==
  ASSUME NEW e \in Events, eventq \in Seq(Events), Put(e)
  PROVE  eventq' \in Seq(Events)
  BY DEF Put

LEMMA EmptyQueue == <<>> \in Seq(Reports) /\ Len(<<>>) <= QueueSize
  BY QueueAssumption

LEMMA EmptyQueueOK ==
  ASSUME packets' = <<>>, in_flight' \in BOOLEAN, retry_state' \in BOOLEAN
  PROVE  QueueOK'
  BY EmptyQueue DEF QueueOK

\* The TinyUSB task keeps the types.
LEMMA CallbackTypeOK == TypeOK /\ (Callback \/ Bus) => TypeOK'
<1> SUFFICES ASSUME BusOK, LinkOK, QueueOK, OwnerOK, SlotsOK, TasksOK, Callback \/ Bus
             PROVE  TypeOK'
  BY DEF TypeOK
<1> USE Kept
<1>0. <<>> \in Seq(Reports) /\ "link" \in Events /\ "output" \in Events
  BY DEF Events
<1>1. CASE MarkLink
  <2>1. LinkOK'
    BY <1>1 DEF MarkLink, LinkOK
  <2>3. QueueOK'
    <3>1. in_flight' \in BOOLEAN /\ retry_state' \in BOOLEAN
      BY <1>1 DEF MarkLink, DropReports, QueueOK
    <3> QED
      BY <1>1, <3>1, EmptyQueueOK DEF MarkLink, DropReports
  <2>2. TasksOK'
    BY <1>1 DEF MarkLink, TasksOK
  <2> QED
    BY <1>1, <2>1, <2>2, <2>3 DEF MarkLink, TypeOK
<1>2. CASE SignalMarked
  <2>1. TasksOK'
    BY <1>0, <1>2, PutOK DEF SignalMarked, TasksOK
  <2> QED
    BY <1>2, <2>1 DEF SignalMarked, TypeOK
<1>3. CASE ReportComplete
  <2>1. QueueOK' /\ TasksOK'
    BY <1>3 DEF ReportComplete, QueueOK, TasksOK
  <2> QED
    BY <1>3, <2>1 DEF ReportComplete, TypeOK
<1>4. CASE SignalComplete
  <2>1. TasksOK'
    BY <1>0, <1>4, PutOK DEF SignalComplete, TasksOK
  <2> QED
    BY <1>4, <2>1 DEF SignalComplete, TypeOK
<1>5. CASE ReportFailed
  <2>1. QueueOK' /\ TasksOK'
    BY <1>5, EmptyQueueOK DEF ReportFailed, TasksOK
  <2> QED
    BY <1>5, <2>1 DEF ReportFailed, TypeOK
<1>6. CASE SignalFailed
  <2>1. TasksOK'
    BY <1>0, <1>6, PutOK DEF SignalFailed, TasksOK
  <2> QED
    BY <1>6, <2>1 DEF SignalFailed, TypeOK
<1>7. ASSUME NEW b \in {"off", "on", "asleep"}, BusChange(b)
      PROVE  TypeOK'
  <2>1. host' \in [NativeIds -> BOOLEAN]
    BY <1>7 DEF BusChange, BusOK
  <2>2. wire' \in Seq(Reports) /\ Len(wire') <= 1
    BY <1>0, <1>7 DEF BusChange, BusOK
  <2>3. BusOK'
    BY <1>7, <2>1, <2>2 DEF BusChange, BusOK
  <2>4. TasksOK'
    BY <1>7 DEF BusChange, TasksOK
  <2> QED
    BY <1>7, <2>3, <2>4 DEF BusChange, TypeOK
<1>8. CASE TransferDone
  <2>1. Head(wire) \in Reports
    BY <1>8 DEF TransferDone, BusOK
  <2>2. host' \in [NativeIds -> BOOLEAN]
    BY <1>8, <2>1 DEF TransferDone, BusOK, Reports
  <2>3. BusOK'
    BY <1>0, <1>8, <2>2 DEF TransferDone, BusOK
  <2>4. TasksOK'
    BY <1>8 DEF TransferDone, TasksOK
  <2> QED
    BY <1>8, <2>3, <2>4 DEF TransferDone, TypeOK
<1>9. CASE TransferLost
  <2>1. BusOK' /\ TasksOK'
    BY <1>0, <1>9 DEF TransferLost, BusOK, TasksOK
  <2> QED
    BY <1>9, <2>1 DEF TransferLost, TypeOK
<1> QED
  BY <1>1, <1>2, <1>3, <1>4, <1>5, <1>6, <1>7, <1>8, <1>9 DEF Callback, Bus

\* The worker keeps the types.
LEMMA TxTypeOK == TypeOK /\ Tx => TypeOK'
<1> SUFFICES ASSUME BusOK, LinkOK, QueueOK, OwnerOK, SlotsOK, TasksOK, Tx
             PROVE  TypeOK'
  BY DEF TypeOK
<1> USE Kept
<1>1. CASE TxSend
  <2>1. /\ Head(packets) \in Reports /\ Tail(packets) \in Seq(Reports)
        /\ Len(Tail(packets)) <= QueueSize
    BY <1>1, QueueAssumption DEF TxSend, TxCanSend, Sendable, QueueOK
  <2>2. <<Head(packets)>> \in Seq(Reports) /\ Len(<<Head(packets)>>) <= 1
    BY <2>1
  <2>3. BusOK'
    BY <1>1, <2>2 DEF TxSend, BusOK
  <2>4. QueueOK'
    BY <1>1, <2>1 DEF TxSend, QueueOK
  <2>5. TasksOK'
    BY <1>1 DEF TxSend, TasksOK
  <2> QED
    BY <1>1, <2>3, <2>4, <2>5 DEF TxSend, TypeOK
<1>2. CASE TxRefused
  <2>1. QueueOK'
    BY <1>2, EmptyQueueOK DEF TxRefused
  <2>2. BusOK' /\ TasksOK'
    BY <1>2 DEF TxRefused, BusOK, TasksOK
  <2> QED
    BY <1>2, <2>1, <2>2 DEF TxRefused, TypeOK
<1>3. CASE TxNothing
  <2>1. TasksOK'
    BY <1>3 DEF TxNothing, TasksOK
  <2> QED
    BY <1>3, <2>1 DEF TxNothing, TypeOK
<1>4. CASE TxSignal
  <2>1. "link" \in Events
    BY DEF Events
  <2>2. TasksOK'
    BY <1>4, <2>1, PutOK DEF TxSignal, TasksOK
  <2> QED
    BY <1>4, <2>2 DEF TxSignal, TypeOK
<1>5. CASE TxDecide
  <2>1. TasksOK'
    BY <1>5 DEF TxDecide, TasksOK
  <2> QED
    BY <1>5, <2>1 DEF TxDecide, TypeOK
<1>6. CASE TxWakes
  <2>1. TasksOK'
    BY <1>6 DEF TxWakes, TasksOK
  <2> QED
    BY <1>6, <2>1 DEF TxWakes, TypeOK
<1> QED
  BY <1>1, <1>2, <1>3, <1>4, <1>5, <1>6 DEF Tx

\* What is left of a handler stays a list of sections.
LEMMA RestOK ==
  ASSUME NEW op, Begin(op), todo \in Seq(Ops)
  PROVE  Tail(todo) \in Seq(Ops) /\ Head(todo) \in Ops /\ <<"wake">> \o Tail(todo) \in Seq(Ops)
<1>1. Tail(todo) \in Seq(Ops) /\ Head(todo) \in Ops
  BY DEF Begin
<1>2. <<"wake">> \in Seq(Ops)
  BY DEF Ops
<1> QED
  BY <1>1, <1>2

LEMMA LinkSectionOK ==
  ASSUME LinkOK, QueueOK, OwnerOK, NEW rest \in Seq(Ops), LinkSection(rest)
  PROVE  QueueOK' /\ OwnerOK' /\ todo' \in Seq(Ops)
<1> DEFINE active == mounted /\ ~sleeping /\ owner_started
           calls == LinkCalls(owner_generation # generation, retry_state, active)
<1>1. active \in BOOLEAN /\ (owner_generation # generation) \in BOOLEAN /\ retry_state \in BOOLEAN
  BY DEF QueueOK
<1>2. calls \in Seq(Ops)
  BY <1>1, CallLists
<1>3. todo' \in Seq(Ops)
  BY <1>2 DEF LinkSection
<1>4. QueueOK'
  BY DEF LinkSection, QueueOK
<1>5. OwnerOK'
  BY <1>1 DEF LinkSection, OwnerOK, LinkOK
<1> QED
  BY <1>3, <1>4, <1>5

\* The sections of a handler keep the types.
LEMMA SectionTypeOK == TypeOK /\ Section => TypeOK'
<1> SUFFICES ASSUME BusOK, LinkOK, QueueOK, OwnerOK, SlotsOK, TasksOK, Section
             PROVE  TypeOK'
  BY DEF TypeOK
<1> USE Kept
<1>0. todo \in Seq(Ops) /\ eventq \in Seq(Events)
  BY DEF TasksOK
<1>1. CASE StartLink
  <2>1. Tail(todo) \in Seq(Ops)
    BY <1>0, <1>1, RestOK DEF StartLink
  <2>2. QueueOK' /\ OwnerOK' /\ todo' \in Seq(Ops)
    BY <1>1, <2>1, LinkSectionOK DEF StartLink
  <2>3. TasksOK'
    BY <1>1, <2>2 DEF StartLink, LinkSection, TasksOK
  <2> QED
    BY <1>1, <2>2, <2>3 DEF StartLink, LinkSection, TypeOK
<1>2. CASE ClearNative
  <2>1. TasksOK'
    BY <1>0, <1>2, RestOK DEF ClearNative, TasksOK
  <2>2. QueueOK'
    <3>1. in_flight' \in BOOLEAN /\ retry_state' \in BOOLEAN
      BY <1>2 DEF ClearNative, QueueOK
    <3> QED
      BY <1>2, <3>1, EmptyQueueOK DEF ClearNative
  <2>3. native' \in [NativeIds -> Slots]
    <3>1. Released(epoch) \in Slots
      BY DEF Released, Slots, BusOK
    <3> QED
      BY <1>2, <3>1 DEF ClearNative
  <2>4. SlotsOK'
    BY <1>2, <2>3 DEF ClearNative, SlotsOK
  <2> QED
    BY <1>2, <2>1, <2>2, <2>4 DEF ClearNative, TypeOK
<1>3. ASSUME NEW r \in Reports, NEW i \in Ids, Begin(i), Room(i), Accept(r),
             UNCHANGED <<in_flight, retry_state, usb, tx, notified, eventq>>
      PROVE  QueueOK' /\ TasksOK'
  <2>1. packets' \in Seq(Reports) /\ Len(packets') <= QueueSize
    BY <1>3, QueueAssumption DEF Accept, Room, QueueOK
  <2>2. todo' \in Seq(Ops)
    BY <1>0, <1>3, RestOK DEF Accept
  <2> QED
    BY <1>3, <2>1, <2>2 DEF QueueOK, TasksOK
<1>4. CASE SendVendor
  <2> DEFINE r == [id |-> "vendor", held |-> FALSE, born |-> epoch]
  <2>1. r \in Reports /\ "vendor" \in Ids
    BY DEF Reports, Ids, BusOK
  <2>2. CASE Ready /\ Room("vendor")
    <3>1. QueueOK' /\ TasksOK'
      BY <1>3, <1>4, <2>1, <2>2 DEF SendVendor
    <3> QED
      BY <1>4, <3>1 DEF SendVendor, TypeOK
  <2>3. CASE ~(Ready /\ Room("vendor"))
    <3>1. todo' \in Seq(Ops)
      BY <1>0, <1>4, <2>3, RestOK DEF SendVendor
    <3>2. QueueOK' /\ TasksOK'
      BY <1>4, <2>3, <3>1 DEF SendVendor, QueueOK, TasksOK
    <3> QED
      BY <1>4, <3>2 DEF SendVendor, TypeOK
  <2> QED
    BY <2>2, <2>3
<1>5. ASSUME NEW i \in NativeIds, SendNative(i)
      PROVE  TypeOK'
  <2> DEFINE r == [id |-> i, held |-> native[i].held, born |-> native[i].born]
             send == native[i].dirty /\ ~(i = "keyboard" /\ MacroActive) /\ Ready /\ Room(i)
  <2>1. native[i] \in Slots
    BY DEF SlotsOK
  <2>2. r \in Reports /\ i \in Ids
    BY <2>1 DEF Reports, Ids, Slots
  <2>3. CASE send
    <3>1. QueueOK' /\ TasksOK'
      BY <1>3, <1>5, <2>2, <2>3 DEF SendNative
    <3>2. native' \in [NativeIds -> Slots]
      BY <1>5, <2>1, <2>3 DEF SendNative, SlotsOK, Slots
    <3>3. SlotsOK'
      BY <1>5, <3>2 DEF SendNative, SlotsOK
    <3> QED
      BY <1>5, <3>1, <3>3 DEF SendNative, TypeOK
  <2>4. CASE ~send
    <3>1. todo' \in Seq(Ops)
      BY <1>0, <1>5, <2>4, RestOK DEF SendNative
    <3>2. QueueOK' /\ TasksOK' /\ SlotsOK'
      BY <1>5, <2>4, <3>1 DEF SendNative, QueueOK, TasksOK, SlotsOK
    <3> QED
      BY <1>5, <3>2 DEF SendNative, TypeOK
  <2> QED
    BY <2>3, <2>4
<1>6. CASE WakeTx
  <2>1. TasksOK'
    BY <1>0, <1>6, RestOK DEF WakeTx, TasksOK
  <2> QED
    BY <1>6, <2>1 DEF WakeTx, TypeOK
<1>7. CASE MarkDirty
  <2>1. TasksOK'
    BY <1>0, <1>7, RestOK DEF MarkDirty, TasksOK
  <2>2. native' \in [NativeIds -> Slots]
    BY <1>7 DEF MarkDirty, SlotsOK, Slots
  <2>3. SlotsOK'
    BY <1>7, <2>2 DEF MarkDirty, SlotsOK
  <2> QED
    BY <1>7, <2>1, <2>3 DEF MarkDirty, TypeOK
<1>8. CASE PressMacro
  <2>1. Tail(todo) \in Seq(Ops)
    BY <1>0, <1>8, RestOK DEF PressMacro
  <2>2. <<"pend">> \in Seq(Ops)
    BY DEF Ops
  <2>3. todo' \in Seq(Ops)
    BY <1>8, <2>1, <2>2, CallLists DEF PressMacro
  <2>4. TasksOK'
    BY <1>8, <2>3 DEF PressMacro, TasksOK
  <2> QED
    BY <1>8, <2>4 DEF PressMacro, TypeOK
<1>9. CASE PendMacro
  <2>1. TasksOK'
    BY <1>0, <1>9, RestOK DEF PendMacro, TasksOK
  <2>2. SlotsOK'
    BY <1>9 DEF PendMacro, SlotsOK
  <2> QED
    BY <1>9, <2>1, <2>2 DEF PendMacro, TypeOK
<1> QED
  BY <1>1, <1>2, <1>4, <1>5, <1>6, <1>7, <1>8, <1>9 DEF Section

\* The handlers keep the types.
LEMMA HandlerTypeOK == TypeOK /\ Handler => TypeOK'
<1> SUFFICES ASSUME BusOK, LinkOK, QueueOK, OwnerOK, SlotsOK, TasksOK, Handler
             PROVE  TypeOK'
  BY DEF TypeOK
<1> USE Kept
<1>0. /\ todo \in Seq(Ops) /\ eventq \in Seq(Events)
      /\ eventq # <<>> => Tail(eventq) \in Seq(Events)
  BY DEF TasksOK
<1>a. /\ <<>> \in Seq(Ops) /\ <<"wake">> \in Seq(Ops) /\ <<"clear">> \in Seq(Ops)
      /\ <<"link">> \in Seq(Ops) /\ <<"vendor">> \in Seq(Ops) /\ <<"vendor", "press">> \in Seq(Ops)
  BY DEF Ops
<1>b. /\ Flush \in Seq(Ops) /\ Publish \in Seq(Ops) /\ Release \in Seq(Ops)
      /\ <<"vendor">> \o Release \in Seq(Ops) /\ Release \o <<"vendor">> \in Seq(Ops)
  BY <1>a, CallLists
\* A handler that only lists its calls and changes the slots.
<1>c. ASSUME NEW calls \in Seq(Ops), Handle(calls), SlotsOK', UNCHANGED OwnerOnly
      PROVE  TypeOK'
  <2>1. TasksOK'
    BY <1>c DEF Handle, OwnerOnly, TasksOK
  <2> QED
    BY <1>c, <2>1 DEF OwnerOnly, TypeOK
<1>1. CASE OnLink
  <2>1. QueueOK' /\ OwnerOK' /\ todo' \in Seq(Ops)
    BY <1>1, <1>a, LinkSectionOK DEF OnLink
  <2>2. TasksOK'
    BY <1>0, <1>1, <2>1 DEF OnLink, LinkSection, TasksOK
  <2> QED
    BY <1>1, <2>1, <2>2 DEF OnLink, LinkSection, TypeOK
<1>2. CASE OnOutput
  <2>1. TasksOK'
    BY <1>0, <1>2, <1>b DEF OnOutput, TasksOK
  <2> QED
    BY <1>2, <2>1 DEF OnOutput, TypeOK
<1>3. CASE Heartbeat
  BY <1>3, <1>b, <1>c DEF Heartbeat
<1>4. ASSUME NEW i \in NativeIds, NEW v \in BOOLEAN, Key(i, v)
      PROVE  TypeOK'
  <2>1. [held |-> v, dirty |-> TRUE, born |-> epoch] \in Slots
    BY DEF Slots, BusOK
  <2>2. native' \in [NativeIds -> Slots]
    BY <1>4, <2>1 DEF Key, SlotsOK
  <2>3. SlotsOK'
    BY <1>4, <2>2 DEF Key, SlotsOK
  <2> QED
    BY <1>4, <1>b, <1>c, <2>3 DEF Key
<1>5. CASE KeyStopsMacro \/ KeyStartsMacro \/ ReleaseAll \/ RemoteLost
  <2>1. SlotsOK'
    BY <1>5 DEF KeyStopsMacro, KeyStartsMacro, ReleaseAll, RemoteLost, SlotsOK
  <2> QED
    BY <1>5, <1>a, <1>b, <1>c, <2>1 DEF KeyStopsMacro, KeyStartsMacro, ReleaseAll, RemoteLost
<1>6. CASE MacroPress \/ MacroLift \/ MacroRelease
  <2>1. PICK v \in BOOLEAN : Stroke(v)
    BY <1>6 DEF MacroPress, MacroLift, MacroRelease
  <2> DEFINE r == [id |-> "keyboard", held |-> v, born |-> epoch]
  <2>2. r \in Reports
    BY DEF Reports, Ids, NativeIds, BusOK
  <2>3. <<r>> \in Seq(Reports) /\ Len(<<r>>) <= QueueSize
    BY <2>2, QueueAssumption
  <2>4. QueueOK'
    BY <2>1, <2>3 DEF Stroke, QueueOK
  <2>5. [held |-> v, dirty |-> FALSE, born |-> epoch] \in Slots
    BY DEF Slots, BusOK
  <2>6. native' \in [NativeIds -> Slots]
    BY <2>1, <2>5 DEF Stroke, SlotsOK
  <2>7. SlotsOK'
    BY <1>6, <2>1, <2>6 DEF Stroke, MacroPress, MacroLift, MacroRelease, SlotsOK
  <2>8. TasksOK'
    BY <2>1, <1>a DEF Stroke, Handle, TasksOK
  <2> QED
    BY <2>1, <2>4, <2>7, <2>8 DEF Stroke, TypeOK
<1>7. CASE MacroTick
  <2>1. SlotsOK' /\ TasksOK'
    BY <1>7 DEF MacroTick, OwnerOnly, SlotsOK, TasksOK
  <2> QED
    BY <1>7, <2>1 DEF MacroTick, OwnerOnly, TypeOK
<1>8. CASE OnReset \/ Start
  <2>1. LinkOK' /\ OwnerOK'
    <3>1. LinkOK'
      BY <1>8 DEF OnReset, Start, LinkOK
    <3>2. CASE OnReset
      BY <3>1, <3>2 DEF OnReset, OwnerOK
    <3>3. CASE Start
      BY <3>1, <3>3 DEF Start, OwnerOK
    <3> QED
      BY <1>8, <3>2, <3>3
  <2>2. TasksOK'
    BY <1>8, <1>a DEF OnReset, Start, TasksOK
  <2> QED
    BY <1>8, <2>1, <2>2 DEF OnReset, Start, TypeOK
<1> QED
  BY <1>1, <1>2, <1>3, <1>4, <1>5, <1>6, <1>7, <1>8 DEF Handler

LEMMA StutterTypeOK == TypeOK /\ UNCHANGED vars => TypeOK'
  BY Kept DEF TypeOK, TasksOK, vars

\* Type correctness: whatever the tasks and the bus interleave, the queue
\* stays within USB_QUEUE_SIZE and every variable within its type.
THEOREM TypeCorrect == Spec => []TypeOK
<1>1. TypeOK /\ [Next]_vars => TypeOK'
  BY CallbackTypeOK, TxTypeOK, SectionTypeOK, HandlerTypeOK, StutterTypeOK DEF Next
<1> QED
  BY InitTypeOK, <1>1, PTL DEF Spec

-----------------------------------------------------------------------------
(* The worker, the endpoint, the link handshake and the host sessions.     *)

\* What an owner section or handler leaves alone: everything but its own state,
\* the packets and the cross-task signals.
LEMMA OwnerFrame ==
  Section \/ Handler => UNCHANGED <<busVars, usb, in_flight, tx, mounted, sleeping>>
<1>1. ASSUME NEW i \in NativeIds, SendNative(i)
      PROVE  UNCHANGED <<busVars, usb, in_flight, tx, mounted, sleeping>>
  BY <1>1 DEF SendNative, linkVars
<1>2. ASSUME Section
      PROVE  UNCHANGED <<busVars, usb, in_flight, tx, mounted, sleeping>>
  BY <1>1, <1>2 DEF Section, StartLink, LinkSection, ClearNative, SendVendor, WakeTx,
       MarkDirty, PressMacro, PendMacro, linkVars, queueVars
<1>3. ASSUME NEW i \in NativeIds, NEW v \in BOOLEAN, Key(i, v)
      PROVE  UNCHANGED <<busVars, usb, in_flight, tx, mounted, sleeping>>
  BY <1>3 DEF Key, OwnerOnly, linkVars, queueVars
<1>4. ASSUME NEW v, Stroke(v)
      PROVE  UNCHANGED <<busVars, usb, in_flight, tx, mounted, sleeping>>
  BY <1>4 DEF Stroke, linkVars
<1>5. ASSUME Handler
      PROVE  UNCHANGED <<busVars, usb, in_flight, tx, mounted, sleeping>>
  <2>1. CASE OnLink \/ OnOutput \/ OnReset \/ Start
    BY <2>1 DEF OnLink, LinkSection, OnOutput, OnReset, Start, linkVars, queueVars
  <2>2. CASE Heartbeat \/ KeyStopsMacro \/ KeyStartsMacro \/ ReleaseAll \/ RemoteLost \/ MacroTick
    BY <2>2 DEF Heartbeat, KeyStopsMacro, KeyStartsMacro, ReleaseAll, RemoteLost, MacroTick,
         OwnerOnly, linkVars, queueVars
  <2>3. CASE MacroPress \/ MacroLift \/ MacroRelease
    BY <1>4, <2>3 DEF MacroPress, MacroLift, MacroRelease
  <2> QED
    BY <1>3, <1>5, <2>1, <2>2, <2>3 DEF Handler
<1> QED
  BY <1>2, <1>5

-----------------------------------------------------------------------------
LEMMA InFlightEndsStep == InFlightEnds /\ [Next]_vars => InFlightEnds'
<1> SUFFICES ASSUME InFlightEnds, [Next]_vars PROVE InFlightEnds'
  OBVIOUS
<1>1. CASE Section \/ Handler
  BY <1>1, OwnerFrame DEF InFlightEnds, busVars
<1>2. CASE Callback
  BY <1>2 DEF InFlightEnds, Callback, MarkLink, DropReports, SignalMarked, ReportComplete,
       SignalComplete, ReportFailed, SignalFailed, busVars, queueVars
<1>3. CASE Bus
  BY <1>3 DEF InFlightEnds, Bus, BusChange, TransferDone, TransferLost, queueVars
<1>4. CASE Tx
  <2>1. ASSUME TxSend PROVE wire' # <<>>
    BY <2>1 DEF TxSend
  <2> QED
    BY <1>4, <2>1 DEF InFlightEnds, Tx, TxRefused, TxNothing, TxSignal, TxDecide, TxWakes,
         busVars, queueVars
<1>5. CASE UNCHANGED vars
  BY <1>5 DEF InFlightEnds, vars, busVars, queueVars
<1> QED
  BY <1>1, <1>2, <1>3, <1>4, <1>5 DEF Next

\* The worker never waits for a completion nobody delivers: in_flight is set
\* only with a transfer in the endpoint or a callback on its way
\* (tx_once, mark_link, tud_hid_report_complete_cb, tud_hid_report_failed_cb).
THEOREM InFlightAlwaysEnds == Spec => []InFlightEnds
<1>1. Init => InFlightEnds
  BY DEF Init, InFlightEnds
<1> QED
  BY <1>1, InFlightEndsStep, PTL DEF Spec

-----------------------------------------------------------------------------
\* The owner either reports its packet, or adds none.
LEMMA NoLostWakeupOwner ==
  TypeOK /\ NoLostWakeup /\ (Section \/ Handler) => NoLostWakeup'
<1> SUFFICES ASSUME todo \in Seq(Ops), NoLostWakeup, Section \/ Handler,
                    tx' = "wait", ~notified', Sendable'
             PROVE  usb' = "completed" \/ Begin("wake")'
  BY DEF TypeOK, TasksOK, NoLostWakeup
<1>0. /\ tx = "wait" /\ usb' = usb /\ mounted /\ ~sleeping /\ ~in_flight
      /\ packets' # <<>>
  <2>1. UNCHANGED <<usb, in_flight, tx, mounted, sleeping>>
    BY OwnerFrame
  <2>2. mounted' /\ ~sleeping' /\ packets' # <<>> /\ ~in_flight'
    BY DEF Sendable
  <2>3. mounted /\ ~sleeping /\ ~in_flight
    BY <2>1, <2>2, Zenon
  <2> QED
    BY <2>1, <2>2, <2>3
<1>1. ASSUME notified' = notified, packets' = packets, ~Begin("wake")
      PROVE  usb' = "completed"
  BY <1>0, <1>1 DEF NoLostWakeup, Sendable
<1>2. ASSUME NEW op, Begin(op)
      PROVE  Head(<<"wake">> \o Tail(todo)) = "wake" /\ <<"wake">> \o Tail(todo) # <<>>
  BY <1>2 DEF Begin
<1>3. CASE Section
  <2>1. CASE StartLink
    BY <1>1, <2>1 DEF StartLink, LinkSection, Begin
  <2>2. CASE ClearNative
    BY <1>0, <2>2 DEF ClearNative
  <2>3. CASE SendVendor
    BY <1>1, <1>2, <2>3 DEF SendVendor, Accept, Begin
  <2>4. ASSUME NEW i \in NativeIds, SendNative(i)
        PROVE  usb' = "completed" \/ Begin("wake")'
    BY <1>1, <1>2, <2>4 DEF SendNative, Accept, Begin, NativeIds
  <2>5. CASE WakeTx
    BY <2>5 DEF WakeTx
  <2>6. CASE MarkDirty \/ PressMacro \/ PendMacro
    BY <1>1, <2>6 DEF MarkDirty, PressMacro, PendMacro, Begin, queueVars
  <2> QED
    BY <1>3, <2>1, <2>2, <2>3, <2>4, <2>5, <2>6 DEF Section
<1>4. CASE Handler
  <2>1. CASE OnLink \/ OnOutput \/ OnReset \/ Start
    BY <1>1, <2>1 DEF OnLink, LinkSection, OnOutput, OnReset, Start, Begin, queueVars
  <2>2. CASE Heartbeat \/ KeyStopsMacro \/ KeyStartsMacro \/ ReleaseAll \/ RemoteLost \/ MacroTick
    BY <1>1, <2>2 DEF Heartbeat, KeyStopsMacro, KeyStartsMacro, ReleaseAll, RemoteLost, MacroTick,
         Handle, OwnerOnly, Begin, queueVars
  <2>3. ASSUME NEW i \in NativeIds, NEW v \in BOOLEAN, Key(i, v)
        PROVE  usb' = "completed"
    BY <1>1, <2>3 DEF Key, Handle, OwnerOnly, Begin, queueVars
  <2>4. CASE MacroPress \/ MacroLift \/ MacroRelease
    BY <2>4 DEF MacroPress, MacroLift, MacroRelease, Stroke, Handle, Begin
  <2> QED
    BY <1>4, <2>1, <2>2, <2>3, <2>4 DEF Handler
<1> QED
  BY <1>3, <1>4

LEMMA NoLostWakeupStep ==
  TypeOK /\ NoLostWakeup /\ [Next]_vars => NoLostWakeup'
<1> SUFFICES ASSUME TypeOK, NoLostWakeup, [Next]_vars PROVE NoLostWakeup'
  OBVIOUS
<1> USE DEF NoLostWakeup, Sendable, Begin
<1>1. CASE Section \/ Handler
  BY <1>1, NoLostWakeupOwner
<1>2. CASE Callback
  BY <1>2 DEF Callback, MarkLink, DropReports, SignalMarked, ReportComplete, SignalComplete,
       ReportFailed, SignalFailed, linkVars, queueVars
<1>3. CASE Bus
  BY <1>3 DEF Bus, BusChange, TransferDone, TransferLost, linkVars, queueVars
<1>4. CASE Tx
  BY <1>4 DEF Tx, TxSend, TxRefused, TxNothing, TxSignal, TxDecide, TxWakes, linkVars, queueVars
<1>5. CASE UNCHANGED vars
  BY <1>5 DEF vars, linkVars, queueVars
<1> QED
  BY <1>1, <1>2, <1>3, <1>4, <1>5 DEF Next

\* No lost wake-up: when the worker sleeps on a packet it could send, the task
\* responsible has its wake_tx still ahead (tx_task, host_output_send,
\* tud_hid_report_complete_cb).
THEOREM WakeupNeverLost == Spec => []NoLostWakeup
<1>1. Init => NoLostWakeup
  BY DEF Init, NoLostWakeup
<1> QED
  BY <1>1, NoLostWakeupStep, TypeCorrect, PTL DEF Spec

-----------------------------------------------------------------------------
(* Events and sections that are still to come.                             *)
Has(s, x) == \E k \in 1..Len(s) : s[k] = x

LEMMA HasTail ==
  ASSUME NEW S, NEW s \in Seq(S), s # <<>>, NEW x, Head(s) # x, Has(s, x)
  PROVE  Has(Tail(s), x)
<1>1. PICK k \in 1..Len(s) : s[k] = x
  BY DEF Has
<1>2. k # 1
  BY <1>1
<1>3. k - 1 \in 1..Len(Tail(s)) /\ Tail(s)[k - 1] = s[k]
  BY <1>1, <1>2
<1> QED
  BY <1>1, <1>3 DEF Has

LEMMA HasConcat ==
  ASSUME NEW S, NEW s \in Seq(S), NEW t \in Seq(S), NEW x, Has(t, x)
  PROVE  Has(s \o t, x)
<1>1. PICK k \in 1..Len(t) : t[k] = x
  BY DEF Has
<1>2. Len(s) + k \in 1..Len(s \o t) /\ (s \o t)[Len(s) + k] = t[k]
  BY <1>1
<1> QED
  BY <1>1, <1>2 DEF Has

\* ble_npl_eventq_put: the event is queued afterwards, and what was queued stays.
LEMMA HasPut ==
  ASSUME eventq \in Seq(Events), NEW e \in Events, Put(e)
  PROVE  Has(eventq', e) /\ (Has(eventq, "link") => Has(eventq', "link"))
<1>1. CASE \E i \in 1..Len(eventq) : eventq[i] = e
  BY <1>1 DEF Put, Has
<1>2. CASE ~\E i \in 1..Len(eventq) : eventq[i] = e
  <2>1. eventq' = Append(eventq, e)
    BY <1>2 DEF Put
  <2>2. /\ Len(eventq) + 1 \in 1..Len(eventq') /\ eventq'[Len(eventq) + 1] = e
        /\ \A k \in 1..Len(eventq) : k \in 1..Len(eventq') /\ eventq'[k] = eventq[k]
    BY <2>1
  <2> QED
    BY <2>2 DEF Has
<1> QED
  BY <1>1, <1>2

\* The owner's readiness to hear of a change.
LinkDue == owner_started /\ (owner_generation # generation \/ retry_state)

LinkComes ==
  Has(eventq, "link") \/ usb \in {"mark", "marked", "dropped"} \/ tx = "signal" \/ Has(todo, "link")

LEMMA LinkEventComesOwner ==
  TypeOK /\ LinkEventComes /\ (Section \/ Handler) => LinkEventComes'
<1> SUFFICES ASSUME todo \in Seq(Ops), eventq \in Seq(Events), LinkDue => LinkComes,
                    Section \/ Handler, LinkDue'
             PROVE  LinkComes'
  BY DEF TypeOK, TasksOK, LinkEventComes, LinkDue, LinkComes, Has
<1>0. UNCHANGED <<usb, tx>>
  BY OwnerFrame
<1>1. ASSUME eventq' = eventq, LinkDue, Has(todo, "link") => Has(todo', "link")
      PROVE  LinkComes'
  BY <1>0, <1>1 DEF LinkComes
<1>2. ASSUME NEW op \in Ops \ {"link"}, Begin(op)
      PROVE  /\ Has(todo, "link") => Has(Tail(todo), "link")
             /\ Tail(todo) \in Seq(Ops)
             /\ \A calls \in Seq(Ops) : Has(todo, "link") => Has(calls \o Tail(todo), "link")
  <2>1. todo # <<>> /\ Head(todo) # "link" /\ Tail(todo) \in Seq(Ops)
    BY <1>2 DEF Begin
  <2>2. Has(todo, "link") => Has(Tail(todo), "link")
    BY <2>1, HasTail
  <2> QED
    BY <2>1, <2>2, HasConcat
<1>3. /\ {"clear", "vendor", "wake", "dirty", "press", "pend"} \subseteq Ops \ {"link"}
      /\ NativeIds \subseteq Ops \ {"link"}
      /\ <<"wake">> \in Seq(Ops) /\ <<"pend">> \in Seq(Ops)
  BY DEF Ops, NativeIds
<1>4. CASE Section
  <2>1. ~StartLink
    BY DEF StartLink, LinkSection, LinkDue, linkVars
  <2>2. CASE ClearNative
    BY <1>1, <1>2, <1>3, <2>2 DEF ClearNative, LinkDue, ownerVars, linkVars
  <2>3. CASE SendVendor
    <3>1. Has(todo, "link") => Has(todo', "link")
      BY <1>2, <1>3, <2>3 DEF SendVendor, Accept
    <3> QED
      BY <1>1, <2>3, <3>1 DEF SendVendor, LinkDue, ownerVars, linkVars
  <2>4. ASSUME NEW i \in NativeIds, SendNative(i)
        PROVE  LinkComes'
    <3>1. Has(todo, "link") => Has(todo', "link")
      BY <1>2, <1>3, <2>4 DEF SendNative, Accept
    <3> QED
      BY <1>1, <2>4, <3>1 DEF SendNative, LinkDue, ownerVars, linkVars
  <2>5. CASE WakeTx
    BY <1>1, <1>2, <1>3, <2>5 DEF WakeTx, LinkDue, ownerVars, linkVars, queueVars
  <2>6. CASE MarkDirty
    BY <1>1, <1>2, <1>3, <2>6 DEF MarkDirty, LinkDue, ownerVars, linkVars, queueVars
  <2>7. CASE PressMacro
    <3>1. Release \o <<"pend">> \in Seq(Ops) /\ Flush \in Seq(Ops)
      BY <1>3, CallLists
    <3>2. Has(todo, "link") => Has(todo', "link")
      BY <1>2, <1>3, <2>7, <3>1 DEF PressMacro
    <3> QED
      BY <1>1, <2>7, <3>2 DEF PressMacro, LinkDue, ownerVars, linkVars, queueVars
  <2>8. CASE PendMacro
    BY <1>1, <1>2, <1>3, <2>8 DEF PendMacro, LinkDue, ownerVars, linkVars, queueVars
  <2> QED
    BY <1>4, <2>1, <2>2, <2>3, <2>4, <2>5, <2>6, <2>7, <2>8 DEF Section
<1>5. CASE Handler
  <2>0. todo = <<>> => ~Has(todo, "link")
    BY DEF Has
  <2>1. CASE OnOutput
    <3>1. Has(eventq, "link") => Has(eventq', "link")
      <4>1. eventq # <<>> /\ Head(eventq) # "link" /\ eventq' = Tail(eventq)
        BY <2>1 DEF OnOutput
      <4> QED
        BY <4>1, HasTail
    <3>2. LinkDue /\ ~Has(todo, "link")
      BY <2>0, <2>1 DEF OnOutput, LinkDue, ownerVars, linkVars, queueVars
    <3> QED
      BY <1>0, <3>1, <3>2 DEF LinkComes
  <2>2. ~OnLink /\ ~OnReset
    BY DEF OnLink, LinkSection, OnReset, LinkDue, linkVars
  <2>3. CASE Start
    <3>1. Len(todo') = 1 /\ todo'[1] = "link"
      BY <2>3 DEF Start
    <3> QED
      BY <3>1 DEF LinkComes, Has
  <2>4. CASE Heartbeat \/ KeyStopsMacro \/ KeyStartsMacro \/ ReleaseAll \/ RemoteLost \/ MacroTick
    <3>1. LinkDue /\ todo = <<>> /\ eventq' = eventq
      BY <2>4 DEF Heartbeat, KeyStopsMacro, KeyStartsMacro, ReleaseAll, RemoteLost, MacroTick,
           Handle, OwnerOnly, LinkDue, ownerVars, linkVars, queueVars
    <3> QED
      BY <1>1, <2>0, <3>1
  <2>5. ASSUME NEW i \in NativeIds, NEW v \in BOOLEAN, Key(i, v)
        PROVE  LinkComes'
    <3>1. LinkDue /\ todo = <<>> /\ eventq' = eventq
      BY <2>5 DEF Key, Handle, OwnerOnly, LinkDue, ownerVars, linkVars, queueVars
    <3> QED
      BY <1>1, <2>0, <3>1
  <2>6. ASSUME NEW v, Stroke(v)
        PROVE  LinkComes'
    <3>1. LinkDue /\ todo = <<>> /\ eventq' = eventq
      BY <2>6 DEF Stroke, Handle, LinkDue, ownerVars, linkVars
    <3> QED
      BY <1>1, <2>0, <3>1
  <2> QED
    BY <1>5, <2>1, <2>2, <2>3, <2>4, <2>5, <2>6 DEF Handler, MacroPress, MacroLift, MacroRelease
<1> QED
  BY <1>4, <1>5

LEMMA LinkEventComesStep ==
  TypeOK /\ LinkEventComes /\ [Next]_vars => LinkEventComes'
<1> SUFFICES ASSUME TypeOK, eventq \in Seq(Events), LinkEventComes,
                    LinkDue => LinkComes, [Next]_vars, LinkDue'
             PROVE  LinkComes'
  BY DEF TypeOK, TasksOK, LinkEventComes, LinkDue, LinkComes, Has
<1>0. "link" \in Events /\ "output" \in Events
  BY DEF Events
<1>1. CASE Section \/ Handler
  BY <1>1, LinkEventComesOwner DEF LinkEventComes, LinkDue, LinkComes, Has
<1>2. CASE MarkLink \/ ReportFailed
  BY <1>2 DEF MarkLink, ReportFailed, LinkComes
<1>3. CASE SignalMarked \/ SignalFailed
  BY <1>0, <1>3, HasPut DEF SignalMarked, SignalFailed, LinkComes
<1>4. CASE ReportComplete
  BY <1>4 DEF ReportComplete, LinkComes, LinkDue, linkVars, ownerVars
<1>5. CASE SignalComplete
  <2>1. Has(eventq, "link") => Has(eventq', "link")
    BY <1>0, <1>5, HasPut DEF SignalComplete
  <2> QED
    BY <1>5, <2>1 DEF SignalComplete, LinkComes, LinkDue, linkVars, ownerVars, queueVars
<1>6. CASE Bus
  BY <1>6 DEF Bus, BusChange, TransferDone, TransferLost, LinkComes, LinkDue, linkVars,
       ownerVars, queueVars
<1>7. CASE TxSend \/ TxNothing \/ TxDecide \/ TxWakes
  BY <1>7 DEF TxSend, TxNothing, TxDecide, TxWakes, LinkComes, LinkDue, linkVars, ownerVars,
       queueVars
<1>8. CASE TxRefused
  BY <1>8 DEF TxRefused, LinkComes
<1>9. CASE TxSignal
  BY <1>0, <1>9, HasPut DEF TxSignal, LinkComes
<1>10. CASE UNCHANGED vars
  BY <1>10 DEF vars, LinkComes, LinkDue, linkVars, ownerVars, queueVars
<1> QED
  BY <1>1, <1>2, <1>3, <1>4, <1>5, <1>6, <1>7, <1>8, <1>9, <1>10 DEF Next, Callback, Tx

\* A link change or a transport failure never goes unnoticed: while sends are
\* refused because of it, an on_link is on its way (mark_link, tx_once,
\* tud_hid_report_failed_cb, usb_hid_start).
THEOREM LinkEventAlwaysComes == Spec => []LinkEventComes
<1>1. Init => LinkEventComes
  BY DEF Init, LinkEventComes
<1> QED
  BY <1>1, LinkEventComesStep, TypeCorrect, PTL DEF Spec

-----------------------------------------------------------------------------
(* Host sessions.                                                          *)
Current(s) == \A k \in 1..Len(s) : s[k].born = epoch

\* While the owner is up to date with a configured bus, its slots belong to the
\* present host computer; between a link change and the clear that on_link
\* makes of it they may not.
SlotsCurrent ==
  owner_generation = generation /\ mounted /\ ~Begin("clear")
    => \A i \in NativeIds : native[i].born = epoch

\* A detached bus has an empty endpoint and, after mark_link, an empty queue.
DetachedIsEmpty ==
  /\ bus = "off" => wire = <<>>
  /\ bus = "off" /\ usb # "mark" => packets = <<>> /\ ~mounted

\* The inductive strengthening of NoReplay.
SessionInv ==
  /\ Current(wire) /\ Current(packets)
  /\ DetachedIsEmpty
  /\ owner_generation <= generation
  /\ SlotsCurrent

LEMMA InitSession == Init => SessionInv
<1> SUFFICES ASSUME Init PROVE SessionInv
  OBVIOUS
<1>1. Current(wire) /\ Current(packets)
  BY DEF Init, Current
<1>2. DetachedIsEmpty /\ owner_generation <= generation
  BY DEF Init, DetachedIsEmpty
<1>3. SlotsCurrent
  BY DEF Init, SlotsCurrent
<1> QED
  BY <1>1, <1>2, <1>3 DEF SessionInv

\* A section or handler that adds no packet, keeps the slots and the owner's
\* view, and does not put a clear out of the way.
LEMMA SessionKept ==
  ASSUME SessionInv, UNCHANGED <<busVars, usb, linkVars, owner_generation, native, packets>>,
         ~Begin("clear")
  PROVE  SessionInv'
  BY DEF SessionInv, Current, DetachedIsEmpty, SlotsCurrent, busVars, linkVars

\* One accepted packet of the present session.
LEMMA SessionAccept ==
  ASSUME TypeOK, SessionInv, UNCHANGED <<busVars, usb, linkVars, owner_generation>>,
         Ready, ~Begin("clear"), NEW r \in Reports, r.born = epoch,
         packets' = Append(packets, r),
         \A i \in NativeIds : native'[i].born = native[i].born
  PROVE  SessionInv'
<1>1. Current(wire)'
  BY DEF SessionInv, Current, busVars
<1>2. Current(packets)'
  BY DEF SessionInv, Current, busVars, TypeOK, QueueOK
<1>3. mounted /\ ~(bus = "off" /\ usb # "mark")
  BY DEF Ready, SessionInv, DetachedIsEmpty
<1>4. DetachedIsEmpty' /\ (owner_generation <= generation)'
  BY <1>3 DEF SessionInv, DetachedIsEmpty, busVars, linkVars
<1>5. SlotsCurrent'
  BY DEF SessionInv, SlotsCurrent, busVars, linkVars
<1> QED
  BY <1>1, <1>2, <1>4, <1>5 DEF SessionInv

LEMMA HeadConcat ==
  ASSUME NEW S, NEW s \in Seq(S), s # <<>>, NEW t \in Seq(S)
  PROVE  s \o t \in Seq(S) /\ s \o t # <<>> /\ Head(s \o t) = Head(s)
<1>1. s \o t \in Seq(S) /\ Len(s \o t) = Len(s) + Len(t) /\ Len(s) > 0
  OBVIOUS
<1>2. (s \o t)[1] = s[1]
  BY <1>1
<1> QED
  BY <1>1, <1>2

\* A host change starts on_link's calls with a clear.
LEMMA ChangeClears ==
  ASSUME NEW retry \in BOOLEAN, NEW active \in BOOLEAN, NEW rest \in Seq(Ops)
  PROVE  /\ LinkCalls(TRUE, retry, active) \o rest # <<>>
         /\ Head(LinkCalls(TRUE, retry, active) \o rest) = "clear"
<1> DEFINE b == IF retry THEN Release \o <<"dirty">> ELSE <<>>
           c == IF active THEN Publish ELSE <<>>
<1>1. <<>> \in Seq(Ops) /\ <<"clear">> \in Seq(Ops) /\ <<"dirty">> \in Seq(Ops)
  BY DEF Ops
<1>2. b \in Seq(Ops) /\ c \in Seq(Ops)
  BY <1>1, CallLists
<1>3. Release \in Seq(Ops) /\ Release # <<>> /\ Head(Release) = "clear"
  BY <1>1, CallLists, HeadConcat DEF Release
<1>4. Release \o b \in Seq(Ops) /\ Release \o b # <<>> /\ Head(Release \o b) = "clear"
  BY <1>2, <1>3, HeadConcat
<1>5. /\ (Release \o b) \o c \in Seq(Ops) /\ (Release \o b) \o c # <<>>
      /\ Head((Release \o b) \o c) = "clear"
  BY <1>2, <1>4, HeadConcat
<1>6. LinkCalls(TRUE, retry, active) = (Release \o b) \o c
  BY DEF LinkCalls
<1> HIDE DEF b, c
<1>7. PICK x \in Seq(Ops) : x = (Release \o b) \o c /\ x # <<>> /\ Head(x) = "clear"
  BY <1>5
<1>8. x \o rest # <<>> /\ Head(x \o rest) = "clear"
  BY <1>7, HeadConcat
<1> QED
  BY <1>6, <1>7, <1>8

LEMMA SessionLink ==
  ASSUME TypeOK, SessionInv, NEW rest \in Seq(Ops), LinkSection(rest), ~Begin("clear")
  PROVE  SessionInv'
<1>1. Current(wire)' /\ Current(packets)' /\ DetachedIsEmpty'
  BY DEF LinkSection, SessionInv, Current, DetachedIsEmpty, busVars, linkVars
<1>2. (owner_generation <= generation)'
  BY DEF LinkSection, linkVars, TypeOK, LinkOK
<1>3. SlotsCurrent'
  <2>1. CASE owner_generation = generation
    BY <2>1 DEF LinkSection, SessionInv, SlotsCurrent, busVars, linkVars, slotVars
  <2>2. CASE owner_generation # generation
    <3> DEFINE active == mounted /\ ~sleeping /\ owner_started
    <3>1. active \in BOOLEAN /\ retry_state \in BOOLEAN
      BY DEF TypeOK, QueueOK
    <3>2. todo' = LinkCalls(TRUE, retry_state, active) \o rest
      <4>1. (owner_generation # generation) = TRUE
        BY <2>2
      <4> QED
        BY <4>1 DEF LinkSection
    <3>3. Begin("clear")'
      BY <3>1, <3>2, ChangeClears DEF Begin
    <3> QED
      BY <3>3 DEF SlotsCurrent
  <2> QED
    BY <2>1, <2>2
<1> QED
  BY <1>1, <1>2, <1>3 DEF SessionInv

LEMMA SessionSection == TypeOK /\ SessionInv /\ Section => SessionInv'
<1> SUFFICES ASSUME TypeOK, SessionInv, Section PROVE SessionInv'
  OBVIOUS
<1>0. todo \in Seq(Ops) /\ native \in [NativeIds -> Slots]
  BY DEF TypeOK, TasksOK, SlotsOK
<1>1. CASE StartLink
  <2>1. Tail(todo) \in Seq(Ops) /\ ~Begin("clear")
    BY <1>0, <1>1 DEF StartLink, Begin
  <2> QED
    BY <1>1, <2>1, SessionLink DEF StartLink
<1>2. CASE ClearNative
  <2>1. Current(wire)' /\ Current(packets)' /\ DetachedIsEmpty'
    BY <1>2 DEF ClearNative, SessionInv, Current, DetachedIsEmpty, busVars, linkVars
  <2>2. (owner_generation <= generation)'
    BY <1>2 DEF ClearNative, SessionInv, linkVars, ownerVars
  <2>3. SlotsCurrent'
    BY <1>2 DEF ClearNative, SlotsCurrent, Released, busVars
  <2> QED
    BY <2>1, <2>2, <2>3 DEF SessionInv
<1>3. CASE SendVendor
  <2>1. ~Begin("clear")
    BY <1>3 DEF SendVendor, Begin
  <2>2. CASE Ready /\ Room("vendor")
    <3> DEFINE r == [id |-> "vendor", held |-> FALSE, born |-> epoch]
    <3>1. r \in Reports /\ r.born = epoch
      BY DEF Reports, Ids, TypeOK, BusOK
    <3> QED
      BY <1>3, <2>1, <2>2, <3>1, SessionAccept DEF SendVendor, Accept, slotVars, ownerVars
  <2>3. CASE ~(Ready /\ Room("vendor"))
    BY <1>3, <2>1, <2>3, SessionKept DEF SendVendor, slotVars, ownerVars
  <2> QED
    BY <2>2, <2>3
<1>4. ASSUME NEW i \in NativeIds, SendNative(i)
      PROVE  SessionInv'
  <2> DEFINE r == [id |-> i, held |-> native[i].held, born |-> native[i].born]
             send == native[i].dirty /\ ~(i = "keyboard" /\ MacroActive) /\ Ready /\ Room(i)
  <2>1. ~Begin("clear")
    BY <1>4 DEF SendNative, Begin, NativeIds
  <2>2. CASE send
    <3>1. native[i].born = epoch
      BY <2>1, <2>2 DEF Ready, SessionInv, SlotsCurrent
    <3>2. r \in Reports /\ r.born = epoch
      BY <1>0, <3>1 DEF Reports, Ids, Slots
    <3>3. \A j \in NativeIds : native'[j].born = native[j].born
      BY <1>0, <1>4, <2>2 DEF SendNative, Slots
    <3> QED
      BY <1>4, <2>1, <2>2, <3>2, <3>3, SessionAccept DEF SendNative, Accept, ownerVars
  <2>3. CASE ~send
    BY <1>4, <2>1, <2>3, SessionKept DEF SendNative, ownerVars
  <2> QED
    BY <2>2, <2>3
<1>5. CASE WakeTx \/ PressMacro \/ PendMacro
  BY <1>5, SessionKept DEF WakeTx, PressMacro, PendMacro, Begin, ownerVars, slotVars, queueVars
<1>6. CASE MarkDirty
  <2>1. \A i \in NativeIds : native'[i].born = native[i].born
    BY <1>0, <1>6 DEF MarkDirty, Slots
  <2>2. ~Begin("clear")
    BY <1>6 DEF MarkDirty, Begin
  <2> QED
    BY <1>6, <2>1, <2>2 DEF MarkDirty, SessionInv, Current, DetachedIsEmpty, SlotsCurrent,
         busVars, linkVars, ownerVars, queueVars
<1> QED
  BY <1>1, <1>2, <1>3, <1>4, <1>5, <1>6 DEF Section

LEMMA SessionHandler == TypeOK /\ SessionInv /\ Handler => SessionInv'
<1> SUFFICES ASSUME TypeOK, SessionInv, Handler PROVE SessionInv'
  OBVIOUS
<1>0. /\ native \in [NativeIds -> Slots] /\ epoch \in Nat /\ <<>> \in Seq(Ops)
      /\ (todo = <<>> => ~Begin("clear"))
  BY DEF TypeOK, SlotsOK, BusOK, Begin
<1>1. CASE OnLink
  BY <1>0, <1>1, SessionLink DEF OnLink
<1>2. CASE OnOutput \/ Heartbeat \/ KeyStopsMacro \/ KeyStartsMacro \/ ReleaseAll \/ RemoteLost
           \/ MacroTick
  BY <1>0, <1>2, SessionKept DEF OnOutput, Heartbeat, KeyStopsMacro, KeyStartsMacro, ReleaseAll,
       RemoteLost, MacroTick, Handle, OwnerOnly, ownerVars, slotVars, queueVars
<1>3. ASSUME NEW i \in NativeIds, NEW v \in BOOLEAN, Key(i, v)
      PROVE  SessionInv'
  <2>1. \A j \in NativeIds : native'[j].born = native[j].born \/ native'[j].born = epoch
    BY <1>0, <1>3 DEF Key
  <2>2. ~Begin("clear")
    BY <1>0, <1>3 DEF Key, Handle
  <2> QED
    BY <1>3, <2>1, <2>2 DEF Key, OwnerOnly, SessionInv, Current, DetachedIsEmpty, SlotsCurrent,
         busVars, linkVars, ownerVars, queueVars
<1>4. ASSUME NEW v \in BOOLEAN, Stroke(v)
      PROVE  SessionInv'
  <2> DEFINE r == [id |-> "keyboard", held |-> v, born |-> epoch]
  <2>1. r \in Reports /\ r.born = epoch
    BY <1>0 DEF Reports, Ids, NativeIds
  <2>2. packets' = Append(packets, r) /\ Ready /\ ~Begin("clear")
    BY <1>0, <1>4 DEF Stroke, Handle
  <2>3. \A j \in NativeIds : native[j].born = epoch
    BY <2>2 DEF Ready, SessionInv, SlotsCurrent
  <2>4. \A j \in NativeIds : native'[j].born = native[j].born
    BY <1>0, <1>4, <2>3 DEF Stroke
  <2> QED
    BY <1>4, <2>1, <2>2, <2>4, SessionAccept DEF Stroke, ownerVars
<1>5. CASE OnReset \/ Start
  <2>1. generation \in Nat /\ generation' = generation + 1 /\ owner_generation' = owner_generation
    BY <1>5 DEF OnReset, Start, TypeOK, LinkOK
  <2>2. owner_generation \in Nat
    BY DEF TypeOK, OwnerOK
  <2>3. (owner_generation <= generation)' /\ SlotsCurrent'
    BY <2>1, <2>2 DEF SessionInv, SlotsCurrent
  <2> QED
    BY <1>5, <2>3 DEF OnReset, Start, SessionInv, Current, DetachedIsEmpty, busVars, queueVars
<1> QED
  BY <1>1, <1>2, <1>3, <1>4, <1>5 DEF Handler, MacroPress, MacroLift, MacroRelease

LEMMA SessionUsb == TypeOK /\ SessionInv /\ (Callback \/ Bus \/ Tx) => SessionInv'
<1> SUFFICES ASSUME TypeOK, SessionInv, Callback \/ Bus \/ Tx PROVE SessionInv'
  OBVIOUS
<1>0. /\ generation \in Nat /\ owner_generation \in Nat
      /\ packets \in Seq(Reports) /\ wire \in Seq(Reports)
  BY DEF TypeOK, LinkOK, OwnerOK, QueueOK, BusOK
<1>1. ASSUME UNCHANGED <<bus, wire, epoch, packets, linkVars, owner_generation, native, todo>>,
             usb' = usb \/ (usb # "mark" /\ usb' # "mark")
      PROVE  SessionInv'
  BY <1>1 DEF SessionInv, Current, DetachedIsEmpty, SlotsCurrent, Begin, linkVars
<1>2. CASE MarkLink
  <2>1. Current(wire)' /\ Current(packets)'
    BY <1>2 DEF MarkLink, DropReports, SessionInv, Current, busVars
  <2>2. DetachedIsEmpty'
    BY <1>2 DEF MarkLink, DropReports, SessionInv, DetachedIsEmpty, busVars
  <2>3. (owner_generation <= generation)' /\ SlotsCurrent'
    BY <1>0, <1>2 DEF MarkLink, SessionInv, SlotsCurrent, ownerVars
  <2> QED
    BY <2>1, <2>2, <2>3 DEF SessionInv
<1>3. CASE SignalMarked \/ ReportComplete \/ SignalComplete \/ SignalFailed
  BY <1>1, <1>3 DEF SignalMarked, ReportComplete, SignalComplete, SignalFailed, busVars, queueVars,
       ownerVars, slotVars
<1>4. CASE ReportFailed
  BY <1>4 DEF ReportFailed, SessionInv, Current, DetachedIsEmpty, SlotsCurrent, Begin, busVars,
       linkVars, ownerVars, slotVars
<1>5. ASSUME NEW b \in {"off", "on", "asleep"}, BusChange(b)
      PROVE  SessionInv'
  <2>1. UNCHANGED <<packets, mounted, generation, owner_generation, native, todo>> /\ usb' = "mark"
    BY <1>5 DEF BusChange, linkVars, queueVars, ownerVars, slotVars
  <2>2. CASE bus = "off"
    <3>1. packets = <<>> /\ wire = <<>> /\ ~mounted
      BY <1>5, <2>2 DEF BusChange, SessionInv, DetachedIsEmpty
    <3>2. wire' = <<>>
      BY <1>5, <3>1 DEF BusChange
    <3> QED
      BY <2>1, <3>1, <3>2 DEF SessionInv, Current, DetachedIsEmpty, SlotsCurrent
  <2>3. CASE bus # "off"
    <3>1. epoch' = epoch
      BY <1>5, <2>3 DEF BusChange
    <3>2. Current(wire)' /\ DetachedIsEmpty'
      BY <1>5, <2>1, <3>1 DEF BusChange, SessionInv, Current, DetachedIsEmpty
    <3> QED
      BY <2>1, <3>1, <3>2 DEF SessionInv, Current, SlotsCurrent, Begin
  <2> QED
    BY <2>2, <2>3
<1>6. CASE TransferDone \/ TransferLost
  <2>1. UNCHANGED <<bus, epoch, packets, linkVars, owner_generation, native, todo>> /\ wire' = <<>>
    BY <1>6 DEF TransferDone, TransferLost, queueVars, ownerVars, slotVars
  <2>2. bus # "off"
    BY <1>6 DEF TransferDone, TransferLost
  <2> QED
    BY <2>1, <2>2 DEF SessionInv, Current, DetachedIsEmpty, SlotsCurrent, Begin, linkVars
<1>7. CASE TxSend
  <2>1. packets # <<>> /\ bus # "off"
    BY <1>7 DEF TxSend, TxCanSend, Sendable, EndpointReady
  <2>2. Len(wire') = 1 /\ wire'[1] = packets[1]
    BY <1>0, <1>7, <2>1 DEF TxSend
  <2>3. \A k \in 1..Len(packets') : k + 1 \in 1..Len(packets) /\ packets'[k] = packets[k + 1]
    BY <1>0, <1>7, <2>1 DEF TxSend
  <2>4. epoch' = epoch /\ \A k \in 1..Len(packets) : packets[k].born = epoch
    BY <1>7 DEF TxSend, SessionInv, Current
  <2>5. Current(wire)' /\ Current(packets)'
    BY <1>0, <2>1, <2>2, <2>3, <2>4 DEF Current
  <2> QED
    BY <1>7, <2>1, <2>5 DEF TxSend, SessionInv, DetachedIsEmpty, SlotsCurrent, Begin, linkVars,
         ownerVars, slotVars
<1>8. CASE TxRefused
  BY <1>8 DEF TxRefused, SessionInv, Current, DetachedIsEmpty, SlotsCurrent, Begin, linkVars,
       ownerVars, slotVars
<1>9. CASE TxNothing \/ TxSignal \/ TxDecide \/ TxWakes
  BY <1>1, <1>9 DEF TxNothing, TxSignal, TxDecide, TxWakes, busVars, queueVars, ownerVars, slotVars
<1> QED
  BY <1>2, <1>3, <1>4, <1>5, <1>6, <1>7, <1>8, <1>9 DEF Callback, Bus, Tx

LEMMA SessionStep == TypeOK /\ SessionInv /\ [Next]_vars => SessionInv'
<1>1. SessionInv /\ UNCHANGED vars => SessionInv'
  BY DEF SessionInv, Current, DetachedIsEmpty, SlotsCurrent, Begin, vars, busVars, linkVars,
       queueVars, ownerVars, slotVars
<1> QED
  BY <1>1, SessionSection, SessionHandler, SessionUsb DEF Next

\* No report of one host session reaches another: the endpoint only ever holds
\* reports made for the host computer it is connected to (mark_link, on_link,
\* host_output_clear and the generation test of host_output_send).
THEOREM NothingReplays == Spec => []NoReplay
<1>1. SessionInv => NoReplay
  BY DEF SessionInv, Current, NoReplay
<1> QED
  BY <1>1, InitSession, SessionStep, TypeCorrect, PTL DEF Spec

\* What MCUsbHid checks on small rings holds for every queue size: the ring is
\* never overfull, the worker never sleeps over a packet it could send, in_flight
\* ends and no link change is overlooked.
THEOREM OutputIsSafe == Spec => []OutputSafety
<1>1. TypeOK /\ InFlightEnds /\ NoLostWakeup /\ LinkEventComes
      => OutputSafety
  BY DEF OutputSafety
<1> QED
  BY <1>1, TypeCorrect, InFlightAlwaysEnds, WakeupNeverLost,
     LinkEventAlwaysComes, PTL

-----------------------------------------------------------------------------
(* What reaches the host: no stuck key, and the refinement of              *)
(* ReportChannel.                                                          *)

\* EndsAs for any list of reports under way and any host state.
Ends(way, h, i, v) ==
  /\ (\A k \in 1..Len(way) : way[k].id # i) => h[i] = v
  /\ \A k \in 1..Len(way) :
       way[k].id = i /\ (\A l \in k+1..Len(way) : way[l].id # i) => way[k].held = v

LEMMA EndsIsEndsAs == \A i, v : EndsAs(i, v) <=> Ends(wire \o packets, host, i, v)
  BY DEF EndsAs, Ends

\* A report of another slot changes nothing for i.
LEMMA EndsOther ==
  ASSUME NEW way \in Seq(Reports), NEW h, NEW r \in Reports, NEW i, NEW v,
         r.id # i, Ends(way, h, i, v)
  PROVE  Ends(Append(way, r), h, i, v)
<1> DEFINE w == Append(way, r)
<1>1. /\ Len(w) = Len(way) + 1 /\ w[Len(way) + 1] = r
      /\ \A k \in 1..Len(way) : w[k] = way[k]
  OBVIOUS
<1>2. (\A k \in 1..Len(w) : w[k].id # i) => h[i] = v
  <2>1. Len(way) \in Nat
    OBVIOUS
  <2> QED
    BY <1>1, <2>1 DEF Ends
<1>3. ASSUME NEW k \in 1..Len(w), w[k].id = i, \A l \in k+1..Len(w) : w[l].id # i
      PROVE  w[k].held = v
  <2>1. Len(way) \in Nat
    OBVIOUS
  <2>2. k # Len(way) + 1
    BY <1>1, <1>3
  <2>3. k \in 1..Len(way) /\ way[k].id = i
    BY <1>1, <1>3, <2>1, <2>2
  <2>4. ASSUME NEW l \in k+1..Len(way) PROVE way[l].id # i
    BY <1>1, <1>3, <2>1, <2>3
  <2> QED
    BY <1>1, <2>3, <2>4 DEF Ends
<1> QED
  BY <1>2, <1>3 DEF Ends

\* The newest report of a slot is the one that counts.
LEMMA EndsNewest ==
  ASSUME NEW way \in Seq(Reports), NEW h, NEW r \in Reports
  PROVE  Ends(Append(way, r), h, r.id, r.held)
<1> DEFINE w == Append(way, r)
<1>1. Len(w) = Len(way) + 1 /\ w[Len(way) + 1] = r /\ Len(way) \in Nat
  OBVIOUS
<1>2. ASSUME NEW k \in 1..Len(w), \A l \in k+1..Len(w) : w[l].id # r.id
      PROVE  k = Len(way) + 1
  BY <1>1, <1>2
<1> QED
  BY <1>1, <1>2 DEF Ends

\* The host takes the oldest report.
LEMMA EndsDeliver ==
  ASSUME NEW way \in Seq(Reports), way # <<>>, NEW h, NEW g, NEW i, NEW v,
         g[i] = IF i = Head(way).id THEN Head(way).held ELSE h[i],
         Ends(way, h, i, v)
  PROVE  Ends(Tail(way), g, i, v)
<1> DEFINE t == Tail(way)
<1>1. /\ Len(t) = Len(way) - 1 /\ Len(way) \in Nat /\ Len(way) > 0 /\ Head(way) = way[1]
      /\ \A k \in 1..Len(t) : t[k] = way[k + 1]
  OBVIOUS
<1>2. ASSUME \A k \in 1..Len(t) : t[k].id # i PROVE g[i] = v
  <2>1. ASSUME NEW l \in 2..Len(way) PROVE way[l].id # i
    <3>1. l - 1 \in 1..Len(t) /\ (l - 1) + 1 = l
      BY <1>1
    <3>2. t[l - 1] = way[l]
      BY <1>1, <3>1
    <3> QED
      BY <1>2, <3>1, <3>2
  <2>2. CASE way[1].id = i
    BY <1>1, <2>1, <2>2 DEF Ends
  <2>3. CASE way[1].id # i
    BY <1>1, <2>1, <2>3 DEF Ends
  <2> QED
    BY <2>2, <2>3
<1>3. ASSUME NEW k \in 1..Len(t), t[k].id = i, \A l \in k+1..Len(t) : t[l].id # i
      PROVE  t[k].held = v
  <2>1. k + 1 \in 1..Len(way) /\ way[k + 1] = t[k]
    BY <1>1, <1>3
  <2>2. ASSUME NEW l \in (k + 1)+1..Len(way) PROVE way[l].id # i
    <3>1. l - 1 \in k+1..Len(t) /\ l - 1 \in 1..Len(t)
      BY <1>1, <1>3
    <3>2. t[l - 1] = way[l]
      BY <1>1, <3>1
    <3> QED
      BY <1>3, <3>1, <3>2
  <2> QED
    BY <1>3, <2>1, <2>2 DEF Ends
<1> QED
  BY <1>2, <1>3 DEF Ends

-----------------------------------------------------------------------------
(* No stuck key.                                                           *)
Told(i) == ~native[i].dirty => Ends(wire \o packets, host, i, native[i].held)

Knows ==
  /\ owner_generation = generation /\ ~retry_state
  /\ usb \notin {"mark", "lost"} /\ ~Has(todo, "clear")

\* NoStuckKey in the terms of this module.
Delivered == Knows => \A i \in NativeIds : Told(i)

LEMMA DeliveredIsNoStuckKey == Delivered <=> NoStuckKey
  BY EndsIsEndsAs DEF Delivered, NoStuckKey, Knows, LossesKnown, Has, Told

\* A step after which the owner knows of every loss only if it did before, and
\* that keeps what is under way, the host and the slots.
LEMMA DeliveredKept ==
  ASSUME Delivered, Knows' => Knows, UNCHANGED <<wire, packets, host, native>>
  PROVE  Delivered'
  BY DEF Delivered, Told, Ends

\* The owner puts one report behind what is under way.
LEMMA DeliveredAccept ==
  ASSUME TypeOK, Delivered, Knows' => Knows, UNCHANGED <<wire, host>>,
         NEW r \in Reports, packets' = Append(packets, r),
         \A i \in NativeIds :
            IF i = r.id THEN native'[i].held = r.held ELSE native'[i] = native[i]
  PROVE  Delivered'
<1> SUFFICES ASSUME Knows', NEW i \in NativeIds, ~native'[i].dirty
             PROVE  Ends(wire' \o packets', host', i, native'[i].held)
  BY DEF Delivered, Told
<1>1. /\ wire \o packets \in Seq(Reports)
      /\ wire' \o packets' = Append(wire \o packets, r)
  BY DEF TypeOK, BusOK, QueueOK
<1>2. CASE i = r.id
  BY <1>1, <1>2, EndsNewest
<1>3. CASE i # r.id
  <2>1. Ends(wire \o packets, host, i, native[i].held)
    BY <1>3 DEF Delivered, Told
  <2>2. Ends(Append(wire \o packets, r), host, i, native[i].held)
    BY <1>1, <1>3, <2>1, EndsOther
  <2> QED
    BY <1>1, <1>3, <2>2
<1> QED
  BY <1>2, <1>3

LEMMA HasRest ==
  ASSUME todo \in Seq(Ops), NEW op, Begin(op), op # "clear"
  PROVE  /\ Has(todo, "clear") => Has(Tail(todo), "clear")
         /\ Has(todo, "clear") => Has(<<"wake">> \o Tail(todo), "clear")
<1>1. todo # <<>> /\ Head(todo) # "clear" /\ Tail(todo) \in Seq(Ops) /\ <<"wake">> \in Seq(Ops)
  BY DEF Begin, Ops
<1> QED
  BY <1>1, HasTail, HasConcat

LEMMA HasHead == \A s : s # <<>> /\ Head(s) = "clear" /\ Len(s) \in Nat /\ Len(s) > 0 => Has(s, "clear")
  BY DEF Has

\* on_link learns of a loss only by scheduling a clear.
LEMMA DeliveredLink ==
  ASSUME TypeOK, Delivered, NEW rest \in Seq(Ops), LinkSection(rest),
         Has(todo, "clear") => Has(rest, "clear"), UNCHANGED host
  PROVE  Delivered'
<1> DEFINE active == mounted /\ ~sleeping /\ owner_started
           changed == owner_generation # generation
           retried == IF retry_state THEN Release \o <<"dirty">> ELSE <<>>
           published == IF active THEN Publish ELSE <<>>
<1>1. /\ active \in BOOLEAN /\ retry_state \in BOOLEAN /\ changed \in BOOLEAN
      /\ <<>> \in Seq(Ops) /\ <<"dirty">> \in Seq(Ops) /\ <<"clear">> \in Seq(Ops)
  BY DEF TypeOK, QueueOK, Ops
<1>2. /\ retried \in Seq(Ops) /\ published \in Seq(Ops)
      /\ LinkCalls(changed, retry_state, active) \in Seq(Ops)
  <2>1. Release \o <<"dirty">> \in Seq(Ops)
    BY <1>1, CallLists
  <2>2. retried \in Seq(Ops) /\ published \in Seq(Ops)
    BY <1>1, <2>1, CallLists
  <2>3. LinkCalls(changed, retry_state, active) \in Seq(Ops)
    BY <1>1, CallLists
  <2> QED
    BY <2>2, <2>3
<1>3. todo' = LinkCalls(changed, retry_state, active) \o rest
  BY DEF LinkSection
<1>4. ASSUME Knows' PROVE Knows
  <2>1. ~Has(rest, "clear")
    BY <1>2, <1>3, <1>4, HasConcat DEF Knows
  <2>2. ~changed
    <3> SUFFICES ASSUME changed PROVE FALSE
      OBVIOUS
    <3>1. todo' # <<>> /\ Head(todo') = "clear"
      <4>1. changed = TRUE
        OBVIOUS
      <4> QED
        BY <1>1, <1>3, <4>1, ChangeClears
    <3>2. todo' \in Seq(Ops)
      BY <1>2, <1>3
    <3> QED
      BY <1>4, <3>1, <3>2, HasHead DEF Knows
  <2>3. ~retry_state
    <3> SUFFICES ASSUME retry_state PROVE FALSE
      OBVIOUS
    <3>1. retried = Release \o <<"dirty">>
      OBVIOUS
    <3>2. Release \in Seq(Ops) /\ Release # <<>> /\ Head(Release) = "clear"
      BY <1>1, CallLists, HeadConcat DEF Release
    <3>3. retried # <<>> /\ Head(retried) = "clear"
      BY <1>1, <3>1, <3>2, HeadConcat
    <3>4. LinkCalls(changed, retry_state, active) = retried \o published
      <4>1. LinkCalls(changed, retry_state, active) = (<<>> \o retried) \o published
        <5>1. changed = FALSE
          BY <2>2
        <5> QED
          BY <5>1 DEF LinkCalls
      <4>2. <<>> \o retried = retried
        BY <1>2
      <4> QED
        BY <4>1, <4>2
    <3>7. todo' = (retried \o published) \o rest
      BY <1>3, <3>4
    <3> HIDE DEF retried, published
    <3>5. /\ retried \o published \in Seq(Ops) /\ retried \o published # <<>>
          /\ Head(retried \o published) = "clear"
      BY <1>2, <3>3, HeadConcat
    <3>6. todo' \in Seq(Ops) /\ todo' # <<>> /\ Head(todo') = "clear"
      BY <3>5, <3>7, HeadConcat
    <3> QED
      BY <1>4, <3>6, HasHead DEF Knows
  <2>4. ~Has(todo, "clear")
    BY <2>1
  <2>5. usb \notin {"mark", "lost"}
    BY <1>4 DEF Knows, LinkSection
  <2> QED
    BY <2>2, <2>3, <2>4, <2>5 DEF Knows
<1>5. UNCHANGED <<wire, packets, host, native>>
  BY DEF LinkSection, busVars, slotVars
<1> QED
  BY <1>4, <1>5, DeliveredKept

LEMMA DeliveredSection == TypeOK /\ Delivered /\ Section => Delivered'
<1> SUFFICES ASSUME TypeOK, Delivered, Section PROVE Delivered'
  OBVIOUS
<1>0. /\ todo \in Seq(Ops) /\ native \in [NativeIds -> Slots] /\ epoch \in Nat
      /\ NativeIds = {"keyboard", "consumer"}
  BY DEF TypeOK, TasksOK, SlotsOK, BusOK, NativeIds
<1>1. CASE StartLink
  <2>1. Tail(todo) \in Seq(Ops) /\ (Has(todo, "clear") => Has(Tail(todo), "clear"))
    BY <1>0, <1>1, HasRest DEF StartLink, Begin
  <2> QED
    BY <1>1, <2>1, DeliveredLink DEF StartLink, LinkSection, busVars
<1>2. CASE ClearNative
  <2>1. \A i \in NativeIds : native'[i].dirty
    BY <1>2 DEF ClearNative, Released
  <2> QED
    BY <2>1 DEF Delivered, Told
<1>3. CASE SendVendor
  <2>1. Knows' => Knows
    <3>1. Has(todo, "clear") => Has(todo', "clear")
      BY <1>0, <1>3, HasRest DEF SendVendor, Accept
    <3> QED
      BY <1>3, <3>1 DEF SendVendor, Knows, linkVars, ownerVars
  <2>2. CASE Ready /\ Room("vendor")
    <3> DEFINE r == [id |-> "vendor", held |-> FALSE, born |-> epoch]
    <3>1. r \in Reports /\ r.id \notin NativeIds
      BY <1>0 DEF Reports, Ids
    <3> QED
      BY <1>3, <2>1, <2>2, <3>1, DeliveredAccept DEF SendVendor, Accept, busVars, slotVars
  <2>3. CASE ~(Ready /\ Room("vendor"))
    BY <1>3, <2>1, <2>3, DeliveredKept DEF SendVendor, busVars, slotVars
  <2> QED
    BY <2>2, <2>3
<1>4. ASSUME NEW i \in NativeIds, SendNative(i)
      PROVE  Delivered'
  <2> DEFINE r == [id |-> i, held |-> native[i].held, born |-> native[i].born]
             send == native[i].dirty /\ ~(i = "keyboard" /\ MacroActive) /\ Ready /\ Room(i)
  <2>1. Knows' => Knows
    <3>1. Has(todo, "clear") => Has(todo', "clear")
      BY <1>0, <1>4, HasRest DEF SendNative, Accept
    <3> QED
      BY <1>4, <3>1 DEF SendNative, Knows, linkVars, ownerVars
  <2>2. CASE send
    <3>1. r \in Reports
      BY <1>0 DEF Reports, Ids, Slots
    <3>2. \A j \in NativeIds : IF j = r.id THEN native'[j].held = r.held ELSE native'[j] = native[j]
      BY <1>0, <1>4, <2>2 DEF SendNative, Slots
    <3> QED
      BY <1>4, <2>1, <2>2, <3>1, <3>2, DeliveredAccept DEF SendNative, Accept, busVars
  <2>3. CASE ~send
    BY <1>4, <2>1, <2>3, DeliveredKept DEF SendNative, busVars
  <2> QED
    BY <2>2, <2>3
<1>5. CASE WakeTx \/ PendMacro
  <2>1. Has(todo, "clear") => Has(todo', "clear")
    BY <1>0, <1>5, HasRest DEF WakeTx, PendMacro
  <2>2. Knows' => Knows
    BY <1>5, <2>1 DEF WakeTx, PendMacro, Knows, linkVars, ownerVars, queueVars
  <2> QED
    BY <1>5, <2>2, DeliveredKept DEF WakeTx, PendMacro, busVars, queueVars, slotVars
<1>6. CASE MarkDirty
  <2>1. \A i \in NativeIds : native'[i].dirty
    BY <1>0, <1>6 DEF MarkDirty, Slots
  <2> QED
    BY <2>1 DEF Delivered, Told
<1>7. CASE PressMacro
  <2>0. Tail(todo) \in Seq(Ops)
    BY <1>0, <1>7 DEF PressMacro, Begin
  <2>1. \A s \in Seq(Ops) : Has(Tail(todo), "clear") => Has(s \o Tail(todo), "clear")
    BY <2>0, HasConcat
  <2>2. Release \o <<"pend">> \in Seq(Ops) /\ Flush \in Seq(Ops)
    <3>1. <<"pend">> \in Seq(Ops)
      BY DEF Ops
    <3> QED
      BY <3>1, CallLists
  <2>3. Has(todo, "clear") => Has(Tail(todo), "clear")
    BY <1>0, <1>7, HasRest DEF PressMacro
  <2>4. Has(todo, "clear") => Has(todo', "clear")
    BY <1>7, <2>1, <2>2, <2>3 DEF PressMacro
  <2>5. Knows' => Knows
    BY <1>7, <2>4 DEF PressMacro, Knows, linkVars, ownerVars, queueVars
  <2> QED
    BY <1>7, <2>5, DeliveredKept DEF PressMacro, busVars, queueVars, slotVars
<1> QED
  BY <1>1, <1>2, <1>3, <1>4, <1>5, <1>6, <1>7 DEF Section

LEMMA DeliveredHandler ==
  TypeOK /\ owner_generation <= generation /\ Delivered /\ Handler => Delivered'
<1> SUFFICES ASSUME TypeOK, owner_generation <= generation, Delivered, Handler PROVE Delivered'
  OBVIOUS
<1>0. /\ native \in [NativeIds -> Slots] /\ epoch \in Nat /\ <<>> \in Seq(Ops)
      /\ (todo = <<>> => ~Has(todo, "clear"))
  BY DEF TypeOK, SlotsOK, BusOK, Has
<1>1. CASE OnLink
  BY <1>0, <1>1, DeliveredLink DEF OnLink, LinkSection, busVars
<1>2. CASE OnOutput \/ Heartbeat \/ KeyStopsMacro \/ KeyStartsMacro \/ ReleaseAll \/ RemoteLost
           \/ MacroTick
  <2>1. todo = <<>> /\ UNCHANGED <<usb, generation, owner_generation, retry_state>>
    BY <1>2 DEF OnOutput, Heartbeat, KeyStopsMacro, KeyStartsMacro, ReleaseAll,
         RemoteLost, MacroTick, Handle, OwnerOnly, linkVars, ownerVars, queueVars
  <2>2. Knows' => Knows
    BY <1>0, <2>1 DEF Knows
  <2> QED
    BY <1>2, <2>2, DeliveredKept DEF OnOutput, Heartbeat, KeyStopsMacro, KeyStartsMacro, ReleaseAll,
         RemoteLost, MacroTick, Handle, OwnerOnly, busVars, slotVars, queueVars
<1>3. ASSUME NEW i \in NativeIds, NEW v \in BOOLEAN, Key(i, v)
      PROVE  Delivered'
  <2>1. todo = <<>> /\ UNCHANGED <<wire, packets, host, usb, generation, owner_generation, retry_state>>
    BY <1>3 DEF Key, Handle, OwnerOnly, busVars, linkVars, ownerVars, queueVars
  <2>2. Knows' => Knows
    BY <1>0, <2>1 DEF Knows
  <2>3. \A j \in NativeIds : native'[j].dirty \/ native'[j] = native[j]
    BY <1>0, <1>3 DEF Key
  <2> SUFFICES ASSUME Knows', NEW j \in NativeIds, ~native'[j].dirty
               PROVE  Ends(wire' \o packets', host', j, native'[j].held)
    BY DEF Delivered, Told
  <2>4. Told(j) /\ native'[j] = native[j]
    BY <2>2, <2>3 DEF Delivered
  <2> QED
    BY <2>1, <2>4 DEF Told
<1>4. ASSUME NEW v \in BOOLEAN, Stroke(v)
      PROVE  Delivered'
  <2> DEFINE r == [id |-> "keyboard", held |-> v, born |-> epoch]
  <2>1. r \in Reports
    BY <1>0 DEF Reports, Ids, NativeIds
  <2>2. packets' = Append(packets, r)
    BY <1>4 DEF Stroke
  <2>3. \A j \in NativeIds : IF j = r.id THEN native'[j].held = r.held ELSE native'[j] = native[j]
    BY <1>0, <1>4 DEF Stroke, NativeIds
  <2>4. Knows' => Knows
    BY <1>0, <1>4 DEF Stroke, Handle, Knows, linkVars, ownerVars
  <2> QED
    BY <1>4, <2>1, <2>2, <2>3, <2>4, DeliveredAccept DEF Stroke, busVars
<1>5. CASE OnReset \/ Start
  <2>1. generation \in Nat /\ generation' = generation + 1 /\ owner_generation' = owner_generation
        /\ owner_generation \in Nat
    BY <1>5 DEF OnReset, Start, TypeOK, LinkOK, OwnerOK
  <2> QED
    BY <2>1 DEF Delivered, Knows
<1> QED
  BY <1>1, <1>2, <1>3, <1>4, <1>5 DEF Handler, MacroPress, MacroLift, MacroRelease

LEMMA DeliveredUsb ==
  TypeOK /\ owner_generation <= generation /\ Delivered /\ (Callback \/ Bus \/ Tx) => Delivered'
<1> SUFFICES ASSUME TypeOK, owner_generation <= generation, Delivered, Callback \/ Bus \/ Tx
             PROVE  Delivered'
  OBVIOUS
<1>0. /\ generation \in Nat /\ owner_generation \in Nat
      /\ packets \in Seq(Reports) /\ wire \in Seq(Reports) /\ Len(wire) <= 1
  BY DEF TypeOK, LinkOK, OwnerOK, QueueOK, BusOK
<1>1. CASE MarkLink
  BY <1>0, <1>1 DEF MarkLink, Delivered, Knows, ownerVars
<1>2. CASE SignalMarked \/ ReportComplete \/ SignalComplete \/ SignalFailed
  <2>1. /\ UNCHANGED <<wire, packets, host, native, generation, owner_generation, retry_state, todo>>
        /\ usb \notin {"mark", "lost"}
    BY <1>2 DEF SignalMarked, ReportComplete, SignalComplete, SignalFailed, busVars, queueVars,
         slotVars, linkVars, ownerVars
  <2> QED
    BY <2>1, DeliveredKept DEF Knows
<1>3. CASE ReportFailed \/ TxRefused
  BY <1>3 DEF ReportFailed, TxRefused, Delivered, Knows
<1>4. CASE TransferLost \/ (\E b \in {"off", "on", "asleep"} : BusChange(b))
  BY <1>4 DEF TransferLost, BusChange, Delivered, Knows
<1>5. CASE TransferDone
  <2> DEFINE way == wire \o packets
  <2>1. wire # <<>> /\ wire' = <<>> /\ packets' = packets /\ native' = native
    BY <1>5 DEF TransferDone, queueVars, slotVars
  <2>2. /\ way \in Seq(Reports) /\ way # <<>> /\ Head(way) = Head(wire)
        /\ Tail(way) = wire' \o packets'
    BY <1>0, <2>1
  <2>3. \A i \in NativeIds : host'[i] = IF i = Head(way).id THEN Head(way).held ELSE host[i]
    BY <1>5, <2>2 DEF TransferDone
  <2>4. Knows' => Knows
    BY <1>5 DEF TransferDone, Knows, linkVars, ownerVars, queueVars
  <2>5. SUFFICES ASSUME Knows', NEW i \in NativeIds, ~native'[i].dirty
                 PROVE  Ends(wire' \o packets', host', i, native'[i].held)
    BY DEF Delivered, Told
  <2>6. Ends(way, host, i, native[i].held)
    BY <2>1, <2>4, <2>5 DEF Delivered, Told
  <2>7. Ends(Tail(way), host', i, native[i].held)
    BY <2>2, <2>3, <2>6, EndsDeliver
  <2> QED
    BY <2>1, <2>2, <2>7
<1>6. CASE TxSend
  <2>1. packets # <<>> /\ wire = <<>>
    BY <1>6 DEF TxSend, TxCanSend, Sendable, EndpointReady
  <2>2. wire' \o packets' = wire \o packets
    BY <1>0, <1>6, <2>1 DEF TxSend
  <2>3. UNCHANGED <<host, native, usb, generation, owner_generation, retry_state, todo>>
    BY <1>6 DEF TxSend, linkVars, ownerVars, slotVars
  <2> QED
    BY <2>2, <2>3 DEF Delivered, Told, Knows
<1>7. CASE TxNothing \/ TxSignal \/ TxDecide \/ TxWakes
  <2>1. UNCHANGED <<wire, packets, host, native, usb, generation, owner_generation, retry_state, todo>>
    BY <1>7 DEF TxNothing, TxSignal, TxDecide, TxWakes, busVars, queueVars, slotVars, linkVars, ownerVars
  <2> QED
    BY <2>1, DeliveredKept DEF Knows
<1> QED
  BY <1>1, <1>2, <1>3, <1>4, <1>5, <1>6, <1>7 DEF Callback, Bus, Tx

\* No stuck key: a slot the owner considers sent is what the host computer has
\* or will have once it took every report under way, whatever suspends,
\* failures, clears and full queues dropped (flush_native, clear_native,
\* on_link, tx_once, tud_hid_report_failed_cb, macro_send_keyboard).
THEOREM NoKeyStuck == Spec => []NoStuckKey
<1>1. Init => Delivered
  <2>1. ASSUME Init, NEW i \in NativeIds PROVE Ends(wire \o packets, host, i, native[i].held)
    <3>1. wire = <<>> /\ packets = <<>>
      BY <2>1 DEF Init
    <3>2. 1..Len(wire \o packets) = {}
      BY <3>1
    <3>3. host[i] = native[i].held
      BY <2>1, Zenon DEF Init
    <3> QED
      BY <3>2, <3>3, Zenon DEF Ends
  <2> QED
    BY <2>1 DEF Delivered, Told
<1>2. TypeOK /\ SessionInv /\ Delivered /\ [Next]_vars => Delivered'
  <2>1. Delivered /\ UNCHANGED vars => Delivered'
    <3>1. UNCHANGED vars => UNCHANGED <<wire, packets, host, native, usb, generation, owner_generation,
                                        retry_state, todo>>
      BY DEF vars, busVars, queueVars, slotVars, linkVars, ownerVars
    <3> QED
      BY <3>1, DeliveredKept DEF Knows
  <2>2. SessionInv => owner_generation <= generation
    BY DEF SessionInv
  <2> QED
    BY <2>1, <2>2, DeliveredSection, DeliveredHandler, DeliveredUsb DEF Next
<1>3. Spec => []SessionInv
  BY InitSession, SessionStep, TypeCorrect, PTL DEF Spec
<1>4. Spec => []Delivered
  BY <1>1, <1>2, <1>3, TypeCorrect, PTL DEF Spec
<1> QED
  BY <1>4, DeliveredIsNoStuckKey, PTL
-----------------------------------------------------------------------------
\* The three tasks implement the channel of ReportChannel.

\* What keeps the reports within those the channel names: a host session begins
\* with a link change, which mark_link is about to count.
Sessions ==
  /\ epoch <= generation + (IF usb = "mark" THEN 1 ELSE 0)
  /\ epoch \in 0..MaxGeneration
  /\ \A i \in NativeIds : native[i].born \in 0..MaxGeneration

LEMMA Cut ==
  ASSUME NEW S, NEW s \in Seq(S), NEW t \in Seq(S)
  PROVE  /\ s = SubSeq(s \o t, 1, Len(s))
         /\ t = SubSeq(s \o t, Len(s) + 1, Len(s \o t))
         /\ <<>> = SubSeq(s \o t, 1, 0)
         /\ s \o t = SubSeq(s \o t, 1, Len(s \o t))
         /\ Len(s) \in 0..Len(s \o t) /\ Len(s \o t) \in Nat
  OBVIOUS

LEMMA Way ==
  ASSUME NEW s \in Seq(Reports), NEW t \in Seq(Reports)
  PROVE  /\ Len(s \o t) = Len(s) + Len(t) /\ Len(s) \in Nat /\ Len(t) \in Nat
         /\ \A r \in Reports : s \o Append(t, r) = Append(s \o t, r)
  OBVIOUS

LEMMA SessionsStep == TypeOK /\ Sessions /\ [Next]_vars => Sessions'
<1> SUFFICES ASSUME TypeOK, Sessions, [Next]_vars PROVE Sessions'
  OBVIOUS
<1>0. /\ epoch \in Nat /\ generation \in Nat /\ MaxGeneration \in Nat
      /\ native \in [NativeIds -> Slots] /\ "keyboard" \in NativeIds
  BY BoundAssumption DEF TypeOK, BusOK, LinkOK, SlotsOK, NativeIds
<1>1. ASSUME UNCHANGED <<epoch, generation, usb, native>> PROVE Sessions'
  BY <1>1 DEF Sessions
<1>2. CASE Section
  <2>1. UNCHANGED <<epoch, generation, usb>>
    BY <1>2 DEF Section, StartLink, LinkSection, ClearNative, SendVendor, SendNative, WakeTx,
         MarkDirty, PressMacro, PendMacro, busVars, linkVars
  <2>2. \A i \in NativeIds : native'[i].born = native[i].born \/ native'[i].born = epoch
    <3>1. CASE ClearNative
      BY <3>1 DEF ClearNative, Released
    <3>2. ASSUME NEW i \in NativeIds, SendNative(i)
          PROVE  \A j \in NativeIds : native'[j].born = native[j].born
      <4>1. native' = [native EXCEPT ![i].dirty = FALSE] \/ native' = native
        BY <3>2 DEF SendNative
      <4>2. i \in DOMAIN native /\ DOMAIN native[i] = {"held", "dirty", "born"}
        BY <1>0 DEF Slots
      <4> QED BY <1>0, <4>1, <4>2
    <3>3. CASE MarkDirty
      BY <1>0, <3>3 DEF MarkDirty, Slots
    <3>4. CASE StartLink \/ SendVendor \/ WakeTx \/ PressMacro \/ PendMacro
      BY <3>4 DEF StartLink, LinkSection, SendVendor, WakeTx, PressMacro, PendMacro, slotVars
    <3> QED
      BY <1>2, <3>1, <3>2, <3>3, <3>4 DEF Section
  <2> QED
    BY <2>1, <2>2 DEF Sessions
<1>3. CASE Handler
  <2>1. UNCHANGED <<epoch, usb>> /\ (generation' = generation \/ generation' = generation + 1)
    BY <1>3 DEF Handler, OnLink, LinkSection, OnOutput, Heartbeat, Key, KeyStopsMacro,
         KeyStartsMacro, ReleaseAll, RemoteLost, MacroPress, MacroLift, MacroRelease, Stroke,
         MacroTick, OnReset, Start, OwnerOnly, busVars, linkVars
  <2>2. \A i \in NativeIds : native'[i].born = native[i].born \/ native'[i].born = epoch
    <3>1. ASSUME NEW i \in NativeIds, NEW v \in BOOLEAN, Key(i, v)
          PROVE  \A j \in NativeIds : native'[j].born = native[j].born \/ native'[j].born = epoch
      BY <1>0, <3>1 DEF Key, Slots
    <3>2. ASSUME NEW v \in BOOLEAN, Stroke(v)
          PROVE  \A j \in NativeIds : native'[j].born = native[j].born \/ native'[j].born = epoch
      BY <1>0, <3>2 DEF Stroke, Slots
    <3>3. CASE MacroPress \/ MacroLift \/ MacroRelease
      BY <3>2, <3>3 DEF MacroPress, MacroLift, MacroRelease
    <3>4. CASE \/ OnLink \/ OnOutput \/ Heartbeat \/ KeyStopsMacro \/ KeyStartsMacro
               \/ ReleaseAll \/ RemoteLost \/ MacroTick \/ OnReset \/ Start
      BY <3>4 DEF OnLink, LinkSection, OnOutput, Heartbeat, KeyStopsMacro, KeyStartsMacro,
           ReleaseAll, RemoteLost, MacroTick, OnReset, Start, slotVars
    <3> QED
      BY <1>3, <3>1, <3>3, <3>4 DEF Handler
  <2> QED
    BY <1>0, <2>1, <2>2 DEF Sessions
<1>4. CASE Callback
  BY <1>0, <1>1, <1>4 DEF Callback, MarkLink, SignalMarked, ReportComplete, SignalComplete,
       ReportFailed, SignalFailed, busVars, linkVars, slotVars, Sessions
<1>5. CASE Bus
  BY <1>0, <1>5 DEF Bus, BusChange, TransferDone, TransferLost, linkVars, slotVars, Sessions
<1>6. CASE Tx \/ UNCHANGED vars
  <2>1. UNCHANGED <<epoch, generation, usb, native>>
    BY <1>6 DEF Tx, TxSend, TxRefused, TxNothing, TxSignal, TxDecide, TxWakes, vars, busVars,
         linkVars, slotVars
  <2> QED
    BY <1>1, <2>1
<1> QED
  BY <1>2, <1>3, <1>4, <1>5, <1>6 DEF Next

LEMMA ChannelStep ==
  TypeOK /\ Sessions /\ [Next]_vars => [Channel!Next]_Channel!chan
<1> SUFFICES ASSUME TypeOK, Sessions, [Next]_vars
             PROVE  Channel!Next \/ UNCHANGED <<wire \o packets, host>>
  BY DEF Channel!chan
<1> DEFINE Known == [id : Ids, held : BOOLEAN, born : 0..MaxGeneration]
<1>00. /\ wire \in Seq(Reports) /\ packets \in Seq(Reports) /\ <<>> \in Seq(Reports)
       /\ Len(wire) <= 1 /\ QueueSize \in Nat
  BY QueueAssumption DEF TypeOK, BusOK, QueueOK
<1>01. /\ Len(wire \o packets) = Len(wire) + Len(packets) /\ Len(wire) \in 0..1
       /\ Len(packets) \in Nat
  <2>1. Len(wire \o packets) = Len(wire) + Len(packets) /\ Len(wire) \in Nat
        /\ Len(packets) \in Nat
    BY <1>00, Way
  <2>2. Len(wire) <= 1
    BY <1>00
  <2> QED BY <2>1, <2>2
<1>0. /\ wire \in Seq(Reports) /\ packets \in Seq(Reports) /\ <<>> \in Seq(Reports)
      /\ Len(wire) <= 1 /\ QueueSize \in Nat \ {0} /\ Len(wire) \in Nat /\ Len(packets) \in Nat
      /\ Len(wire \o packets) = Len(wire) + Len(packets)
      /\ native \in [NativeIds -> Slots] /\ epoch \in 0..MaxGeneration
      /\ NativeIds = {"keyboard", "consumer"} /\ NativeIds \subseteq Ids
  BY <1>00, <1>01, QueueAssumption DEF TypeOK, BusOK, SlotsOK, Sessions, NativeIds, Ids
\* an accepted report goes to the end of the way
<1>1. ASSUME NEW r \in Known, packets' = Append(packets, r), Len(packets) < QueueSize,
             UNCHANGED <<wire, host>>
      PROVE  Channel!Accept
  <2>1. wire' \o packets' = Append(wire \o packets, r)
    <3>1. r \in Reports
      BY <1>0, <1>1 DEF Known, Reports
    <3>2. wire \o Append(packets, r) = Append(wire \o packets, r)
      BY <1>00, <3>1, Way
    <3> QED BY <1>1, <3>2
  <2>2. Len(wire \o packets) < QueueSize + 1
    BY <1>00, <1>01, <1>1
  <2> QED
    BY <1>1, <2>1, <2>2 DEF Channel!Accept
\* what is dropped is one end of the way
<1>2. ASSUME NEW g, host' = g,
             \/ wire' = wire /\ packets' = packets
             \/ wire' = wire /\ packets' = <<>>
             \/ wire' = <<>> /\ packets' = packets
             \/ wire' = <<>> /\ packets' = <<>>
      PROVE  Channel!Drop(g)
  <2> DEFINE way == wire \o packets
  <2>1. /\ way = SubSeq(way, 1, Len(way)) /\ wire = SubSeq(way, 1, Len(wire))
        /\ packets = SubSeq(way, Len(wire) + 1, Len(way)) /\ <<>> = SubSeq(way, 1, 0)
    BY <1>0, Cut
  <2>2. Len(wire) \in 0..Len(way) /\ Len(way) \in Nat
    BY <1>0, Cut
  <2>3. wire' \o packets' \in {way, wire, packets, <<>>}
    <3>1. wire \o <<>> = wire /\ <<>> \o packets = packets /\ <<>> \o <<>> = <<>>
      BY <1>0
    <3> QED
      BY <1>2, <3>1, Zenon
  <2> HIDE DEF way
  <2>4. \E m \in 1..Len(way)+1, n \in 0..Len(way) : wire' \o packets' = SubSeq(way, m, n)
    <3>1. /\ 1 \in 1..Len(way)+1 /\ Len(wire) + 1 \in 1..Len(way)+1
          /\ 0 \in 0..Len(way) /\ Len(way) \in 0..Len(way)
      BY <2>2
    <3> QED
      BY <2>1, <2>2, <2>3, <3>1, Zenon
  <2> QED
    BY <1>2, <2>4 DEF Channel!Drop, way
<1>3. CASE Section
  <2>1. CASE ClearNative
    BY <1>2, <2>1 DEF ClearNative, busVars, Channel!Lose, Channel!Next
  <2>2. CASE SendVendor
    <3>1. [id |-> "vendor", held |-> FALSE, born |-> epoch] \in Known
      BY <1>0 DEF Ids
    <3>2. Room("vendor") => Len(packets) < QueueSize
      BY <1>0, QueueAssumption DEF Room
    <3> HIDE DEF Known
    <3> QED
      BY <1>1, <2>2, <3>1, <3>2 DEF SendVendor, Accept, busVars, Channel!Next
  <2>3. ASSUME NEW i \in NativeIds, SendNative(i)
        PROVE  Channel!Next \/ UNCHANGED <<wire \o packets, host>>
    <3>1. [id |-> i, held |-> native[i].held, born |-> native[i].born] \in Known
      BY <1>0 DEF Sessions, Slots
    <3>2. Room(i) => Len(packets) < QueueSize
      BY <1>0 DEF Room
    <3> HIDE DEF Known
    <3> QED
      BY <1>1, <2>3, <3>1, <3>2 DEF SendNative, Accept, busVars, Channel!Next
  <2>4. CASE StartLink \/ WakeTx \/ MarkDirty \/ PressMacro \/ PendMacro
    BY <2>4 DEF StartLink, LinkSection, WakeTx, MarkDirty, PressMacro, PendMacro, busVars, queueVars
  <2> QED
    BY <1>3, <2>1, <2>2, <2>3, <2>4 DEF Section
<1>4. CASE Handler
  <2>1. ASSUME NEW v \in BOOLEAN, Stroke(v) PROVE Channel!Next
    <3>1. [id |-> "keyboard", held |-> v, born |-> epoch] \in Known
      BY <1>0
    <3>2. packets' = Append(packets, [id |-> "keyboard", held |-> v, born |-> epoch])
      BY <2>1 DEF Stroke
    <3>3. Len(packets) < QueueSize
      BY <1>0, <2>1 DEF Stroke
    <3> HIDE DEF Known
    <3> QED
      BY <1>1, <2>1, <3>1, <3>2, <3>3 DEF Stroke, busVars, Channel!Next
  <2>2. CASE MacroPress \/ MacroLift \/ MacroRelease
    BY <2>1, <2>2 DEF MacroPress, MacroLift, MacroRelease
  <2>3. CASE \/ OnLink \/ OnOutput \/ Heartbeat \/ KeyStopsMacro \/ KeyStartsMacro
             \/ ReleaseAll \/ RemoteLost \/ MacroTick \/ OnReset \/ Start
    BY <2>3 DEF OnLink, LinkSection, OnOutput, Heartbeat, KeyStopsMacro, KeyStartsMacro,
         ReleaseAll, RemoteLost, MacroTick, OnReset, Start, OwnerOnly, busVars, queueVars
  <2>4. ASSUME NEW i \in NativeIds, NEW v \in BOOLEAN, Key(i, v)
        PROVE  UNCHANGED <<wire \o packets, host>>
    BY <2>4 DEF Key, OwnerOnly, busVars, queueVars
  <2> QED
    BY <1>4, <2>2, <2>3, <2>4 DEF Handler
<1>5. CASE Callback
  <2>1. CASE MarkLink
    BY <1>2, <2>1 DEF MarkLink, DropReports, busVars, Channel!Lose, Channel!Next
  <2>2. CASE ReportFailed
    BY <1>2, <2>2 DEF ReportFailed, busVars, Channel!Lose, Channel!Next
  <2>3. CASE SignalMarked \/ ReportComplete \/ SignalComplete \/ SignalFailed
    BY <2>3 DEF SignalMarked, ReportComplete, SignalComplete, SignalFailed, busVars, queueVars
  <2> QED
    BY <1>5, <2>1, <2>2, <2>3 DEF Callback
<1>6. CASE Bus
  <2>1. ASSUME NEW b, BusChange(b) PROVE Channel!Next
    <3>1. (wire' = wire \/ wire' = <<>>) /\ packets' = packets
      BY <2>1 DEF BusChange, queueVars
    <3>2. CASE bus = "off"
      BY <1>2, <2>1, <3>1, <3>2 DEF BusChange, Channel!NewHost, Channel!Next
    <3>3. CASE bus # "off"
      BY <1>2, <2>1, <3>1, <3>3 DEF BusChange, Channel!Lose, Channel!Next
    <3> QED
      BY <3>2, <3>3
  <2>2. CASE TransferDone
    <3>1. wire # <<>> /\ wire' = <<>> /\ packets' = packets
      BY <2>2 DEF TransferDone, queueVars
    <3>2. /\ wire \o packets # <<>> /\ Head(wire \o packets) = Head(wire)
          /\ Tail(wire \o packets) = wire' \o packets'
      BY <1>0, <3>1
    <3>3. wire' \o packets' = Tail(wire \o packets)
      BY <3>2
    <3>4. host' = [k \in NativeIds |-> IF k = Head(wire).id THEN Head(wire).held ELSE host[k]]
      BY <2>2 DEF TransferDone
    <3> QED
      BY <3>2, <3>3, <3>4 DEF Channel!Deliver, Channel!Next
  <2>3. CASE TransferLost
    BY <1>2, <2>3 DEF TransferLost, queueVars, Channel!Lose, Channel!Next
  <2> QED
    BY <1>6, <2>1, <2>2, <2>3 DEF Bus
<1>7. CASE Tx
  <2>1. CASE TxSend
    <3>1. packets # <<>> /\ wire = <<>>
      BY <2>1 DEF TxSend, TxCanSend, Sendable, EndpointReady
    <3>2. wire' \o packets' = wire \o packets
      BY <1>0, <2>1, <3>1 DEF TxSend
    <3> QED
      BY <2>1, <3>2 DEF TxSend
  <2>2. CASE TxRefused
    BY <1>2, <2>2 DEF TxRefused, Channel!Lose, Channel!Next
  <2>3. CASE TxNothing \/ TxSignal \/ TxDecide \/ TxWakes
    BY <2>3 DEF TxNothing, TxSignal, TxDecide, TxWakes, busVars, queueVars
  <2> QED
    BY <1>7, <2>1, <2>2, <2>3 DEF Tx
<1>8. CASE UNCHANGED vars
  BY <1>8 DEF vars, busVars, queueVars
<1> QED
  BY <1>3, <1>4, <1>5, <1>6, <1>7, <1>8 DEF Next

\* Reports are never reordered, repeated or invented: the queue, the worker and
\* the callbacks implement the channel host_output.h promises
\* (host_output_send, macro_send_keyboard, tx_once, mark_link).
THEOREM ChannelImplemented == Spec => ImplementsChannel
<1>1. Init => Sessions /\ Channel!Init
  <2>1. Init => Sessions
    BY BoundAssumption DEF Init, Sessions
  <2>2. Init => wire \o packets = <<>> /\ host = [i \in NativeIds |-> FALSE]
    BY DEF Init
  <2> QED
    BY <2>1, <2>2 DEF Channel!Init
<1>2. Spec => []Sessions
  BY <1>1, SessionsStep, TypeCorrect, PTL DEF Spec
<1>3. Spec => Channel!Init /\ [][Channel!Next]_Channel!chan
  BY <1>1, <1>2, ChannelStep, TypeCorrect, PTL DEF Spec
<1> QED
  BY <1>3 DEF ImplementsChannel, Channel!Spec
=============================================================================
