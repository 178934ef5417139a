------------------------------- MODULE UsbHid -------------------------------
(***************************************************************************)
(* The USB output path of the bridge firmware: usb_hid.c and the report    *)
(* slots of hid_input.c that feed it.                                      *)
(*                                                                         *)
(* Three tasks share the state that the mutex "guard" protects:            *)
(*   - the TinyUSB task runs the attach / detach / suspend / resume and    *)
(*     the report-complete / report-failed callbacks (program counter      *)
(*     usb);                                                               *)
(*   - the usb_hid_tx worker moves one packet at a time from the queue to  *)
(*     the endpoint (program counter tx);                                  *)
(*   - the NimBLE host task, "the owner", runs the input engine.  One      *)
(*     event handler runs at a time; todo is what is left of it, one entry *)
(*     per section under the mutex.                                        *)
(* A step of the model is one section under the mutex, or what a task does *)
(* between two of them.  The host computer and the endpoint are the        *)
(* environment: bus, wire, host.                                           *)
(*                                                                         *)
(* Data is kept to what the properties tell apart.  A report is its id,    *)
(* whether it holds a key down, and the host session (epoch) it was made   *)
(* in.  The keyboard and the consumer slot stand for the native reports;   *)
(* the mouse slot, whose flush waits for its own completion, is described  *)
(* in MouseFlow.                                                           *)
(***************************************************************************)
EXTENDS Integers, Sequences

CONSTANTS
  QueueSize,      \* USB_QUEUE_SIZE: 16 in the code
  NativeReserve,  \* entries a vendor (debug) report may not use: 3 in the code
  MaxGeneration,  \* bound: link changes and owner restarts
  MaxFailures,    \* bound: transfers the endpoint refuses or fails
  MaxInputs       \* bound: reports of the remote and commands of the application

ASSUME QueueAssumption ==
  /\ QueueSize \in Nat /\ NativeReserve \in Nat
  /\ NativeReserve < QueueSize

ASSUME BoundAssumption ==
  MaxGeneration \in Nat /\ MaxFailures \in Nat /\ MaxInputs \in Nat

VARIABLES
  \* the host computer and the endpoint
  bus,              \* what the TinyUSB stack knows of the bus
  wire,             \* the transfer the endpoint holds, <<>> or <<report>>
  host,             \* the keys the host computer believes are held
  epoch,            \* ghost: host sessions so far
  failures,         \* bound counter
  \* the TinyUSB task
  usb,
  \* shared, under guard
  mounted, sleeping, generation, packets, in_flight, retry_state,
  owner_started, owner_active, owner_generation,
  \* cross-task signals
  eventq,           \* events of this module in the owner's queue, in order
  notified,         \* the latched notification of usb_hid_tx
  \* the usb_hid_tx task
  tx,
  \* the owner task
  native,           \* the report slots
  macro,            \* the macro engine, as far as it drives the keyboard slot
  todo,             \* rest of the handler that runs
  inputs            \* bound counter

busVars   == <<bus, wire, host, epoch, failures>>
linkVars  == <<mounted, sleeping, generation>>
queueVars == <<packets, in_flight, retry_state>>
ownerVars == <<owner_started, owner_active, owner_generation>>
slotVars  == <<native, macro, inputs>>
vars == <<busVars, usb, linkVars, queueVars, ownerVars, eventq, notified, tx,
          slotVars, todo>>

NativeIds == {"keyboard", "consumer"}
Ids       == NativeIds \union {"vendor"}
Reports   == [id : Ids, held : BOOLEAN, born : Nat]
Slots     == [held : BOOLEAN, dirty : BOOLEAN, born : Nat]
Events    == {"link", "output"}
Ops       == {"clear", "vendor", "keyboard", "consumer", "wake", "dirty",
              "press", "pend", "link"}

BusOK ==
  /\ bus \in {"off", "on", "asleep"}
  /\ wire \in Seq(Reports) /\ Len(wire) <= 1
  /\ host \in [NativeIds -> BOOLEAN]
  /\ epoch \in Nat /\ failures \in Nat

LinkOK == mounted \in BOOLEAN /\ sleeping \in BOOLEAN /\ generation \in Nat

QueueOK ==
  /\ packets \in Seq(Reports) /\ Len(packets) <= QueueSize
  /\ in_flight \in BOOLEAN /\ retry_state \in BOOLEAN

OwnerOK ==
  /\ owner_started \in BOOLEAN /\ owner_active \in BOOLEAN
  /\ owner_generation \in Nat

SlotsOK ==
  /\ native \in [NativeIds -> Slots]
  /\ macro \in {"off", "pending", "active", "typed", "release"}
  /\ inputs \in Nat

TasksOK ==
  /\ usb \in {"idle", "mark", "marked", "done", "completed", "lost", "dropped"}
  /\ tx \in {"run", "signal", "decide", "poll", "wait"}
  /\ notified \in BOOLEAN
  /\ eventq \in Seq(Events)
  /\ todo \in Seq(Ops)

TypeOK == BusOK /\ LinkOK /\ QueueOK /\ OwnerOK /\ SlotsOK /\ TasksOK

Released(e) == [held |-> FALSE, dirty |-> TRUE, born |-> e]

Init ==
  /\ bus = "off" /\ wire = <<>> /\ epoch = 0 /\ failures = 0
  /\ host = [i \in NativeIds |-> FALSE]
  /\ usb = "idle"
  /\ mounted = FALSE /\ sleeping = FALSE /\ generation = 0
  /\ packets = <<>> /\ in_flight = FALSE /\ retry_state = FALSE
  /\ owner_started = FALSE /\ owner_active = FALSE /\ owner_generation = 0
  /\ eventq = <<>> /\ notified = FALSE
  /\ tx = "run"
  /\ native = [i \in NativeIds |-> [held |-> FALSE, dirty |-> FALSE, born |-> 0]]
  /\ macro = "off" /\ todo = <<>> /\ inputs = 0

-----------------------------------------------------------------------------
(* What the tasks share.                                                   *)

\* ble_npl_eventq_put: an event that is already queued is not queued again.
Put(e) ==
  eventq' = IF \E i \in 1..Len(eventq) : eventq[i] = e
            THEN eventq ELSE Append(eventq, e)

\* The readiness test of host_output_ready, host_output_send and
\* macro_send_keyboard, made under the mutex.
Ready ==
  /\ owner_active /\ mounted /\ ~sleeping /\ ~retry_state
  /\ owner_generation = generation

MacroActive == macro \in {"active", "typed", "release"}

\* The tx_task test "is there a packet I could send now?".
Sendable == mounted /\ ~sleeping /\ packets # <<>> /\ ~in_flight

-----------------------------------------------------------------------------
(* The TinyUSB task and the host computer.                                 *)

\* The bus changes; usbd runs the callback that leads to mark_link.  A host
\* computer that configures the device knows of no held key; a transfer is
\* lost with the connection and stays outstanding over a suspend.  A reset of the
\* bus is a change to off and on again; one that TinyUSB handles without a
\* detach callback is left out.
BusChange(b) ==
  /\ usb = "idle" /\ generation < MaxGeneration
  /\ <<bus, b>> \in {<<"off", "on">>, <<"on", "asleep">>, <<"asleep", "on">>,
                     <<"on", "off">>, <<"asleep", "off">>}
  /\ bus' = b /\ usb' = "mark"
  /\ wire' = IF b = "off" THEN <<>> ELSE wire
  /\ IF bus = "off"
     THEN epoch' = epoch + 1 /\ host' = [i \in NativeIds |-> FALSE]
     ELSE UNCHANGED <<epoch, host>>
  /\ UNCHANGED <<failures, linkVars, queueVars, ownerVars, eventq, notified,
                 tx, slotVars, todo>>

\* Mutant: mark_link keeps in_flight.
DropReports_KeepsFlight == packets' = <<>> /\ in_flight' = in_flight

\* mark_link: head = count = 0 and in_flight = false.
DropReports == packets' = <<>> /\ in_flight' = FALSE

\* mark_link, the section under the mutex.
MarkLink ==
  /\ usb = "mark" /\ usb' = "marked"
  /\ mounted' = (bus # "off") /\ sleeping' = (bus = "asleep")
  /\ generation' = generation + 1
  /\ DropReports
  /\ UNCHANGED <<busVars, retry_state, ownerVars, eventq, notified, tx,
                 slotVars, todo>>

\* mark_link: signal_link and wake_tx.
SignalMarked ==
  /\ usb = "marked" /\ usb' = "idle"
  /\ Put("link") /\ notified' = TRUE
  /\ UNCHANGED <<busVars, linkVars, queueVars, ownerVars, tx, slotVars, todo>>

\* The host polls the endpoint and takes the report; the endpoint is free
\* before tud_hid_report_complete_cb runs.
TransferDone ==
  /\ usb = "idle" /\ bus = "on" /\ wire # <<>>
  /\ host' = [i \in NativeIds |->
                IF i = Head(wire).id THEN Head(wire).held ELSE host[i]]
  /\ wire' = <<>> /\ usb' = "done"
  /\ UNCHANGED <<bus, epoch, failures, linkVars, queueVars, ownerVars, eventq,
                 notified, tx, slotVars, todo>>

\* tud_hid_report_complete_cb, the section under the mutex.
ReportComplete ==
  /\ usb = "done" /\ usb' = "completed"
  /\ in_flight' = FALSE
  /\ UNCHANGED <<busVars, linkVars, packets, retry_state, ownerVars, eventq,
                 notified, tx, slotVars, todo>>

\* Mutant: the completion does not wake the worker.
SignalComplete_NoWake ==
  /\ usb = "completed" /\ usb' = "idle"
  /\ Put("output")
  /\ UNCHANGED <<busVars, linkVars, queueVars, ownerVars, notified, tx,
                 slotVars, todo>>

\* tud_hid_report_complete_cb: the output event and wake_tx.
SignalComplete ==
  /\ usb = "completed" /\ usb' = "idle"
  /\ Put("output") /\ notified' = TRUE
  /\ UNCHANGED <<busVars, linkVars, queueVars, ownerVars, tx, slotVars, todo>>

\* The transfer fails: the host did not get it.
TransferLost ==
  /\ usb = "idle" /\ bus = "on" /\ wire # <<>> /\ failures < MaxFailures
  /\ wire' = <<>> /\ failures' = failures + 1 /\ usb' = "lost"
  /\ UNCHANGED <<bus, host, epoch, linkVars, queueVars, ownerVars, eventq,
                 notified, tx, slotVars, todo>>

\* tud_hid_report_failed_cb for an input report, the section under the mutex.
ReportFailed ==
  /\ usb = "lost" /\ usb' = "dropped"
  /\ in_flight' = FALSE /\ packets' = <<>> /\ retry_state' = TRUE
  /\ UNCHANGED <<busVars, linkVars, ownerVars, eventq, notified, tx, slotVars,
                 todo>>

\* Mutant: the failure callback relies on an event that is not sent.
SignalFailed_Silent ==
  /\ usb = "dropped" /\ usb' = "idle"
  /\ UNCHANGED <<busVars, linkVars, queueVars, ownerVars, eventq, notified,
                 tx, slotVars, todo>>

\* tud_hid_report_failed_cb: signal_link, and no wake_tx.
SignalFailed ==
  /\ usb = "dropped" /\ usb' = "idle"
  /\ Put("link")
  /\ UNCHANGED <<busVars, linkVars, queueVars, ownerVars, notified, tx,
                 slotVars, todo>>

-----------------------------------------------------------------------------
(* The usb_hid_tx task.                                                    *)

\* tud_hid_ready: the device is configured and awake, the endpoint is free.
EndpointReady == bus = "on" /\ wire = <<>>

TxCanSend == Sendable /\ EndpointReady

\* Mutant: the worker takes the newest packet.
TxSend_Newest ==
  /\ tx = "run" /\ TxCanSend
  /\ packets' = SubSeq(packets, 1, Len(packets) - 1) /\ in_flight' = TRUE
  /\ wire' = <<packets[Len(packets)]>>
  /\ tx' = "decide"
  /\ UNCHANGED <<bus, host, epoch, failures, usb, linkVars, retry_state,
                 ownerVars, eventq, notified, slotVars, todo>>

\* tx_once: pop the oldest packet and hand it to the endpoint.
TxSend ==
  /\ tx = "run" /\ TxCanSend
  /\ packets' = Tail(packets) /\ in_flight' = TRUE
  /\ wire' = <<Head(packets)>>
  /\ tx' = "decide"
  /\ UNCHANGED <<bus, host, epoch, failures, usb, linkVars, retry_state,
                 ownerVars, eventq, notified, slotVars, todo>>

\* Mutant: a refused report is dropped and nobody is told.
TxRefused_Forgets ==
  /\ tx = "run" /\ TxCanSend /\ failures < MaxFailures
  /\ packets' = <<>> /\ in_flight' = FALSE
  /\ failures' = failures + 1
  /\ tx' = "signal"
  /\ UNCHANGED <<bus, wire, host, epoch, usb, linkVars, retry_state,
                 ownerVars, eventq, notified, slotVars, todo>>

\* tx_once: tud_hid_report refuses the packet; every queued report is dropped
\* and the owner has to send its current state again.
TxRefused ==
  /\ tx = "run" /\ TxCanSend /\ failures < MaxFailures
  /\ packets' = <<>> /\ in_flight' = FALSE /\ retry_state' = TRUE
  /\ failures' = failures + 1
  /\ tx' = "signal"
  /\ UNCHANGED <<bus, wire, host, epoch, usb, linkVars, ownerVars, eventq,
                 notified, slotVars, todo>>

\* tx_once finds nothing it may send.
TxNothing ==
  /\ tx = "run" /\ ~TxCanSend
  /\ tx' = "decide"
  /\ UNCHANGED <<busVars, usb, linkVars, queueVars, ownerVars, eventq,
                 notified, slotVars, todo>>

\* tx_once after a refusal: signal_link outside the mutex.
TxSignal ==
  /\ tx = "signal" /\ tx' = "decide"
  /\ Put("link")
  /\ UNCHANGED <<busVars, usb, linkVars, queueVars, ownerVars, notified,
                 slotVars, todo>>

\* tx_task: choose between waiting one tick and waiting for a notification.
TxDecide ==
  /\ tx = "decide"
  /\ tx' = IF Sendable THEN "poll" ELSE "wait"
  /\ UNCHANGED <<busVars, usb, linkVars, queueVars, ownerVars, eventq,
                 notified, slotVars, todo>>

\* ulTaskNotifyTake(pdTRUE, ...) returns and clears the notification.
TxWakes ==
  /\ tx = "poll" \/ (tx = "wait" /\ notified)
  /\ notified' = FALSE /\ tx' = "run"
  /\ UNCHANGED <<busVars, usb, linkVars, queueVars, ownerVars, eventq,
                 slotVars, todo>>

-----------------------------------------------------------------------------
(* The owner task: the sections of a handler, one per step.                *)

Flush   == <<"keyboard", "consumer">>          \* flush_native
Publish == <<"vendor">> \o Flush               \* hid_input_publish
Release == <<"clear">> \o Flush                \* clear_native; flush_native

Begin(op) == todo # <<>> /\ Head(todo) = op

\* Mutant: a host change does not release what the slots held.
LinkCalls_KeepsSlots(changed, retry, active) ==
  (IF retry THEN Release \o <<"dirty">> ELSE <<>>)
  \o (IF active THEN Publish ELSE <<>>)

\* on_link: the section under the mutex, and the calls it leads to.
LinkCalls(changed, retry, active) ==
  (IF changed THEN Release ELSE <<>>)
  \o (IF retry THEN Release \o <<"dirty">> ELSE <<>>)
  \o (IF active THEN Publish ELSE <<>>)

LinkSection(rest) ==
  LET active == mounted /\ ~sleeping /\ owner_started
  IN  /\ owner_generation' = generation
      /\ owner_active' = active
      /\ retry_state' = FALSE
      /\ todo' = LinkCalls(owner_generation # generation, retry_state, active)
                 \o rest
      /\ UNCHANGED <<busVars, usb, linkVars, packets, in_flight,
                     owner_started, notified, tx, slotVars>>

OnLink ==
  /\ todo = <<>> /\ eventq # <<>> /\ Head(eventq) = "link"
  /\ eventq' = Tail(eventq)
  /\ LinkSection(<<>>)

\* usb_hid_start calls on_link directly.
StartLink == Begin("link") /\ LinkSection(Tail(todo)) /\ UNCHANGED eventq

\* clear_native: macro_cancel, host_output_clear, every slot released.
ClearNative ==
  /\ Begin("clear") /\ todo' = Tail(todo)
  /\ packets' = <<>>
  /\ native' = [i \in NativeIds |-> Released(epoch)]
  /\ macro' = IF MacroActive THEN "release" ELSE "off"
  /\ UNCHANGED <<busVars, usb, linkVars, in_flight, retry_state, ownerVars,
                 eventq, notified, tx, inputs>>

\* Mutant: off by one at the end of the ring.
Room_OffByOne(id) ==
  Len(packets) <= (IF id = "vendor" THEN QueueSize - NativeReserve ELSE QueueSize)

\* host_output_send: the room a report of this id may use.
Room(id) ==
  Len(packets) < (IF id = "vendor" THEN QueueSize - NativeReserve ELSE QueueSize)

Accept(r) ==
  /\ packets' = Append(packets, r)
  /\ todo' = <<"wake">> \o Tail(todo)

\* publish: one vendor report if there is room, else nothing.
SendVendor ==
  /\ Begin("vendor")
  /\ IF Ready /\ Room("vendor")
     THEN Accept([id |-> "vendor", held |-> FALSE, born |-> epoch])
     ELSE todo' = Tail(todo) /\ UNCHANGED packets
  /\ UNCHANGED <<busVars, usb, linkVars, in_flight, retry_state, ownerVars,
                 eventq, notified, tx, slotVars>>

\* flush_native, one slot: a dirty slot is sent and becomes clean; it stays
\* dirty when it is not accepted.  A running macro owns the keyboard slot.
SendNative(i) ==
  /\ Begin(i)
  /\ IF native[i].dirty /\ ~(i = "keyboard" /\ MacroActive) /\ Ready /\ Room(i)
     THEN /\ Accept([id |-> i, held |-> native[i].held, born |-> native[i].born])
          /\ native' = [native EXCEPT ![i].dirty = FALSE]
     ELSE todo' = Tail(todo) /\ UNCHANGED <<packets, native>>
  /\ UNCHANGED <<busVars, usb, linkVars, in_flight, retry_state, ownerVars,
                 eventq, notified, tx, macro, inputs>>

\* host_output_send and macro_send_keyboard: wake_tx after the mutex.
WakeTx ==
  /\ Begin("wake") /\ todo' = Tail(todo)
  /\ notified' = TRUE
  /\ UNCHANGED <<busVars, usb, linkVars, queueVars, ownerVars, eventq, tx,
                 slotVars>>

\* on_link after a transport failure: every slot is sent again.
MarkDirty ==
  /\ Begin("dirty") /\ todo' = Tail(todo)
  /\ native' = [i \in NativeIds |-> [native[i] EXCEPT !.dirty = TRUE]]
  /\ UNCHANGED <<busVars, usb, linkVars, queueVars, ownerVars, eventq,
                 notified, tx, macro, inputs>>

\* map_remote with the press of an enabled macro button: the held output is
\* released first, and the macro timer starts the macro.
PressMacro ==
  /\ Begin("press")
  /\ todo' = (IF Ready THEN Release \o <<"pend">> ELSE Flush) \o Tail(todo)
  /\ UNCHANGED <<busVars, usb, linkVars, queueVars, ownerVars, eventq,
                 notified, tx, slotVars>>

PendMacro ==
  /\ Begin("pend") /\ todo' = Tail(todo)
  /\ macro' = "pending"
  /\ UNCHANGED <<busVars, usb, linkVars, queueVars, ownerVars, eventq,
                 notified, tx, native, inputs>>

-----------------------------------------------------------------------------
(* The owner task: the handlers.                                           *)

Handle(calls) ==
  /\ todo = <<>> /\ owner_started
  /\ todo' = calls

OwnerOnly == <<busVars, usb, linkVars, queueVars, ownerVars, eventq, notified, tx>>

\* Mutant: a completion does not retry what is dirty.
OnOutput_NoFlush ==
  /\ todo = <<>> /\ eventq # <<>> /\ Head(eventq) = "output"
  /\ eventq' = Tail(eventq)
  /\ UNCHANGED <<busVars, usb, linkVars, queueVars, ownerVars, notified, tx,
                 slotVars, todo>>

\* hid_input_output_ready on the output event.
OnOutput ==
  /\ todo = <<>> /\ eventq # <<>> /\ Head(eventq) = "output"
  /\ eventq' = Tail(eventq) /\ todo' = Flush
  /\ UNCHANGED <<busVars, usb, linkVars, queueVars, ownerVars, notified, tx,
                 slotVars>>

\* on_heartbeat: publish, then retry what is dirty.
Heartbeat == Handle(Publish) /\ UNCHANGED <<OwnerOnly, slotVars>>

\* hid_input_keyboard with a key that no macro claims: the raw report is
\* published, the slot changes, dirty slots are flushed.
Key(i, v) ==
  /\ inputs < MaxInputs /\ inputs' = inputs + 1
  /\ native[i].held # v /\ ~MacroActive /\ macro # "pending"
  /\ native' = [native EXCEPT ![i] = [held |-> v, dirty |-> TRUE, born |-> epoch]]
  /\ Handle(Publish)
  /\ UNCHANGED <<OwnerOnly, macro>>

\* hid_input_keyboard with a new press while a macro runs or waits: it stops. Such
\* presses need no bound of their own: a macro has to be started first.
KeyStopsMacro ==
  /\ MacroActive \/ macro = "pending"
  /\ Handle(<<"vendor">> \o Release)
  /\ UNCHANGED <<OwnerOnly, slotVars>>

\* hid_input_keyboard with the press of an enabled macro button.
KeyStartsMacro ==
  /\ inputs < MaxInputs /\ inputs' = inputs + 1
  /\ macro = "off"
  /\ Handle(<<"vendor", "press">>)
  /\ UNCHANGED <<OwnerOnly, native, macro>>

\* hid_input_mapping_changed, hid_input_macro_stop, set_mapping_mode: the
\* settings, the mode or the macro state changed and every key is released.
ReleaseAll ==
  /\ inputs < MaxInputs /\ inputs' = inputs + 1
  /\ Handle(Release)
  /\ UNCHANGED <<OwnerOnly, native, macro>>

\* hid_input_remote_ready(false): the remote is gone.
RemoteLost ==
  /\ inputs < MaxInputs /\ inputs' = inputs + 1
  /\ Handle(Release \o <<"vendor">>)
  /\ UNCHANGED <<OwnerOnly, native, macro>>

\* macro_send_keyboard: a macro stroke needs an empty queue and an idle
\* endpoint; it also becomes the content of the keyboard slot.
Stroke(v) ==
  /\ Ready /\ packets = <<>> /\ ~in_flight
  /\ packets' = <<[id |-> "keyboard", held |-> v, born |-> epoch]>>
  /\ native' = [native EXCEPT !["keyboard"] =
                  [held |-> v, dirty |-> FALSE, born |-> epoch]]
  /\ Handle(<<"wake">>)
  /\ UNCHANGED <<busVars, usb, linkVars, in_flight, retry_state, ownerVars,
                 eventq, notified, tx, inputs>>

\* macro_tick: press, release between strokes, release after a cancel.
MacroPress   == macro = "active"  /\ macro' = "typed"  /\ Stroke(TRUE)
MacroLift    == macro = "typed"   /\ macro' = "active" /\ Stroke(FALSE)
MacroRelease == macro = "release" /\ macro' = "off"    /\ Stroke(FALSE)

\* on_macro_tick: the pending macro starts; a running one ends after its last
\* operation.
MacroTick ==
  /\ todo = <<>> /\ owner_started /\ Ready
  /\ \/ macro = "pending" /\ macro' = "active"
     \/ macro = "active" /\ macro' = "off"
  /\ UNCHANGED <<OwnerOnly, native, inputs, todo>>

\* usb_hid_on_reset: the BLE stack lost its controller.
OnReset ==
  /\ todo = <<>> /\ owner_started /\ generation < MaxGeneration
  /\ owner_started' = FALSE /\ owner_active' = FALSE
  /\ generation' = generation + 1
  /\ todo' = <<"clear">>
  /\ UNCHANGED <<busVars, usb, mounted, sleeping, queueVars, owner_generation,
                 eventq, notified, tx, slotVars>>

\* usb_hid_start: the BLE stack is synced (again).  The bound leaves room for one
\* more link change.
Start ==
  /\ todo = <<>> /\ ~owner_started /\ generation + 1 < MaxGeneration
  /\ owner_started' = TRUE
  /\ generation' = generation + 1
  /\ todo' = <<"link">>
  /\ UNCHANGED <<busVars, usb, mounted, sleeping, queueVars, owner_active,
                 owner_generation, eventq, notified, tx, slotVars>>

-----------------------------------------------------------------------------
Section ==
  \/ StartLink \/ ClearNative \/ SendVendor
  \/ \E i \in NativeIds : SendNative(i)
  \/ WakeTx \/ MarkDirty \/ PressMacro \/ PendMacro

Handler ==
  \/ OnLink \/ OnOutput \/ Heartbeat
  \/ \E i \in NativeIds, v \in BOOLEAN : Key(i, v)
  \/ KeyStopsMacro \/ KeyStartsMacro \/ ReleaseAll \/ RemoteLost
  \/ MacroPress \/ MacroLift \/ MacroRelease \/ MacroTick
  \/ OnReset \/ Start

Callback ==
  \/ MarkLink \/ SignalMarked \/ ReportComplete \/ SignalComplete
  \/ ReportFailed \/ SignalFailed

Bus == (\E b \in {"off", "on", "asleep"} : BusChange(b)) \/ TransferDone \/ TransferLost

Tx == TxSend \/ TxRefused \/ TxNothing \/ TxSignal \/ TxDecide \/ TxWakes

Next == Section \/ Handler \/ Callback \/ Bus \/ Tx

Spec == Init /\ [][Next]_vars

(***************************************************************************)
(* Fairness.  Every task keeps running: a handler that started goes on,    *)
(* a callback returns, the worker runs, the macro timer fires.  A host     *)
(* that keeps the device awake keeps polling the endpoint.  The owner's    *)
(* event queue is FIFO, so other events delay a queued event but not for   *)
(* ever (strong fairness).  Neither the heartbeat nor an input is assumed. *)
(***************************************************************************)
Fairness ==
  /\ WF_vars(Section) /\ SF_vars(OnLink \/ OnOutput)
  /\ WF_vars(MacroLift) /\ WF_vars(MacroRelease)
  /\ WF_vars(Callback) /\ WF_vars(TransferDone \/ TransferLost) /\ WF_vars(Tx)

LiveSpec == Spec /\ Fairness
-----------------------------------------------------------------------------
(* Properties.                                                             *)

\* While the worker waits for ever and no notification is latched, a packet it
\* could send exists only if the task that put it there, or the callback that
\* freed the endpoint, has not reached its wake_tx yet.  A lost wake-up would
\* leave a key release in the queue until the next heartbeat.
NoLostWakeup ==
  tx = "wait" /\ ~notified /\ Sendable => usb = "completed" \/ Begin("wake")

\* in_flight is only set while a callback that clears it is still to come: a
\* transfer the endpoint holds, or a TinyUSB callback on its way.  Otherwise
\* the worker would wait for a completion nobody delivers and the bridge would
\* go silent with mounted set (mark_link, tud_hid_report_complete_cb).
InFlightEnds ==
  in_flight => wire # <<>> \/ usb \in {"mark", "done", "lost"}

\* No report reaches a host computer that was made for an earlier one: held
\* keys, macro text and debug reports of one session never replay after a
\* re-plug, although the queue and the slots outlive it (mark_link, on_link,
\* the generation test of host_output_send).
NoReplay == \A k \in 1..Len(wire) : wire[k].born = epoch

\* The host computer will believe v of slot i once it has taken every report on
\* its way: the last one for the slot says so, or else what it believes now.
EndsAs(i, v) ==
  LET way == wire \o packets
  IN  /\ (\A k \in 1..Len(way) : way[k].id # i) => host[i] = v
      /\ \A k \in 1..Len(way) :
           way[k].id = i /\ (\A l \in k+1..Len(way) : way[l].id # i)
             => way[k].held = v

\* The owner has learned of every loss: of the link change, of the transport
\* failure, and of the queue it is about to clear itself.
LossesKnown ==
  /\ owner_generation = generation /\ ~retry_state
  /\ usb \notin {"mark", "lost"}
  /\ \A k \in 1..Len(todo) : todo[k] # "clear"

\* No stuck key.  Whatever was dropped by suspends, failed transfers, clears
\* and full queues, a slot the owner considers sent (not dirty) is what the
\* host has or will have; a lost release is always remembered as dirty.
NoStuckKey ==
  LossesKnown => \A i \in NativeIds : ~native[i].dirty => EndsAs(i, native[i].held)

\* A link change or a failure always has an on_link run ahead of it: while the
\* owner's generation is behind or retry_state is set, the event is queued or
\* its sender is about to queue it.  Otherwise every send is refused for ever.
LinkEventComes ==
  owner_started /\ (owner_generation # generation \/ retry_state) =>
    \/ \E k \in 1..Len(eventq) : eventq[k] = "link"
    \/ usb \in {"mark", "marked", "dropped"} \/ tx = "signal"
    \/ \E k \in 1..Len(todo) : todo[k] = "link"

\* The link stays up for ever: a configured, awake bus and a synced owner.
LinkUp == bus = "on" /\ owner_started

InSync == \A i \in NativeIds : host[i] = native[i].held

\* Convergence.  When the link stays up and the remote rests, the host agrees
\* with the bridge's key state again and again between two heartbeats, at rest
\* or between the strokes of a macro: the output and link events alone carry
\* every retry.
Converges ==
  (<>[]LinkUp /\ <>[][~Heartbeat /\ ~KeyStopsMacro]_vars) => []<>InSync
-----------------------------------------------------------------------------
\* What is on its way to the host: the transfer, then the queue.  In these
\* terms the three tasks implement an ordered, at-most-once channel.
Channel == INSTANCE ReportChannel WITH
  Keys <- NativeIds, Reports <- [id : Ids, held : BOOLEAN, born : 0..MaxGeneration],
  Capacity <- QueueSize + 1, pipe <- wire \o packets, host <- host

\* The queue, the worker and the callbacks never reorder, repeat or invent a
\* report, whatever they interleave: every step is a step of the channel.
ImplementsChannel == Channel!Spec

\* What the output path never does, whatever the order of inputs, transfers and
\* link changes: the ring overflows, the worker sleeps over a packet it could
\* send, in_flight outlives its transfer, or a link change goes unnoticed.
OutputSafety ==
  /\ TypeOK
  /\ InFlightEnds
  /\ NoLostWakeup
  /\ LinkEventComes
=============================================================================
