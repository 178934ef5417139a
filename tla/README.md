# Verification of the Great Portable Monitor Remote bridge

A Bluetooth remote is used as keyboard and mouse of a computer through an ESP32-S3:

    remote --BLE (HID over GATT)--> ESP32-S3 firmware --USB HID--> computer
                                          ^                           |
                                          +-- Feature reports 5, 6 ---+-- settings application

This directory holds TLA+ modules of that program, the TLC runs that check them on small
instances, and TLAPS proofs. Every definition is translated from the source; `PROJECT.json`
names, for each definition, the lines it stands for.

## 1. The system

### Tasks and what they share

| task | runs | owns |
|---|---|---|
| NimBLE host task ("the owner") | GAP and GATT callbacks, `on_link`, `on_feature`, `on_output_ready`, heartbeat, macro timer | input engine (`native`, mouse queue, mode), keymap, macros, BLE state |
| TinyUSB task | attach / detach / suspend / resume, report complete / failed, GET_REPORT / SET_REPORT | nothing; writes the link state under `guard` |
| `usb_hid_tx` worker | `tx_once`, then waits for a notification | nothing; moves packets under `guard` |
| application: Qt thread | window, macro panel | the edited settings |
| application: `HidWorker` thread | HID handle, reconnect policy | the HID session |

The mutex `guard` protects the packet ring, `in_flight`, `retry_state`, the link state and the
generations. The owner's event queue (`ble_npl_eventq`) and the worker's task notification are
the only signals between tasks; both are latched, an event is queued at most once.

### Components

| component | state | operations | what makes it correct |
|---|---|---|---|
| USB output path (`usb_hid.c`) | ring of 16 packets, `in_flight`, `retry_state`, `generation` / `owner_generation`, `mounted`, `sleeping` | `host_output_send`, `tx_once`, completion / failure callbacks, `mark_link`, `on_link`, start / reset | no lost wake-up, no stuck key, no replay to another host, order, convergence |
| Feature requests (`usb_hid.c`) | one slot, semaphore, deadline | `feature_request`, `on_feature` | an answer belongs to its request; late requests do nothing; the slot is freed; USB never blocks |
| Input engine (`hid_input.c`, `input_codec.c`) | native slots, mouse queue and remainders, mode, macro arming | keyboard / mouse / sensor reports, heartbeat, clear, flush | held state equals what was sent; motion bounded and never replayed; mode changes release keys |
| Macro engine (`macro.c`, `macro_store.c`) | 28 slots, one upload, one run | BEGIN / CHUNK / COMMIT / STOP / READ / STATUS, `macro_tick` | a commit is exactly what one client sent; a stop leaves no key down |
| Keymap (`keymap.c`, `keymap_store.c`) | entries, revision, NVS blob | init with migration, read, apply | no lost update between two clients; memory never runs ahead of flash |
| BLE link (`main.c`) | scan / attempt / connection flags, candidates | scan, connect, security, disconnect, retry | always looking for the remote unless connected; one attempt at a time |
| HID client (`hid_client.c`) | GATT discovery cursor, subscriptions | service → characteristics → descriptors → CCCD chain, notifications | no input before encryption and bond; stale callbacks do nothing |
| Bond store (`bond_store.c`, `bridge_peers.c`) | failed writes, retry, remembered peer | write, overflow eviction, peer check | the remembered or a connected peer is never evicted; a failed write is never forgotten |
| Application worker (`worker.py`, `hid_session.py`, `connection.py`) | handle, target, retry timer, pending save | connect / disconnect / read / apply / macro commands, poll | no action after a disconnect was requested; an uncertain save is never repeated |
| Application protocol (`mapping.py`, `protocol.py`, `macros.py`) | — | read, check revision, write, read back; chunked upload | a reported success is what the device holds |
| Application window (`app.py`, `macro_panel.py`) | busy flag, dirty edits, snapshot | when which command is sent | edits are not lost or sent onto the wrong revision |
| Debug view (`protocol.py`, `debugging.py`, `debug_panel.py`) | last report, rows, counters | decode, batch, relabel, trim | losses, presses and counts are what happened |
| Input log, discovery, scripts | queues for display, none | logging, listing, building, flashing | — |

### How they interact

The remote's reports reach `hid_client`, which hands them to the input engine; the engine sends
what it wants held through the output path, by calls of the owner. The TinyUSB task and the worker
answer with events. The application talks to the bridge by Feature reports: the settings as a
whole, macros in chunks, each with a revision that the firmware compares. The window sends the
application's worker commands through a queue and gets signals back through Qt's event queue; the
flags `cancel_requested` and `macro_stop_requested` are shared without either.

### Where it is hard

Three tasks interleave around one ring while the host computer may suspend, go or be replaced
at any point; a key release that is lost in any of these leaves a key stuck. Recovery rests on a
handshake (`generation`, `retry_state`, the `dirty` bits) whose parts are set and read in
different tasks. A Feature request may time out at every point while the owner works on it with
the mutex released. BLE callbacks come late, in any order or not at all. Flash writes fail before
or after they took effect, and power is cut between them. Several applications write settings and
macros; answers get lost, devices change places, and the window goes on editing in between.
`PROJECT.json` lists each of these hazards at its line with the properties that cover it.

## 2. Modules

| module | models | role |
|---|---|---|
| `UsbHid` | `usb_hid.c` output path, keyboard and consumer slot of `hid_input.c`, the macro engine's use of the keyboard slot | component, three tasks |
| `ReportChannel` | what `host_output.h` promises the input engine | abstract specification of `UsbHid` |
| `UsbHidProofs` | — | theorems of `UsbHid`: type correctness, in-flight flag, wake-ups, link events, sessions, no stuck key, refinement of `ReportChannel` |
| `Feature` | `feature_request`, `on_feature` and the settings behind them | component, two tasks |
| `FeatureChannel` | `Feature` as the part `F` of a larger module | what TLC runs and `KeymapProofs` extends |
| `HidClient` | `hid_client.c`: discovery, subscription, keyboard notifications | component, part of `BleLink` |
| `BleLink` | `main.c` and what it keeps in flash, composed with `HidClient` | component, one task and its environment |
| `BleLinkProofs` | — | theorems of `BleLink` (first, what a GATT callback of `HidClient` can change), and of the bond store, `B` of `BondTables` |
| `BondStore` | `bond_store.c` over NimBLE's tables, the remembered remote, the security check | component, one task, crashes |
| `BondTables` | `BondStore` as the part `B` of a larger module | what TLC runs and `BleLinkProofs` extends |
| `MouseFlow` | the mouse slot of `hid_input.c` and its report in the output path | component |
| `MouseSlot` | `MouseFlow` as the part `M` of a larger module | what TLC runs and `HidInputProofs` extends |
| `HidInput` | `hid_input.c` with `input_codec.c`: modes, what is held, arming, starting and stopping of macros | component |
| `HidInputProofs` | — | theorems of `HidInput`, and of the mouse slot, `M` of `MouseSlot` |
| `Keymap` | `keymap.c`, `keymap_store.c` and the clients of `mapping.py` | component, flash, crashes, several clients |
| `KeymapRegister` | a register of settings with a revision | abstract specification of `Keymap` |
| `KeymapProofs` | — | theorems of `Keymap`, and of the channel to it, `F` of `FeatureChannel` |
| `MacroUpload` | `macro.c`, `macro_store.c` and the clients of `macros.py` | component, shared buffers, crashes, several clients |
| `MacroUploadProofs` | — | theorems of `MacroUpload` |
| `HidWorker` | `worker.py`, `hid_session.py`, `connection.py` | component, part of `KeyMapper` |
| `KeyMapper` | `app.py`: commands, answers, drafts; composed with `HidWorker` | two threads |
| `KeyMapperProofs` | — | theorems of `KeyMapper` |
| `MacroPanel` | `macro_panel.py` with the parts of `app.py` and `worker.py` that serve it | two threads |
| `MacroPanelProofs` | — | theorems of `MacroPanel` |
| `SettingsFormat` | an entry of the settings as 16 bits: `keymap.c` and `mapping.py` | pure operators |
| `SettingsEditor` | the key editor of `app.py`, composed with `SettingsFormat` | component |
| `SettingsProofs` | — | theorems of `SettingsFormat`, `SettingsEditor` and `DebugView` |
| `DebugView` | `protocol.py`, `debugging.py`, `debug_panel.py`, the batches of `worker.py` | component, two threads |
| `MC...` | — | instances for TLC, one per component |

### UsbHid

A step is one section under `guard`, or what a task does between two sections. The TinyUSB task
has a program counter `usb` (for example `mark_link` is `MarkLink`, then `SignalMarked`), the
worker has `tx`. The owner is the NimBLE event loop: one handler at a time, so `todo` holds the
sections the running handler still has to execute (`Publish`, `Flush`, `Release` are the lists of
sections of `hid_input_publish`, `flush_native`, `clear_native; flush_native`), and a handler
starts only when `todo` is empty. `bus`, `wire` and `host` are the environment: what TinyUSB
believes of the bus, the transfer in the endpoint, and the keys the host believes held.

Data: a report is its id, whether it holds a key, and the host session it was made in (`born`, a
ghost; `epoch` counts sessions). `packets` is the ring as a sequence. `native[i]` is a slot with
its dirty bit. The three stages of a macro stroke are the values of `macro`; script position,
repeats and delays are left out, so a macro may press, release and end whenever its timer fires.
A readiness test that the code makes twice in a row (`host_output_ready`, then again in
`host_output_send`) is made once, at the second place: the first has no effect of its own.
`hid_input_suspend` is called by nothing in the firmware, so `suspended` is false throughout.
Two consecutive `clear_native` calls (`on_link` after a host change) are one.

### Feature

The caller (`feature_request` on the TinyUSB task) and the owner (`on_feature`) each have a
program counter. Time is what is left of the deadline and of the caller's wait, in ticks. The
settings are a revision and a value; the flash commit inside `keymap_apply` takes any time,
because time passes between `Check` and `ApplyKeymap`, and it may fail. Link changes run on the
TinyUSB task and hence only between calls. Ghosts number the requests (`calls`, `executing`,
`answered`, `confirmed`).

### ReportChannel

A pipe to the host: accepted reports arrive in order, at most once; a contiguous part may remain
after a loss. `UsbHid!ImplementsChannel` maps `pipe` to the transfer in the endpoint followed by
the ring.

### HidClient and BleLink

Everything here runs on the NimBLE host task, so a handler is one action; what makes it hard is
the order in which the controller, the peer and the key store call it. `BleLink` extends
`HidClient`: `Encrypted`, `EncryptionFailed`, `Disconnected` and `OnReset` call `Started` and
`Stopped` (`hid_client_start`, `hid_client_stop`).

`table` is what the remote has: its HID characteristics in handle order with their kind,
properties and descriptors. `client` is the static structure with handles replaced by indices of
`table` and `map[]` by the number of blocks read; each known layout is one choice. `procs` are the
GATT procedures NimBLE has under way; the remote answers the oldest, which may call back again in
the same response or after others (`Again`). A stopped session leaves its procedures, and a
session started later on the same connection has theirs before its own: the entry of `chars[]` a
procedure was given as its argument (`pos`) and the characteristic it asked for (`attr`) are
recorded separately, as the code compares the two. `Refused` is every error and every answer the
code does not accept. Mouse and sensor-mode notifications are left to `HidInput`.

`scan`, `trying`, `link`, `peer` and `secure` are the controller and the link; the flags of
`main.c` are variables of their own, and `FlagsAgree` says how they relate. Requests that NimBLE
may refuse are disjuncts (`StartScan`, `ConnectOnce`, `Request`). A request to terminate a
connection has no effect of its own: `Disconnected` may come at any time, or never. The failure
returns of `on_sync` leave everything as it was, so they are the bridge that is not synced until
`OnSync`; a timer that cannot be armed is logged by the code and not modelled. An advertisement is
what `log_advertisement` takes from it: the device, ADV or SCAN_RSP, connectable, the name and the
service; one that does not parse changes nothing. `seen` is a ghost, cleared by
a new scan and by a connection. `ltk`, `failed` and `saved` are the part of the bond store and of
`bridge_peers` that `main.c` reads; `ltk` is the table NimBLE keeps in RAM, and its copy in flash, like
the eviction from a full one, belongs to `BondStore`. `NextSlot` wraps the counter when it is advanced
rather than when it is used.

### BondStore

NimBLE keeps the records in RAM and calls the bridge to copy them to flash, to make room in a full
table and to read one. Tables are sequences by `bond_count`; NimBLE's own write, copy and delete are
modelled from how `bond_store.c` uses them: a write whose copy fails stays in RAM, a deletion may
take the record from RAM and leave it in flash, or report success and take nothing. No event comes
between the writes of one pairing, but power may be lost at any point. `retry.*` only chooses log
lines and is left out; CCCDs are treated as persistent. After a restart a table has the order it
had, behind what a failed deletion left in flash (`Restored`). `BleLink` has what `main.c` reads of this.

### MouseFlow and HidInput

In `MouseFlow` one axis stands for the two that speed scales. A fraction of a step is carried over,
a report takes at most `Packet` steps, an entry of the queue is one state of the buttons, and an
overflow drops motion but never a last state. Ghosts count what the user moved and clicked and what
was dropped on purpose. Handlers are atomic: their sections are `UsbHid`'s, as are a suspended host
and macros that type. Refused reports come only before the user rests.

`HidInput` computes what the engine wants held (`native`); that the host gets it is `UsbHid`'s and
`MouseFlow`'s business. Buttons, modes (normal, cursor, not known yet), macro slots and their runs;
a button's press arms, starts or stops. The user is part of the model, so that reports carry what is
really held. OK is reported as a key in normal mode and as a click in cursor mode. More than six
buttons at once and motion are left out; which of several macros starts first is open; the script of
a macro is its start, its strokes and its end. After boot, a mode change or a save, a first press
only arms, by design.

### Keymap and MacroUpload

Both have the firmware, its flash and several clients. In `Keymap` a request is handled in the steps
`Store` / `StoreFails`, `Use`, with power cuts between; a failed store may have written. Older
settings lie in blobs of their own and are migrated in RAM. A client reads, compares, writes, reads
back (`save_settings`) and reports saved, conflict, or unknown. A transient read error at boot, and
a client that keeps its settings open over 2^16 saves, are not modelled.

In `MacroUpload` macros are sequences of chunks; upload buffer and response buffer are shared, the
token of an application stands for the random one of each upload and request (those of different
applications differ). Each way `macro_request` ends is an action, `Ask` sends and handles a request,
and the client takes its answer later, after others have been handled. Requests that are handled
after their caller gave up are `Feature`'s. A macro may be found running at any commit. The STATUS
exchange and `macro_validate` are left out. Once `MaxSaves` commits reached the flash, every further
one fails.

### HidWorker, KeyMapper and MacroPanel

The worker is a program counter `at` over the steps between which the window may set flags, devices
be unplugged and others save; commands and signals are queues. A device is a place, a serial number
and its settings. `KeyMapper` adds the window: a click is possible when `refresh_enabled` leaves
its control enabled, and a signal is handled as its slot does, the edited settings being one value.
`MacroPanel` is the macro editor with its own drafts, `pending` and `preserve_read`; its session is
open or not. Assumptions: serial numbers are distinct and usable; a path is not reused between the
enumeration and the open that follows; a retry's time comes when nothing else waits; READY
comes with the settings; fewer saves than there are revisions fall between a read and the save made
from it. Ghosts: `gen` in a save and in a settings signal is the connection it belongs to;
`outcome` says whether the device holds the save in doubt, or another save of a device with the
selected serial number has replaced it; `hasty` that the user has not always waited for a disconnect
to end, or has clicked on the stop button.

### SettingsFormat and SettingsEditor

`SettingsFormat` has no state: `Unpacked`, `Packed`, and what each side accepts. `SettingsEditor`
is the window's key editor: the profile in the widgets, both drafts, the baseline. Bridges hold what
applications of any kind sent, if the bridge takes it, or what `keymap_init` made of entries of older
firmware. `SumSet` adds up four bits, assumed to be 0..15. The byte of the mouse speed and the header
of the message are not modelled, nor the second format, which differs in the speed only.

### DebugView

Reports carry a sequence number and the state of the keys; the decoder compares with the last one.
A lost report, a repeated one, a full batch, a row limit and a relabelled recording can meet. At most
`MaxLost` reports get lost in all, fewer than the 2^16 sequence numbers can tell apart: the decoder
sees differences modulo `Seqs` only, and a longer loss is one it cannot count. Its variables and its
specification have names of their own (`debugMode` is `debug_mode`, `Absent` is `None`), as
`SettingsProofs` is about this side of the window and the editor both.

## 3. Runs

One run per component, the composed modules where components meet.

| run | properties | bounds |
|---|---|---|
| `usb` | `OutputSafety` (`TypeOK`, `InFlightEnds`, `NoLostWakeup`, `LinkEventComes`); `NoReplay`; `NoStuckKey`; `ImplementsChannel`; `Converges` | queue 2 (reserve 1), 3 link changes or restarts, 1 refused or failed transfer, 1 input and any number of presses that stop its macro |
| `ble` | `LinkSafety` (`TypeOK`, `Searching`, `FlagsAgree`, `SessionSecured`, `HeldNeedsSession`); `OnlyTheRemote`; `ReadyIsComplete`; `LinkLiveness` (`ScansAgain`, `DiscoveryEnds`) | 2 devices with 3 packets on 1 candidate slot, 2 attribute tables of 5 characteristics and of 2, 1 handle, 2 procedures |
| `feature` | `RequestSafety` (`TypeOK`, `ReplyIsOwn`, `SlotIsHeld`, `ReadIsCurrent`); `LateDoesNothing` (`BeginsInTime`, `ReadBackSettles`); `RequestLiveness` (`CallReturns`, `SlotIsFreed`) | 3 requests, timeout 2 ticks, 4 link changes or restarts, 2 values |
| `app` | `WindowSafety` (`TypeOK`, `SettledAgree`, `SessionIsTarget`, `JudgedBeforeReady`); `NoLostUpdate`; `NoFalseAlarm`; `NoEditLost`; `WindowLiveness` (`BusyEnds`, `Recovers`) | 2 devices, 1 path, 2 values, 3 revisions, 4 clicks, 1 stop, 2 mishaps, 2 signals waiting |
| `panel` | `TypeOK`; `DraftsKept`; `NoLostMacro`; `PanelLiveness` (`PendingEnds`, `RetryReads`) | 2 slots, 2 macros, 3 revisions, 1 stop, 1 mishap |
| `keymap` | `KeymapSafety` (`TypeOK`, `Durable`); `NoLostUpdate`; `SavedIsStored`; `ImplementsRegister`; `VerdictComes` | 2 applications, 2 values, 3 revisions, 2 saves, 2 faults, 1 power cut |
| `macro` | `UploadSafety` (`TypeOK`, `CommitIsWhole`, `ShownIsCurrent`); `CommitsAreOwn` (`StopDiscards`, `NoLostMacro`); `SavedIsStored` | 2 applications on 1 slot, 2 macros of 2 chunks, 3 revisions, 2 saves, 1 failed transfer, cancellation or power cut |
| `debug` | `ViewSafety` (`ViewTypeOK`, `GapsAreLosses`, `LabelIsRight`, `CountsMatchRows`, `PressesAlternate`) | 1 button, 1 key, 2 modes, 3 sequence numbers, batch of 2, 3 rows, 4 reports, 1 replug, 2 clicks |
| `settings` | `EditorSafety` (`TypeOK`, `SavedIsKept`, `AlwaysReadable`); `DirtyIsRight`; `EditsAreKept` (`SwitchKeeps`, `ShownIsRead`) | 3 buttons (both reserved ones), 1 modifier, 2 speeds, 9 sent values, 3 old entries |
| `mouse` | `MouseSafety` (`TypeOK`, `MotionExact`, `ClicksExact`, `EndsRight`, `PausedIsStill`); `Settles` | 1 step per report, speeds 1..3 of a unit of 2, queue 2, 2 states of the buttons |
| `bond` | `BondSafety` (`TypeOK`, `PairedIsStored`, `ResultsAreOfLink`, `SecuredIsUnblamed`); `EvictionIsRight` (`EvictsOldest`, `RemoteKeepsBond`); `WritesEnd` | 3 peers, 2 records per table, 1 CCCD, 1 entry of results, 2 faults, any number of power cuts |
| `input` | `InputSafety` (`TypeOK`, `HeldIsPressed`, `NoMixed`, `TypedIsReleased`, `StopRearms`); `StartIsFresh` | 4 buttons and a click, at most 2 held, a key map and macros for 4 slots |

A property followed by names in parentheses is their conjunction. An operator whose name has an
underscore is a faulty variant of the definition before the underscore: each of these was put in its
place and TLC found the property, or the conjunct, violated under the cfg of the run.
`PROJECT.json` keeps one of them for each property.

Each property is stated with its meaning and the code it is about in its module; `PROJECT.json` says
of each run what it shows.

Why the bounds are enough. A queue of two with a reserve of one has every case of the ring: empty,
one, full for debug reports, full. Three link changes are the host and the
owner coming up in either order and one more: a suspend, a detach, or the loss of the BLE stack. A
second host for an owner that never stopped needs four; TLC finds no error there either when
`MaxGeneration` is 4 and the specification `Spec` (2.0 million states), and `NothingReplays` is
proved for any number. The comparison of generations is an equality, so a longer history adds no
new case before the counter wraps (2^32 link changes, not modelled). One failure between two
link changes meets every state of the handshake. A wait of two ticks lets a request time out before,
during and after its execution; three requests are a timed-out one, its successor, and one more that
meets what both left.

The remote shows the service in its advertisement and its name in its scan response, so that its slot
has to merge both; the other device has the name without the service. On one slot, each of them takes
it from the other between any two packets of the remote. Two procedures are one of an earlier session
beside the one of this session. The table has two inputs with a report without a range and one without
a Report Reference between them, a protocol mode and a map.

Three revisions wrap within the runs. Two saves or faults with one power cut cover a failed save
that was written, a save over it and a restart between any two steps. One path for two devices
makes them change places; four clicks are connect, edit, save and one more to race with. A budget
of mishaps is shared by faults, moved devices and rivals, so that each meets each other one.
Three peers over two records need an eviction, with the oldest protected or not; two faults fill
the one entry of the results table, as fifteen fill the fourteen of the code. Speeds below, at and
above the unit give fractions, none, and splits.

Deadlock is not checked where the program or its bounded instance may stop: `usb`, `feature` and
`ble` (bounds used up, with liveness checked instead) and `app` (the application is closed).

### Fairness

`UsbHid!Fairness`: a section that a handler still has to run, a callback that has begun and the
worker are weakly fair (FreeRTOS tasks that are ready do run); the macro timer is weakly fair (its
callout re-arms itself); an awake host polls the endpoint, which is weakly fair completion or
failure. `OnLink \/ OnOutput` is strongly fair: the owner's queue is FIFO, so an event that is
queued is handled although other handlers are enabled in between. The heartbeat and inputs are not
fair. `Converges` additionally supposes that from some point on the link stays up, no press
stops a macro again, and no heartbeat comes: it states what the output and link events achieve between two heartbeats.

`Feature!LiveSpec`: the TinyUSB task runs and time passes; nothing is assumed of the owner, except
in `SlotIsFreed`, whose premise is that the owner runs.

`BleLink!LiveSpec`: the timer expires and its event is handled, GATT procedures are answered or
time out (NimBLE ends them after 30 s), a connection attempt ends (`CONNECT_TIMEOUT_MS`), and a
scan that is requested again and again is accepted at last. Nothing is assumed of the remote, the
pairing or the controller's resets.

`KeyMapper!LiveSpec`, `MacroPanel!LiveSpec`: both threads run; in `RetryReads` the user presses
Retry when the panel offers it. `Keymap!LiveSpec`: the owner finishes the request it handles, and
requests of an application are handled although others' come in between (strong fairness: the host
serves control transfers in turn). `MouseFlow!LiveSpec`: worker, endpoint, events and the heartbeat
run. `BondStore!Spec`: a write under way goes on, as it is one call of NimBLE.

## 4. Theorems

For every queue size, every reserve below it and every bound, from `QueueAssumption` and
`BoundAssumption` (`UsbHidProofs`):

| theorem | statement | argument |
|---|---|---|
| `TypeCorrect` | `Spec => []TypeOK` | `TypeOK` is inductive. One lemma per task (`CallbackTypeOK`, `TxTypeOK`, `SectionTypeOK`, `HandlerTypeOK`), one step per action; the ring bound rests on the guard of `host_output_send` and on `macro_send_keyboard` sending into an empty ring only. |
| `InFlightAlwaysEnds` | `Spec => []InFlightEnds` | Inductive with `TypeOK`: each callback that empties the endpoint leaves its own program counter as the witness, and `mark_link` resets the flag. |
| `WakeupNeverLost` | `Spec => []NoLostWakeup` | Inductive with `TypeOK`: every step that can make `Sendable` true either leaves a `wake_tx` ahead in `todo` or `usb`, or runs in the worker, which only sleeps after it has seen nothing to send. |
| `LinkEventAlwaysComes` | `Spec => []LinkEventComes` | Inductive with `TypeOK`: `Put` never removes an event, `OnLink` removes the link event only while it takes over `generation` and clears `retry_state`. |
| `OutputIsSafe` | `Spec => []OutputSafety` | The four above, which the run checks together. |
| `NothingReplays` | `Spec => []NoReplay` | `NoReplay` alone is not inductive: a packet is safe because of the generation at which it was queued. `SessionInv` says the same of the whole ring, that a detached bus has an empty endpoint and, after `mark_link`, an empty ring (`DetachedIsEmpty`), that the slots belong to the present host once the owner is up to date with a configured bus and is not about to clear (`SlotsCurrent`), and that `owner_generation <= generation`. |
| `NoKeyStuck` | `Spec => []NoStuckKey` | `Delivered` restates the property over `Ends`, whose lemmas say what appending a report (`EndsNewest`, `EndsOther`) and taking the oldest (`EndsDeliver`) do. A step that drops reports makes `Knows` false; the only steps that make it true again run after a clear or a re-dirty of all slots. |
| `ChannelImplemented` | `Spec => ImplementsChannel` | `ChannelStep`: every step is an accept, a delivery, a drop of one end of the pipe (`Cut`) or a stutter. `Sessions` bounds the ghost `epoch` by the number of link changes. |

From `ClientAssumption` and `LinkAssumption`, for every number of devices, candidate slots, handles,
procedures and attribute tables (`BleLinkProofs`). `FewProcs` (`MaxProcs <= 4`)
is an assumption of one theorem: 4 is NimBLE's default number of procedures, which
`sdkconfig.defaults` leaves alone. With so few, the procedures of earlier sessions ahead of a new one
cannot get as far as a subscription before the session sees their answers; with more, the invariant
does not exclude it:

| theorem | statement | argument |
|---|---|---|
| `LinkTypeCorrect` | `Spec => []TypeOK` | `Fits` strengthens the type of the client by `described \subseteq DOMAIN chars`, without which a Report Reference could be read of an entry that does not exist. `CallbackStep` (one lemma per callback) shows that each GATT callback leaves a client that fits and belongs to the same session (`Orderly`). |
| `SearchNeverDies`, `FlagsAlwaysAgree` | `Spec => []Searching`, `Spec => []FlagsAgree` | `LinkInv`: the two need each other, that an unsynced controller does nothing (`Quiet`) and that a connection excludes a scan and has a peer (`Apart`). |
| `OnlyTheRemoteConnects` | `Spec => []OnlyTheRemote` | `SeekInv`: a device has one slot (`OneSlot`), and during a scan its marks show nothing the device did not show (`Covered`); merging is monotone (`MergeFacts`). The known remote is exempt: its packets do not reach its slot. |
| `SessionsAreSecured`, `NothingOutlivesSession` | `Spec => []SessionSecured`, `Spec => []HeldNeedsSession` | `SessionInv` adds that `listening` and `active` follow `started` and that a session needs a connection (`ClientRuns`). |
| `LinkIsSafe` | `Spec => []LinkSafety` | The conjunction of these, `OnlyTheRemote` apart. |
| `ReadyMeansComplete` | `FewProcs` implies `Spec => []ReadyIsComplete` | `CompleteInv`. Procedures of earlier sessions on the connection still call back, and the tests the callbacks make cannot tell all of them from the session's own. So an active session waits behind them (`Waiting`), is alone and goes through its reports in order (`Alone`), or one has come between, and then something under way fails the session before the keyboard is subscribed: a second search or list (`SearchesTwice`, `ListsTwice`, `ListsAgain`) or a CCCD it did not read (`ReadsEarly`). One lemma per case says what every callback makes of it (`WaitingStep`, `AloneStep`, `SearchesStep` and so on). |

From `StoreAssumption` (finitely many peers, at least one bond), for every table size, number of
result entries and faults (second half of `BleLinkProofs`):

| theorem | statement | argument |
|---|---|---|
| `BondIsSafe` | `B!Spec => []BondSafety` | The links secured with a key that is only in RAM (section 5) are not those of `PairedIsStored`, which is about the connection that made the key. `BondInv` follows a record of a pairing from the queue to flash or to a result (`PairingOK`): each is still to be written, in flash, or known to have failed, and a full result table condemns every peer. Of the latter the security check passes none, and once a link is secured (`SecuredOK`) no key is exchanged on it, because it has one, and so no result is added either (`SecuredIsUnblamed`). The entries of the results go with the link; `results_exhausted` stays until the host resets. That what is in flash fits into the table (`FlashFits`) makes a restart keep the type. |
| `EvictionIsAlwaysRight` | `B!Spec => EvictionIsRight` | `SelectedFacts`: whoever is selected is inactive and, in a security table, behind active peers only; `DeletedFacts`: a deletion takes no record but its own, at whichever type it fails. That the key of the remembered remote is in RAM while it is in flash (`RemoteHeld`) is needed for the copy of the table after another peer's write. The lemmas on tables (`Removed`, `Joined`, `Ordered`) say what deleting, appending and reading back do to a sequence without repetition. |

From `KeymapAssumption`, for every number of applications, contents and revisions (`KeymapProofs`):

| theorem | statement | argument |
|---|---|---|
| `TypeCorrect` | `Spec => []TypeOK` | `TypeOK` is inductive, the firmware's and the clients' steps apart. |
| `DurableAlways`, `SavedMeansStored` | `Spec => []Durable`, `Spec => SavedIsStored` | `Inv` adds what is known of a save under way (`SavingOK`): it is one revision after the settings in use, was made from them, and flash has it if it was stored. |
| `NothingIsLost` | `Spec => NoLostUpdate` | An application whose revision matches has seen the very contents. This cannot be an invariant of revisions alone, as they wrap; `SeenOK` counts: the revisions from what an application has read to the settings in use, and the one that may yet come into use without another save (`Coming`), are at most as many as the saves begun, and these are fewer than there are revisions. |
| `KeymapIsSafe` | `Spec => []KeymapSafety` | From `TypeCorrect` and `DurableAlways`. |
| `Refinement` | `Spec => ImplementsRegister` | A step of the settings in use is a step of `KeymapRegister`, every other one a stutter. |

From the assumptions of `SettingsEditor`, for every set of buttons, actions, modifiers, sent values
and old entries (`SettingsProofs`):

| theorem | statement | argument |
|---|---|---|
| `RoundTrip`, `SameRules` | what the application accepts the bridge accepts and gives back; on values below 2^13 both judge alike | The three fields of a value do not overlap. |
| `TypeCorrect`, `Kept` | `Spec => []TypeOK`, `Spec => []SavedIsKept` | `Inv` says that what the widgets show and each draft has can be sent for its button and profile; `PopulateOK` and `EditedOK` are its two halves, showing a profile and taking it back. |
| `NeverUnreadable` | `Spec => []AlwaysReadable` | `HeldReadable`: what a bridge takes or has migrated is what `Snapshot.decode` accepts (`MigratedReadable`, `SameRules`). |
| `EditorIsSafe` | `Spec => []EditorSafety` | From the three above. |
| `DirtyAlwaysRight`, `EditsKept` | `Spec => []DirtyIsRight`, `Spec => EditsAreKept` | `FullInv` adds `AllShown`: the four boxes can show the modifiers of every entry a draft has, without which taking the widgets' contents back would change an entry nobody edited. `BoxesAssumption` states it of what enters the drafts: defaults, what `decode` accepts and what a bridge migrates. |

From `DebugViewAssumption`, for all finite sets of keys, labels, sizes of a batch and of the history
and bounds (second half of `SettingsProofs`):

| theorem | statement | argument |
|---|---|---|
| `ViewTells` | `ViewSpec => []ViewSafety` | Rows, batches and waiting events are in three queues, and what follows a row may be in any of them. `FlowInv` says that there is one stream `F` that all three are parts of (`Laid`). In it decoder runs do not go back and have one label each (`Runs`), the changes of a key alternate unless an event was left out (`Alternates`), what the decoder holds is what the last change said (`Ends`), and a signal of the device or an end of the recording separates runs (`Meet`), so that a batch that is not shown takes nothing out between two rows that belong together. One lemma for each thing that happens to the stream: `CutFlow` (a reset), `ReceiveFlow`, `AppendFlow`, `ChangeFlow`, `ConnectFlow`, `SkipFlow`, `ShowFlow`; what survives when some of a stream goes is `EmbedAlternates` and `EmbedEnds`. `LossInv`: the numbers of two reports that follow each other on the wire, or of the last one read and the next, lie no further apart than what was lost (`Spaced`), so the difference modulo `Seqs` is the true one (`Wrapped`, `DeltaCounts`) and `gaps` is exact (`ConsumeExact`). `LabelInv` says of batches and waiting events what `LabelIsRight` says of rows. `PressedAdds` counts the presses in a history made of two parts. |

From `ChannelAssumption`, for every timeout, number of requests and of link changes (second half of
`KeymapProofs`; definitions of `Feature` are those of its instance `F`):

| theorem | statement | argument |
|---|---|---|
| `RequestIsSafe` | `F!Spec => []RequestSafety` | One slot, one semaphore and one payload serve all requests, a late completion included. `FeatureInv` says who has the slot at each moment (`SlotIsPassedOn`), that a completion the caller can take is of its own request (`CompletionIsOwn`: the drain before posting and `busy` exclude the others), and that the payload is what the request that went well has read (`PayloadIsFresh`). |
| `LateNeverHarms` | `F!Spec => LateDoesNothing` | From `DeadlineIsEarlier`, the owner's deadline is never later than the end of the caller's wait, and `ConfirmedIsOlder`, a request in the slot is later than every read that was returned. |

From `InputAssumption`, for every finite set of buttons, key map and set of slots with a macro
(`HidInputProofs`):

| theorem | statement | argument |
|---|---|---|
| `InputIsSafe` | `Spec => []InputSafety` | `Inv`: what the engine takes for held is held (`SeenIsHeld`), outputs are of mapped buttons and none while a macro is under way (`OutputsAreMapped`), an armed button that may start a macro has been up since the last clear, or the engine lost track of it (`ArmedAreFresh`), and a button whose release was reported may start its macro (`Rearmed`). |
| `StartsAreFresh` | `Spec => StartIsFresh` | From `ArmedAreFresh`: only an armed button starts a macro, and the report that starts it is mapped over what was armed before. |

From `MouseAssumption`, for every queue length, report size, set of speeds and movement (second half
of `HidInputProofs`; definitions of `MouseFlow` are those of its instance `M`):

| theorem | statement | argument |
|---|---|---|
| `MouseIsSafe` | `M!Spec => []MouseSafety` | `MotionExact` and `ClicksExact` equate a ghost that each step moves by a little with what queue and report add up to. `Sum` is a recursive function; it is the last of the totals of a queue, which exist and are unique because a least exception would have none before it (`Least`, `TotalsExist`), and so an append, a tail or another movement changes it as they should (`SumAppend`, `SumTail`, `SumMoving`). Then `SentFacts`: a report and what it leaves owe and tell what the slot did; `MovedFacts`: a movement adds `delta * speed` and at most one change, unless it is clamped, overloaded or replaces a change not yet told, where the ghosts are counted anew. `MouseInv` adds that neighbouring entries differ in their buttons and the newest has the slot's (`SlotOK`), and that a slot with nothing to send has nothing to tell (`Rests`), from which `EndsRight` follows. |

From `MacroUploadAssumption` and `NoneAssumption`, for every number of applications and slots, every
macro and every length (`MacroUploadProofs`). `MaxSaves < Revisions`: a revision comes round after
2^16 saves.

| theorem | statement | argument |
|---|---|---|
| `MacrosAreWhole` | `Spec => []UploadSafety` | Two applications share the upload and the response buffer. `UploadOK`: an upload whose application is still at its exchange is the beginning of the macro that one means; `ResponseOK`: a piece that may yet be taken is of the macro in use. Revisions wrap, so equality identifies nothing: `ShownOK` and `PartOK` count the saves since a revision was seen (`Recent`, `Steps`), a failed save that a restart may bring into use included (`Coming`). |
| `CommitIsOwn` | `Spec => CommitsAreOwn` | From `UploadOK` and `ShownOK`. |
| `SavedMacroIsThere` | `Spec => SavedIsStored` | From `DeviceOK`: flash has the macro in use or the one after it. |

From `WorkerAssumption` and `WindowAssumption`, for all devices, paths, settings and bounds
(`KeyMapperProofs`). `DistinctSerials` says that each device reports a usable serial number of its
own, as `usb_hid.c:313` gives it one; `FewSaves`, that all saves together (`MaxMishaps + MaxClicks`) are fewer
than the 2^16 revisions. The actions of the worker are first classified by what the window notices
of them (`WorkerKinds`).

| theorem | statement | argument |
|---|---|---|
| `WindowIsSafe` | `Spec => []WindowSafety` | `SettledAgree` speaks of moments when nothing is under way; `WindowOK` says what is under way in all others: a window that is leaving has a disconnect or its answer on the way (`LeaveOK`), a worker that is told to give up has nothing or a disconnect to come, and one after each connect (`CancelOK`), the last signal frees the controls (`FreeOK`), and the signals end in READY if and only if a session is open (`ShowOK`). The order of generations (`GenOK`) keeps the answer to a disconnect from being dropped. `SessionIsTarget` rests on `TargetOK`: whoever is at the path to be opened has the serial number selected. |
| `NoAlarmIsFalse` | `DistinctSerials` implies `Spec => NoFalseAlarm` | `HeldOK`: while a device holds the save in doubt, every device with the selected serial number has exactly what the application expects to read, and so has what was read before the STATUS exchange. |
| `NoUpdateIsLost` | `DistinctSerials` and `FewSaves` imply `Spec => NoLostUpdate` | `FreshOK`: settings read in the present connection that are on the way to the window, shown, waiting in an apply command or in the worker's hands are at most as old as those of the device, and the same if their revision is. The window's part needs `AnnouncedOK`, that it shows a connection before that connection's settings come, or is leaving and drops them; the device's part `CountOK`, that revisions have not come round: each was a mishap or is a command, waiting or begun. |
| `NoEditIsLost` | `Spec => NoEditLost` | No invariant about drafts alone is inductive: what may overwrite one is an answer that has yet to come. `EditOK` follows each request through both queues. While READY is shown (`ReadyOK`), at most one is under way, as a command, in the worker's hands or as its answer, and the controls stay disabled until that answer or the loss of the link; in every other state (`UnreadyOK`) no answer to the user is on its way, a READY on its way is followed at most by the loss of its link, and a request the loss has overtaken will be refused (`TryingOK`). A disconnect is the last command and its signal the last one (`LeavingOK`), which is where a user who waits for it is needed. |

From `PanelAssumption`, for all slots, macros, revisions and bounds (`MacroPanelProofs`). `FewMishaps`
says that the clicks on the stop button, the saves of other applications and the other mishaps
(`MaxStops + MaxMishaps + 4`, 4 for what a new session brings) are fewer than the 2^16 revisions of a
slot.

| theorem | statement | argument |
|---|---|---|
| `TypeCorrect` | `Spec => []TypeOK` | `TypeOK` is inductive; one lemma each for the user, the window and the worker. |
| `NoDraftIsLost` | `Spec => DraftsKept` | Drafts put aside change only when a slot is left or entered (`DraftSteps`) and differ from what the device had (`AsideOK`). The draft on the screen is replaced by answers, so `Orderly` follows the request under way: without a stop there is at most one, as a command, at the worker or as its answer (`OneOK`); it is of the slot on the screen, a save has the macro on the screen, a read keeps the draft unless there is none or the user agreed (`WaitOK`); and a window that waits for nothing has no answer on its way, because a new session is announced only after the old one's loss and when nothing is under way (`LinkOK`). |
| `NoMacroIsLost` | `FewMishaps` implies `Spec => NoLostMacro` | The device compares the revision a save names with its own, but revisions wrap, so equality identifies nothing by itself. `SaveInv` follows every revision the application has read from the signal that brings it (`EventsKnown`) over the panel (`PanelKnown`) and the waiting commands (`CommandsKnown`) to the worker (`AtKnown`): it belongs to the macro beside it (`Fits`), and the saves since, with those that may come before it is used, are fewer than there are revisions. What may come is counted from what is under way: commands, the one begun, signals that let the user ask again, mishaps left. `CountOK` bounds that by what a new session brings and the stops, which alone add to it. |

Every invariant and every safety property of the runs has a theorem. Only model-checked is liveness
under fairness, which is out of the prover's reach. `ReadyIsComplete` is proved under `FewProcs` only,
and no run tries more than 2 procedures: for builds of NimBLE that keep more than 4 nothing is
claimed.

## 5. Known deviations

Where the code does something else than a document, comment or test of the repository says, the
properties of the runs are stated with the exception. Further instances, not part of the runs, show
some of them: TLC finds the property violated.

| where | what | said otherwise | shown by |
|---|---|---|---|
| `usb_hid.c:242` | The deadline is compared once, before the flash commit, and the caller waits exactly as long; a commit under way when the wait ends still takes effect. The busy slot keeps other requests out (`SlotIsHeld`) and a read-back settles the matter (`ReadBackSettles`). | `usb_hid_test.c:121`: "A timed-out request may not overwrite the next request or commit late." | `MCFeature_late.cfg`: `NoLateCommit` |
| `app.py:343` | Any macro answer ends the window's busy state; the answer to a stop frees the controls while the worker is at a request made after the stop, and edits made then are overwritten by its answer. | `tests/test_macros.py:292`: "test_app_connection_queues_read_and_keeps_controls_busy_until_result" | `MCKeyMapper_stop.cfg`: `BusyUntilResult`; `NoEditLost` has `~hasty` |
| `app.py:343` | After a disconnect the answer to a macro request frees the controls that belong to the next connect, so that Connect can be clicked twice; a save clicked in the first connection is then written to the device of the second. | the same test; `app.py:618` saves what the window shows | `MCKeyMapper_twice.cfg`: `SavesWhereShown`; `NoLostUpdate` has `pendingSave.gen = generation` |
| `worker.py:169` | A stop refused for want of a device leaves `macro_stop_requested` set: later reads and saves are cancelled until another stop succeeds. | `python/README.md:126`: "실패하면 **다시 시도**로 재확인할 수 있습니다" (after a failure, Retry checks again) | `RetryReads` has `stops = 0` |
| `macro_panel.py:318` | The answer for a slot the user has left, which a stop's answer makes possible, is ignored and `pending` never cleared: the new slot is not read. | `python/README.md:126`: the settings of a chosen button are read automatically | `PendingEnds` ends with `stops > 0` |
| `macro_panel.py:338` | `problem` clears `preserve_read` whichever command failed; after a failed stop the answer of an automatic read replaces the draft. | `python/README.md:141`: "자동으로 장치 설정을 읽어도 작성 중인 내용은 유지합니다" (what is being written is kept) | `DraftsKept` has `stops = 0` |
| `hid_input.c:327` | A saved setting forgets that HOME is held; until it is reported again the pointer moves. | `README.md:50`: while HOME is held, movement is dropped | `MCMouseFlow_held.cfg`: `HeldIsStill` |
| `bond_store.c:70` | A disconnect forgets that the copy of a key to flash failed, while NimBLE keeps the key in RAM: the next link with it is called secured and the peer remembered, though a restart loses the key. Rests on NimBLE keeping its record. | `docs/FIRMWARE.md:38`: afterwards it reconnects with the stored bond | `MCBondStore_lost.cfg`: `SecuredIsStored` |
| `hid_input.c:111` | A change of the mode or the settings zeroes the held buttons; a mouse report then arms them all, and the next keyboard report starts the macro of a button held all along. | `python/README.md:138`: it starts only when the button is released and pressed anew | `MCHidInput_rearm.cfg`: `StartIsAnew`; `StartIsFresh` has `missed` |
| `hid_input.c:151`, `hid_input.c:287` | A stop by another button zeroes `macro_down`. A stop by the application before the next report takes it that no button is held and arms all; the next report starts the macro of a button held all along. | `hid_input.c:288`: "Held buttons remain disarmed until released, including after an explicit stop or TX failure." | `StartIsFresh` has `missed`, set in `Rested` |

## 6. Not modelled, and why

The input log is diagnostic output through a queue that drops; nothing depends on it. Discovery's
classification of devices, build information and platform detection are stateless filters (the
identity rule of discovery is in `HidWorker`). `input_sensor_mode` and `input_mouse_decode` check one
message without state. The position in a macro's script, repeats and delays are left out: what they
decide is when the next stroke comes, and any time is modelled. The build, flash, monitor and release
scripts are sequential and drive external programs. HID descriptors, the report map and the layout of
the window are data. TinyUSB, NimBLE, FreeRTOS and the operating system's HID stack are modelled by
how the code uses them.

Between the enumeration of the devices and the open of a path another device may get the path, and a
click names a path of a list that may be old; nothing in the code looks again, so there is no claim
to check.

Smaller things left out: a reset of the USB bus that TinyUSB handles without a detach callback (a
detach and an attach are modelled); that a READY puts the path the device was found at into the
selected entry of the list (`app.py:552`; with the run's one path it is the same); and exceptions in
the worker other than `OSError` and `ValueError` (`worker.py:138`, `worker.py:217`), which would be
faults of the program itself.
