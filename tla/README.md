# A verification project for mesh-gw

mesh-gw connects to Meshtastic radios over BLE and offers them as a JSON REST
API, a WebSocket event stream, MCP tools and TCP gateways. Everything runs on
one asyncio loop: between two awaits a task runs alone, and every await is a
point where another task, a request or the radio can come in between. That is
where the hard behaviour of the program is, and what these modules model.

## 1. Inventory

| Part | State it keeps | Operations | Talks to |
|---|---|---|---|
| `core/ble_device.py` BleDevice | `_state`, client, connection / notify / helper tasks, retry counters, OTA and FROMNUM events, session data, region flag | `start`, `stop`, `trigger_ota`, `retry_pair`, `update_config`, `send_*`, `purge_nodedb`, the connection loop | radio (bleak), TcpGateway, the shared event queue |
| `module/device_manager.py` DeviceManager | `_devices`, subscriber queues | `reconcile`, `reload_config`, `stop_all`, `add`/`remove`, `subscribe` | BleDevice, config file |
| `module/server.py` | drain loop, WebSocket loops | REST handlers, `/events` | DeviceManager, AppRouter, config file |
| `core/app_router.py` AppRouter | node cache, one subscription | decode packets, emit typed events, forward the admin passkey | DeviceManager queues, BleDevice |
| `core/ota_session.py`, `core/nordic_dfu_session.py` | transfer position, pending notifications, receipts | handshake and transfer of a firmware image | bootloader |
| `core/tcp_gateway.py` | server, client set, frame buffers | accept, frame, broadcast, stop | BleDevice |
| `core/methods.py` | (the caches of the device) | config, owner, channel, text, position methods, purge | BleDevice |
| `module/server.py`, firmware files | one directory for each model, a task for each download | download, upload, delete, request to flash | file system, BleDevice |
| `core/bridge_config.py`, `core/config.py` | YAML file | load, update, save | file system, DeviceManager |
| `core/claude_daemon.py` | history, busy flag | answer trigger words | gateway REST / WS |
| `core/state.py`, `core/server.py`, `core/ota.py`, `core/mqtt_proxy.py`, `core/mqtt_publisher.py`, `core/stats.py` | legacy single-device state | not wired into `module/` | |
| `core/mcp_server.py`, `core/schema.py`, `core/sections.py`, `core/ble_agent.py`, `cli/`, `dashboard/`, `core/static/` | none or presentation | | |

What makes each part correct:

* **BleDevice**: the state shown is what the task is doing; no crash, early
  return or cancellation leaves a dead device looking busy; retries are
  bounded and busy states end; `stop()` returns and leaves nothing behind; an
  update has the radio's only link; no notification of the radio is missed.
* **start()/stop()**: one connection task and one listener per device, both
  reachable by `stop()`, however calls overlap.
* **DeviceManager**: every device that runs is registered, and after a reload
  the devices are those of the configuration.
* **Event path**: a subscriber sees the events of a device in order, and what
  it shows in the end is what the device is.
* **Requests to a radio**: what the gateway shows of the radio is what the radio
  has; a write changes what it was given and nothing else; an answer of success
  means that the radio took it.
* **TCP gateway**: every connection is closed by `stop()`, every handler ends.
* **Firmware files**: what a device is flashed with is a whole image, the one that
  was announced; whoever started a download hears how it ended.
* **Configuration file**: what was answered as saved is there after a restart.
* **Update protocols**: success means an image the bootloader has found right;
  the stream stays in reach of the receipts; a session returns whatever the
  bootloader does, and succeeds when nothing goes wrong.

PROJECT.json lists the hazards that matter most, each at its line, with the
properties that would catch it going wrong.

## 2. Modules

### BleStates
The states of a device, the table `_LEGAL` and what the two crash handlers make
of a state (`Recovered`). Pure data, used by the other modules.

### BleDevice
The connection task of one device. `pc` names the await the task is suspended
at, and an action is what the task does from that await to the next one. So the
two transitions SCANNING and CONNECTING of the loop's head are one action, and
OTA_ERROR, OTA_COMPLETE and OTA_BOOTLOADER_STUCK, which the code leaves without
an await, are seen only in the guards of the action that passes through them:
`Via(s, t)` asks `_LEGAL` for both moves. Every transition asks `_LEGAL`; where
the code's transition is refused (a retried sync, an unreadable firmware file)
the action is the exception handler the code runs into.

`task.cancel()` is the variable `cancel`. `CancelDelivered` has one disjunct per
kind of place: outside a session nothing handles the cancellation; inside, the
`finally` blocks run; where the task awaits another task it has cancelled,
`suppress(CancelledError)` swallows it. `stop()` is the variable `stopPc`: it
suspends only when what it awaits is alive (`AtHelpers` ... `AtEnd`), so it may
run through several of its steps in one go.

The radio, BlueZ and the user are nondeterministic: each await returns any of
its outcomes. Connected clients are two variables, `link` (the client of the
session) and `otaLink` (the client of an update); a client that the code loses
track of is noted in `leaked`, with the await it happened at.

Abstracted: the content of packets and events, names, the passage of time (a
timeout may end any wait it guards), the number of helper tasks beyond two, and
the MTU and priority exchange, which never fails a session.

### BleLifecycle
The promise to the consumers: off, linking, ready, updating, blocked. BleDevice
implements it under the mapping `PhaseOf(state)`.

### DeviceCalls, DeviceObject
`start()` and `stop()` of one device, called by any number of requests. An
action is what a call does up to its next await: `start()` suspends while the
gateway binds, `stop()` for the helper tasks, for the connection task and for
the gateway. A call names the task and the gateway it creates, so `connTask = c`
says whose task `_conn_task` refers to. The connection task is BleDevice's,
reduced to the states of the usual path: what matters is that all tasks of a
device share `_state`, and that one ends some time after it is cancelled.

`overlapped` is a history variable: a `start()` has overlapped another call. The
code holds no lock, so the promises that need one are stated for histories
without such an overlap (`Serial...`, `StopIsComplete`); `stop()` calls may
overlap each other in them, as many as there are. `CallsEnd` is stated for every
history. A task that is cancelled may swallow that where BleDevice's task does
(`TaskSwallows`), and a client may hold the gateway that is being closed
(`"held"`): both keep a `stop()` waiting, and `CallsEnd` says that nothing else
does.

DeviceObject is what the registry may assume of such a device: it runs, has ended
by itself with its gateway still open, is being stopped, or is at rest.
`Seen` maps the calls, the task and the socket to that, and `ServesRegistry` says
that DeviceCalls implements it while no `start()` overlaps another call.

### DeviceManager, MCDeviceManager
The registry and the requests that change it. `turn` is the event loop: a
request keeps it from one await to the next. `devices[a]` names the request
that created the object registered for `a`, `run[r][a]` is what that object
does; that an object may be replaced while another request still holds it is
the point of the module. A request keeps in `req` what it has taken from the
file and from `_devices` before it suspends. `start()` and `stop()` of one
object are two steps here, those of DeviceObject, and all of DeviceCalls there.
The file may be edited at any moment, a start may fail, a device's task may end by
itself; `stop()` then still suspends if the gateway has clients (`"ended"`).
The shutdown has fifteen seconds: `ShutdownCut` ends it where the cancellation of
`stop_all()` meets the wait for a gateway. Where it meets the wait for a task
`stop()` swallows it and goes on, which is no step here.
MCDeviceManager adds the symmetry of requests and addresses, which no property
tells apart.

### NotifyDrain
How one session reads the radio. Bleak calls `_on_fromnum` for each
announcement, and that only schedules `_fromnum_event.set()`: `calls` counts the
calls scheduled and not run. A read that finds nothing is two steps, the read
and the answer, since packets may be announced in between. `late` marks a packet
queued in READY. `IdleTimeout` looks at the link and does not read.

Abstracted: the content of packets, and the refreshes of the passkey after the
first, whose answers arrive like mesh packets.

### EventFanout
The path of an event: a device puts it in the shared queue, the drain loop
broadcasts it to the subscribers' queues, and a client's send loop takes it from
there. All queues are bounded and drop what does not fit; `lost` says
whether the last state event passed a client by: only the last one decides what
a client shows in the end. The handler of `/events` sends a
snapshot and then subscribes, and both are awaits; its two loops end by each
other, its topics may change at any time, a slow client leaves its queue full.
AppRouter is one more subscriber, which writes what it derives from a packet
back to the shared queue. One client is enough: the router is its neighbour, and
`Broadcast` treats subscribers alike.

Abstracted: what an event says beyond the state it announces, the filter by
device (one device), the router's node cache, which only REST reads see, and
the passkey it hands back to the device.

### FirmwareTransfer
Both update protocols against one bootloader, since they differ in what the
session waits for and not in what surrounds it; `protocol` and `prn` are chosen
once. `pc` names the await. What the session writes waits in `wire`, what the
bootloader notifies in `air`, what the callback has queued in `inbox`; a receipt
only sets `receipt`, which the session clears after the write of a packet, so
that one that comes earlier is forgotten. Wherever a session finds the link gone
it raises: OtaSession lets the exception out, NordicDfuSession makes it an
error, and after the validation a success. The bootloader is external and does
the least a bootloader of either kind does: it takes what is written in order,
answers each thing once, may refuse it, may leave out the receipt of the last
packet, may say ERASING several times, may fall silent. `trouble` is the history
of what cannot be expected to succeed.

Abstracted: the bytes of a chunk and the size of the last one, progress reports,
the delay after START, `stop_notify` at the end (its failure is ignored), and
reading the package, whose failure is a step of BleDevice. The image is not
empty; of an empty one OtaSession says "ok" after the erase.

### DeviceRequests, MCDeviceRequests
The requests that write to one radio (`core/methods.py`), the radio, and the
copy of its data that the device keeps. A request reads the copy, suspends in
the write and goes on with what it has read: `req[r]` keeps that, and where its
packet is (`air`): a write that was given up after five seconds may be taken
later (`abandoned`), and one that `send_toradio()` finds no client for is
dropped. `client` and `state` are two variables because `stop()` leaves READY
without a client while it awaits the gateway (`StopTearsDown`, `DeviceStops`); in
every other state a device without a client is as in AWAY. `SyncBegins`, `Decode` and `SyncComplete` refill the copy in
the order the radio sends, as far as `sync_mode` has it sent. `doubts` is the
history of what the code cannot know: two writes of a topic overlapped, one was
given up or dropped, another client changed the radio. `Merge` and `Printed` are the
conversions that matter: a section printed leaves out the defaults, and a
section written sets what it leaves out to its default.

Abstracted: what a field means, the validation of its value, and all sections
but one; a section that needs a reboot is `SetRebootSection`.

### TcpGateway
The listener of one device: a task for each client, the packets for all, and
`stop()`, which closes the server, lists the clients and closes one after the
other. `waits` is the version of Python: from 3.12 on `wait_closed()` of a server
waits for its connections. Closing a connection takes effect when what it has
to send is gone, so a client that does not read keeps it open. A connection may
break without its handler having noticed; `broadcast()` then finds that the write
fails and takes the writer off the list, for any of the broken ones.

### FirmwareStore
The directory of one hardware model. A download asks, opens its file and writes
it in pieces; an upload is written in one go; a request to flash tests the name
and the device opens it turns later. A file is known by its first writer and
outlives its name, as in POSIX: two tasks may write to one file, and a failed
download removes by name. The last piece is in the buffer until the file is
closed. `ready` and `sure` are histories: the image announced last under a name,
and the one a flash was asked for, if no request for the name came since.

Abstracted: the bytes, the checks of the file name, the choice of the URL.

### ConfigFile
The file of the configuration and all that loads and saves it. A save has no
await, so a request is one action; but the server may die in it, or the disk be
full, and then the file is any beginning of what was to be written (`CutOf`).
`bridge_config.load` takes what it cannot read for an empty file and
`config.load` raises, and both are here, with what their callers make of that.
`promised` and `setting` are histories of what was answered.

Abstracted: the registry is a set of addresses, since what a reload does to
the devices, and where it suspends, is DeviceManager; `CutOf` leaves any subset
of the entries where a cut leaves the first ones.

### BleDeviceProofs, DeviceCallsProofs, DeviceManagerProofs, NotifyDrainProofs, FirmwareTransferProofs, FirmwareStoreProofs, EventFanoutProofs, DeviceRequestsProofs
The theorems; see section 6. DeviceCallsProofs also has those of TcpGateway, the
listener the calls open and close, and FirmwareStoreProofs those of ConfigFile,
the other part of the server that keeps files. A module can extend two only if
no name is in both, which is why TcpGateway says `GatewaySpec` and ConfigFile
`FileSpec` where the others say `Spec`.

## 3. Plan

Written, in this order: BleStates, BleDevice with BleLifecycle and its proofs,
DeviceCalls with DeviceObject, DeviceManager, NotifyDrain and its proofs, EventFanout,
FirmwareTransfer, DeviceRequests, TcpGateway, FirmwareStore, ConfigFile.

How they fit together: BleDevice is one device from within; DeviceCalls has its
task in a few states and every interleaving of the calls around it; DeviceManager
has each object in two steps and every interleaving of the requests around many
of them; ConfigFile has the registry as a set and every way the file under it
can be lost. TcpGateway is what DeviceCalls starts and stops, DeviceRequests what goes
through a device that is READY, FirmwareStore what is behind the file that
BleDevice reads and FirmwareTransfer sends. The runs are kept to a dozen: a
module has one run that passes, and a finding keeps a run of its own while none
better needs it.

Then the proofs, from the hazards down: one device from within, its calls, the
registry of devices, the readers, the update protocols and the files.
The event path and the requests came last: queues of any size, sections of any
fields; and the link between two modules: the device DeviceManager reckons with
in two steps is one that DeviceCalls implements.

## 4. Runs

| Run | Asks | Bounds |
|---|---|---|
| `ble_device` | do the state, the retries, the clients and the tasks of a device stay consistent through every outcome of every await and a `stop()` at any moment; do busy states end, does `stop()` return; does the device implement BleLifecycle | two attempts per phase: a first failure that is retried and one that gives up |
| `device_calls` | what `start()` and `stop()` promise, alone and overlapping; does a call wait for anything but a task that swallowed its cancellation or a held gateway; does the device implement DeviceObject | three calls: a stop() between two starts, a start() within a stop() within a start(), two stop() of one device at once |
| `device_manager` | is every running device reachable, do reloads follow the file, what does a shutdown leave, cut or not | three requests, two addresses; `MayOverlap` says which kinds may begin while one is suspended: a reload, a deletion and the shutdown, which between them create, remove and stop |
| `notify_drain` | can a reader sleep on a packet | two packets of configuration and three of the mesh: one before, one at and one after the end of the sync |
| `event_fanout` | what does a client show when queues drop; do the queues run empty; is a client that is gone unsubscribed | queues of 2, two state events, one packet: enough to fill each queue behind a slow client, and for an event before, in and after the snapshot gap |
| `firmware_transfer` | does "ok" mean a verified image; how far ahead does the stream run; do sessions return, and succeed when nothing goes wrong | 7 packets with receipts every 1, 2, 3 or never: two or more whole groups, with and without a rest |
| `device_requests` | is the copy that requests work on what the radio has; does a write keep all other fields; does "ok" mean taken, but for what `stop()` drops; does a purge answer only after its reset and a sync | two requests under way at a time, any number one after the other; one plain field and one secret, of two values; three bodies: the plain field, the secret, and the secret with a null for the other; two of the three values of `sync_mode`: "full", and "nodes_only", which never fills the section ("config_only" sends what "full" does, or less of it) |
| `tcp_gateway` | which connections can `stop()` leave, and does it return; do handlers end | two clients: one that stop() waits for while the other comes or goes; two messages unread and one packet unsent, so that a client may be behind in both |
| `firmware_store` | is what a device reads a whole image, and the one announced; does every download tell how it ended; what do writers of one name leave | one name, two downloads and an upload that meet on it; images of two pieces: a file without the first, without the last, with pieces of both |
| `config_file` | what survives a crash in a save, an unreadable file, and a deletion; does a reload remove what a request did not | three addresses: one that is cut off, one that is kept, one that is added; a setting that is its default or not |
| `ble_sync_retry`, `ble_cancel_final` | two statements of the code's own comments; see section 7 | as `ble_device` |

Why the bounds are enough: a retry counter is only compared with its limit, so a
limit of two shows the first, the middle and the last attempt; and for the
safety properties the theorems of section 6 lift the bounds. Beyond them, the
liveness of DeviceCalls and the definitions of section 7 in DeviceCalls and
DeviceManager need at most three requests (one to create what the second holds
while the third changes it). In DeviceRequests a request ends in the state it
began in, so that two slots give any sequence of requests with two at a time,
the overlap that `doubts` is about; what is written, section or name, is chosen
once, since the two share no variable but the state.

BleDevice and ConfigFile never stop, and their runs check for deadlock. The others
may stop (all requests answered, the session over, nothing to send, all images
downloaded), so theirs do not.

## 5. Fairness

* **The connection task** (`WF(ConnTask)` in BleDevice): each await returns,
  sleeps and `wait_for` by their timeouts, calls of bleak by BlueZ's own
  timeouts; READY needs no end, and the notify loop ends fairly only when the
  link is lost, which the idle timeout finds out.
* **stop()**: goes on when what it awaits has ended; it is not assumed that
  anything ends.
* **DeviceCalls**: a suspended call is resumed when its await is over, a bind
  ends, and a cancelled task either ends or runs on past the cancellation, as
  BleDevice's `StopReturns` and `ble_cancel_final` show. A task that runs on need
  not end, and a gateway that a client holds need not close.
* **NotifyDrain**: the event loop runs the reader, the scheduled calls and the
  passkey task; the radio answers a request. Nothing makes the radio announce,
  the mesh send, or the link fail.

* **EventFanout**: the drain loop and the router run. A client may be as slow as
  it likes; only once it is gone does the server find out, at its next receive or
  send.
* **FirmwareTransfer**: the session runs, and all its waits have a timeout; a
  bootloader that is alive and connected goes on taking what is written (and so
  stops erasing at last), and what it sends arrives. It may fall silent at any
  time.

* **DeviceRequests**: the loop runs the task of a request, its deadlines pass, and
  the radio takes what it was sent unless the link breaks. Nothing makes a session
  begin or end.
* **TcpGateway**: the handlers and `stop()` run, a connection that was closed and
  has nothing to send goes, and a client reads what it is sent: one that never
  reads keeps its connection, and the `wait_closed()` of its writer, for ever.
* **FirmwareStore**: a download goes on, by httpx's timeout of 120 seconds if by
  nothing else.

DeviceManager and ConfigFile have no liveness property: the requests of the first
end when the stops and starts they call do, which is DeviceCalls' `CallsEnd`;
those of the second do not suspend.

## 6. Proofs

Each proof module extends what it is about, so the theorems speak of the very
definitions TLC checks, for every value of the constants that satisfies the
module's `ASSUME`: the retry limits are positive, an image is not empty, the
numbers of packets and messages are natural, the calls of a device are finitely
many, the queues hold something or nothing, the settings and the fields of a
section have a default, and None is nobody's name.

**BleDevice.** None of the safety properties is inductive. `HelpersOnlyInReady`,
say, depends on the poll task living in READY only, that on where a cancelled
task can stand, that on `stop()` being the only one to cancel. The invariant
`IInv` puts these together: what the state may be at each await
(`StateAgreesWithTask`), who holds the client (`ClientHeldInSession`), when a
link exists (`LinkInCycle`), where the notify loop and the helpers live
(`PollInReady`, `HelpersOnlyInReady`), how far `stop()` is when the task is
being cancelled (`CancelledByStop`), and what a dead task left behind
(`RestsUnlessCancelled`). `InductiveInvariant` has a lemma for each part of the
next-state relation (loop, set-up, READY, update, the common ends,
cancellation, `stop()`, environment). `TypeCorrectness`, `StatesAgree`,
`DeadTasksRest`, `ReadyKeepsClient`, `StopLeavesNothing`, `HelpersEndWithReady`
and `NeverTwoLinks` follow from it. `RetriesStayBounded`, `LeaksOnlyThere` and
`DataAreReset` are invariants of their own beside it. The runs check these in
three groups, and `NothingIsLeft`, `ReadyServed` and `ClientsKnown` are the
theorems of the groups. `RefinesLifecycle` proves that every step
of the device is a step of BleLifecycle or leaves the phase alone.

**DeviceCalls.** What the code promises without a lock it promises as long as no
`start()` overlaps another call, so the invariant is `Serial`: a `start()` that
waits for its gateway waits alone (`StartAlone`), only `_conn_task` can be alive
and only a `stop()` that awaits it has cancelled it (`TaskIsKnown`), only
`_tcp_gateway` has a socket (`SocketIsKnown`), and a suspended call finds what it
left, whatever other `stop()` calls have done meanwhile (`ResumesAsLeft`).
`Shows` and `Usual` relate the state to the tasks:
a device that is not OFFLINE has a task or a `stop()` on its way. `CallsCorrect`
is `CallsInv`; `StopCompletes` is the action property `StopIsComplete`: the awaits
of `stop()` come in an order in which the last one to end finds the others done.
`DeviceServesRegistry` is the refinement: each step of `start()`, `stop()` and the
task, read through `Seen`, is a step of DeviceObject or leaves it alone. The run
checks the two as `StopKeepsWord`, which is `StopServes`. DeviceManager does not
instantiate DeviceObject: it has the same values and steps in each `run[r][a]`, and
lets requests overlap as well.

**DeviceManager.** `Basics` holds whatever overlaps: what a request can hold at
each of its awaits. `Serial` needs that nothing does: only one request is under
way (`Alone`), what runs is registered (`LiveIsRegistered`), what stops is
awaited by it (`StoppingIsAwaited`), and what it took from the file or from
`_devices` before its await is still so (`AsLeft`, one conjunct for each kind of
request: `HeldIsAsLeft`, `ReloadIsExact`, `RemovalStopsFirst`, `ShutdownListsAll`).
The last says that what still runs is on the shutdown's list, so that a shutdown
that is cut leaves only what it had not come to (`ShutdownCutPreserves`).
A request runs on through several of its steps in one turn; `GoesPreserves`
reduces what each of them does to the request that takes it. `ManagerCorrect` is
`ManagerInv`, `ShutdownComplete` is `ShutdownStopsAll`; in `ReloadsExact` the half
`ReloadFollowsFile` needs `Serial` and `ReloadPreserves` does not, it holds
whatever overlaps.

**NotifyDrain.** The readers clear the event before they read and wait only
after a read that found nothing; so what is in the queue of a waiting reader
came after that, and its announcement is scheduled or has set the event. The
inductive invariant is the two no-lost-wakeup properties with the types (READY
is subscribed) and `NoNewsBeforeReady`. `SyncAwake` and `ReadyAwake` are the two
halves of `NeverSleepsOnNews`, which TLC checks; `NeitherSleeps` is the whole, for
every number of packets.

**FirmwareTransfer.** `OkMeansFlashed` needs to know why an answer says what it says,
and `Paced` needs to know which packets a receipt is for, and the session knows
neither. `InTransit`: while the bootloader takes what is written, the chunks it has not got
are the last things on the wire. `OneUnderWay` and `AnswerComesLast`: where the
session asks one thing at a time, nothing else is on its way, and ERASING lines
come before the answer they announce. `AnswersTell`: what an answer says was so
when it was sent and stays so. `ReceiptsCount`: the receipts the session has
passed, with those on their way, are those sent and those given up. From this and
`GroupsAhead`, an inequality of quotients, comes the pace, for any image and any
value of `nordic_prn`. A receipt that is forgotten costs a timeout, and one
that comes late a group of packets and no more. `TransferCorrect` is
`TransferInv`, `OkIsFlashed` is `OkMeansFlashed`.

**TcpGateway.** `AllClosed` speaks of the moment `stop()` has returned, so the
invariant follows the walk: until then every handler that reads is listed, unless
its connection is lost (`Listed`: `broadcast()` may have dropped it), one that
leaves has closed its own (`Leaves`), and from the moment the list is taken every such handler is in it,
being closed, gone, or late (`Walked`). `StopClosesAll` is `GatewayInv`, for any
number of clients. A connection can still be up when `stop()` has returned in two
ways, which `AllClosed` names: its handler started too late for the list, or the
handler has closed it itself and the client has not taken the rest.

**FirmwareStore.** A file is reached under one name only (`OneName`), and a task that
has not written has no file (`NothingYet`); so what happens at one name leaves the others alone
(`Elsewhere`). At a name without a doubt, a download that has it open is alone there,
its file is the one of the directory and has, piece by piece, what it wrote and
has not in its buffer (`WriterAlone`); with nobody there, there is one image
(`RestsWhole`), and the one announced is there (`AnnouncedIsThere`). `SureIsReady`
carries that over the turns between the request to flash and the read.
`StoredIsWhole` is `StoreInv`, `ReadsWhatWasReady` is `FlashedIsReady`, and
`CompletionTells` is the safety part of `DownloadsTell`, which also says that
every download ends.

**ConfigFile.** `ConfigInv` is inductive. The argument is in three lemmas: what is loaded
has the entries of the file, readable or not, because an unreadable file has no
promise but of absence (`LoadedIsFile`); a cut brings no entry that was not to
be saved (`CutIsFile`); so a cut save keeps what is still promised
(`LossIsKnown`). `DevicesStay` is the action property `DevicesKept`, from the same
invariant.

**EventFanout.** Queues drop events but never reorder them (`PutFacts`), so the
state events are in order along each client's path, from its queue into the
shared one (`Ordered`); behind the last of them there is no older one.
`Underway` says where that last one is: in the shared queue, or it has come as
far as the client's handler and no other is behind it (`Reached`), or the client
has lost it. With nothing left to come, the client shows it, which is
`ShownIsCurrent`. `LastStateArrives` is this invariant and `ClientsShowTheState`
is `FanoutInv`, for queues of any size, any number of clients and any topics.

**DeviceRequests.** The copy may lag behind the radio for one reason only: a
write has been taken and its acknowledgement is not there yet. (A dropped write
is the opposite, a copy ahead of the radio, and casts a doubt on its topic.) `OneWriter`: of a
topic in no doubt, no write was given up, and one at most is under way. Hence
`ConfigFollows` and `OwnerFollows`: the radio has what that write said once it
took it, and what the copy says before and after. And hence `MadeOfSection`: the
section a request is about to write was made of what the radio has, but for the
fields it was given, since nobody can change the radio in between without a
doubt. `Shape` and `Fits` say what a request can be at each await and in each
state of the device; a sync finds no write under way, so it may replace the
copy. `RequestMoves` has what a step of one request must do, and `RequestsStay`
what a step of the device must; each action is reduced to one of them, but for
the radio's own step, the end of a session and the end of a sync.
`RequestsWorkOnTheTruth` is `RequestsInv`, `SubmissionsWipeNothing` is
`OthersKept`, `SuccessIsOfTheRadio` is `OnlyStopDrops` and `PurgeSeesItsReset` is
`PurgeAfterReset`, for any number of requests, any fields, values and bodies.

Left to TLC: all liveness (`BusyEnds`, `StopReturns`, `CallsEnd`, `NewsIsRead`,
`NothingStaysUnread`, `LossNoticed`, `RouterSettles`, `GoneIsUnsubscribed`,
`SessionReturns`, `AcceptedCompletes`, `RequestsEnd`, `HandlersEnd`,
`DownloadsTell` in part, the fairness of the refinement), since the prover has
neither fairness nor ENABLED. Every invariant and every action property without
an "eventually" that a passing run checks is a theorem. TLC has checked each
inductive invariant as an invariant of its module before it was proved.

## 7. Where the code and its comments disagree

Two runs show a statement of the code violated by the code; PROJECT.json quotes
the lines.

* `ble_sync_retry`: the retry of a failed sync always fails, on the illegal
  transition CONNECTING to SYNCING.
* `ble_cancel_final`: a `stop()` that meets the task while it awaits a task it
  has cancelled is swallowed; the device goes on and `stop()` waits.

Four more were found by TLC, and have no run of their own; the definition named
is in the module and is violated when a cfg names it.

* The wait for a serial adapter fails at its first poll, on a name of another
  function (`SerialPollWaits` in BleDevice).
* The region flag of a sync that failed survives into the next cycle
  (`RegionFlagFresh` in BleDevice).
* Two overlapping `start()` calls create two connection tasks (`OneTask` in
  DeviceCalls).
* Two overlapping reloads create two devices for one radio (`OneDevicePerRadio`
  in DeviceManager).

Of the windows the code leaves open, the properties say what holds beside them:

* `stop()` leaves READY without a client from the end of the connection task
  (ble_device.py:790) to its own end (426), while it awaits the gateway. A write
  that comes then is dropped in silence (589), answered `{"verified": True}`
  (methods.py:245), and changes the copy (277); a purge polls on without its reset.
  `OnlyStopDrops` says that no other write is dropped, `doubts` has the topic.
* Two `set_config` of one section that overlap are both made of the copy from
  before, so that the second undoes the first (methods.py:260, 277); a write
  given up after five seconds and answered as failed may still be taken (242).
  `doubts` has the topic until the next sync.
* A shutdown that takes longer than fifteen seconds (server.py:82-85) leaves the
  devices it had not come to connected (`ShutdownStopsAll`); a reload asked for
  by SIGHUP while it runs may add devices that nobody stops.

Seen while modelling, without a run:

* An unreadable firmware file (ble_device.py:1153) is reported by a transition
  from READY to OTA_ERROR that `_LEGAL` refuses: the session crashes to OFFLINE
  and the error is never shown. The model does the same.
* A `stop()` that cancels the task between `connect()` and the session leaves
  the client connected; `LeaksOnlyWhereUnguarded` says where, and that it
  happens nowhere else.
* The session data of a device that went OFFLINE stay visible until its next
  attempt (751): `SessionDataReset` holds from the next connection on, and no
  earlier.
* A `stop()` during the gateway's bind leaves the socket that `start()` then
  opens (384, 416); after a failed bind, the next `start()` runs without a
  listener (378-384).
* `reconcile()` raises KeyError when a deletion overlaps it (device_manager.py:103, 110).
* `POST /ota` for a device that is OFFLINE calls `trigger_ota_stuck`
  (server.py:434), which does not exist.
* Packets queued behind `config_complete` are read only when the answer to the
  passkey request, or another packet, is announced (`NothingStaysUnread`).
* "their own copy of every event" (device_manager.py:137): a full queue drops the event,
  and a client misses what happens between its snapshot and its subscription;
  `ShownIsCurrent` says what it can show then.
* README.md:280 has `node_update` after every mesh packet; AppRouter emits it for
  users, positions and telemetry only.
* "ok — DFU complete; device rebooting to application"
  (nordic_dfu_session.py:55): a link that breaks between the answer to VALIDATE
  and the write of ACTIVATE also returns "ok" (154), for an image that is
  verified and a device that stays in its bootloader.
* `tests/test_gw.py:39` lists the states of a device without NEED_PAIR and
  REGION_UNSET.
* BleDevice has no `write_and_reboot`, which `set_config` calls for
  `REBOOT_SECTIONS` and `set_owner` for a role: both always fail, the second
  after the names are written (methods.py:314).
* `send_text_message` does not exist, so sending a text always answers 503;
  `send_admin` returns None, so `get_channel_live` always fails.
* With `sync_mode` "nodes_only" the copy of a section stays empty: a partial write
  passes the check for missing fields and wipes them (methods.py:208), which is
  why `doubts` begins full.
* The comment at ble_device.py:677 expects an emptied node list after a purge, and
  652 returns its length as `node_count`; `_sync_nodes` is only added to (1773-1774).
  `PurgeAfterReset` is about the answer, not about that number.
* `core/nvs_image` is not in the tree, so `POST /ota/firmware/prepare` always fails.
* `MAX_PAYLOAD` (tcp_gateway.py:30) is 512 KiB, and a frame's length has 16 bits:
  the test never fires. Nothing bounds what `broadcast()` leaves in the buffer of
  a slow client.
* `TcpGateway.stop()` waits for the server before it closes the clients: from
  Python 3.12 on it waits until they leave by themselves (`StopReturns`).
* "Config changes can be applied without restarting" (README.md:234): the
  update settings of the application and of the devices a reload keeps are those of
  the start.
* "Removes from config if persist=true" (server.py:209): the handler never
  touches the file, and a later reload brings the device back. `POST /devices` without `persist` connects nothing for an address
  that is not listed, and for a listed one ignores what it was given.
* A download that fails before it opens its file removes an earlier good
  one of that name; an upload that fails, or a server that stops, leaves a
  file cut off, which `POST /ota` takes (`StoreInv`, `FlashedIsReady` say what holds).
* `bridge_config.load` and `config.load` differ on a file that is no YAML: one
  takes it for empty, the other raises. The next save then makes the loss final.

## 8. Not modelled

Listed with reasons in PROJECT.json. In short: pure views and tables (REST
reads, schema, sections, help, MCP, the methods that read a cache); the
earlier single-device bridge, which nothing starts, and the stand-alone update
script; the pairing agent, which answers one question; the chat daemon, the command
line and the dashboards, which are clients of the API. The chips, BlueZ, bleak,
the file system and the network are outside and appear as nondeterministic
outcomes. Time is not modelled: a timeout may end any wait it guards, at any
moment. Of the hazards, the rounds of a radio that does not keep its region have
no property, nor have the places where the code does go wrong or guards against
nothing: overlapping `start()` calls, reloads, writes of one section and
downloads of one name, a late write, a file replaced before it is flashed, a
server that dies in a download. PROJECT.json says so at each.
