# Verification of btleplug

btleplug is an asynchronous Bluetooth Low Energy library with one API
(`src/src/api/`) and one backend per operating system.  This directory holds TLA+
models of its concurrent parts, the TLC configurations that check them on small
instances, and TLAPS proofs of what matters most for every instance.

Run everything from this directory:

    tlc -config MCCoreBluetooth_gatt.cfg MCCoreBluetooth
    tlc -config MCCoreBluetoothAdapter.cfg MCCoreBluetoothAdapter
    tlc -config MCBtlePlugFuture.cfg BtlePlugFuture
    tlc -config MCDroidPeripheral_queue.cfg MCDroidPeripheral
    tlc -config MCWinrtPeripheral.cfg MCWinrtPeripheral
    tlc -config MCBackends.cfg MCBackends
    tlapm CoreBluetoothInternalProofs.tla

## 1. The system

Paths are relative to `src/src/`.

| Part | State it keeps | Operations | What must hold |
|---|---|---|---|
| CoreBluetooth thread, `corebluetooth/internal.rs` | `peripherals`, each with its services, characteristics, descriptors; FIFO queues of reply futures in every attribute; the slots `connected_future_state` and `disconnected_future_state` | `wait_for_message` takes one message of a client or one event of the delegate and handles it to the end | a future is in one place until its one reply; the reply fits the call; `connect()` returns after the whole discovery; the thread does not die |
| Delegate, `corebluetooth/central_delegate.rs` | the sender of its channel | callbacks of the framework, each of which sends one event, and goes on with the discovery | no result is lost, or the wait for it is accounted for |
| Reply futures, `corebluetooth/future.rs` | `reply_msg`, `waker`, behind one mutex | `set_reply` on the thread, `poll` in the client's runtime | no lost wake-up, one reply |
| CoreBluetooth objects, `corebluetooth/{adapter,peripheral,manager}.rs` | properties, services and a broadcast of notifications per peripheral; two event tasks | the client's API; each method sends one message and awaits one future | no method meets a reply it has no arm for; events in order |
| Adapter manager, `common/adapter_manager.rs` | `DashMap` of peripherals, `broadcast(16)` of events | `add_peripheral` (assert absent, then insert), `emit` (removes on `DeviceDisconnected`), `event_stream` | map and events agree; the assertion holds |
| Android, Java side, `droidplug/java/.../Peripheral.java` | `commandQueue`, `executingCommand`, `commandCallback`, `connected` | `queueCommand`, `runNextCommand`, `wakeCommand`, `setCommandCallback`, the GATT callbacks | one command at a time; each ends; the queue goes on |
| Android, Rust side, `droidplug/*.rs` | shared properties, services, adapter manager | calls that await a JNI future; `report_scan_result`, `add_peripheral` | Ok means answered; a later discovery is not undone; an event finds its peripheral |
| Windows, `winrtble/**` | `device` behind an asynchronous mutex, `connected` flag, `DashMap` of services; a token per characteristic; the map of peripherals | `connect` / `disconnect` against the connection status handler; `subscribe` / `unsubscribe`; `start_scan` handlers | flag, device and services agree; one handler per characteristic; events and map agree |
| Linux, `bluez/*.rs` | services map per `Peripheral` object; BlueZ behind D-Bus | `discover_services`, requests by object path, notifications; event stream: a snapshot, then queued events | a request reaches the attribute that was asked for; the stream tells what BlueZ knows |
| Web, `web/*.rs` | the map of peripherals, `services` behind a mutex; parts are `todo!()` | `start_scan` in the browser and under Tauri, `update_properties` | what a scan may trap at; events and map agree |
| Addresses, UUIDs, models, `api/bdaddr.rs`, `api/bleuuid.rs` | none | conversions | round trips |

How they interact.  In the CoreBluetooth backend the clients reach the thread
through a `futures::channel::mpsc` of `CoreBluetoothMessage`, each with a shared
`BtlePlugFutureState`; the delegate reaches it through a channel of
`CentralDelegateEvent`; the thread reaches the adapter and each peripheral
through a channel of its own, whose readers are tasks that feed the adapter
manager and a broadcast of notifications.  The other backends have no thread:
their callbacks write to state shared through locks and to the adapter manager.

What is hard here.  Nothing in an acknowledgement of the operating system says
which call it belongs to: calls and answers meet in FIFO queues, and a queue that
gains or loses a future shifts every later answer.  Futures live in places that
are overwritten (a second `connect()`), replaced (a second discovery) or removed
(a disconnect) while their owners wait.  Errors are partly swallowed.  Answers and
unsolicited notifications arrive by the same callback.  The discovery that ends a
`connect()` is a tree of requests whose results interleave with the client's
requests, with disconnections and with new connections.  `PROJECT.json` lists
each hazard at its line with the property that watches over it.

## 2. Modules

| Module | Models | |
|---|---|---|
| `CentralDelegate` | `central_delegate.rs`, and the framework as it calls it | state, one action per callback |
| `CoreBluetoothInternal` | `internal.rs`, with the client methods of `peripheral.rs`; EXTENDS `CentralDelegate` | state, one action per message and per event, all properties |
| `MCCoreBluetooth` | nothing: instances for TLC | |
| `CoreBluetoothInternalProofs` | | theorems about `CoreBluetoothInternal`: types, futures, replies |
| `CoreBluetoothPipelineProofs` | | theorems about what comes of a request on its way through the framework and the channel of events, EXTENDS `CoreBluetoothInternalProofs` |
| `AdapterManager` | `adapter_manager.rs` and its broadcast channel | state and operations; its users take the steps |
| `CoreBluetoothAdapter` | the adapter's task, `dispatch_event`, the ends of `connect()` and `disconnect()`; EXTENDS `CoreBluetoothInternal` and `AdapterManager` | the whole CoreBluetooth backend as its clients see it |
| `MCCoreBluetoothAdapter` | nothing: an instance for TLC | |
| `CoreBluetoothAdapterProofs` | | theorems about `CoreBluetoothAdapter`, EXTENDS those of `CoreBluetoothInternal` |
| `Promise` | what a reply future promises | abstract specification |
| `BtlePlugFuture` | `future.rs`, each lock, test, store and wake a step | implements `Promise` |
| `BtlePlugFutureProofs` | | theorems about `BtlePlugFuture` |
| `CommandQueue` | what the command queue of the Android backend promises | abstract specification |
| `DroidPeripheral` | `Peripheral.java`, and `BluetoothGatt` as it is used there | implements `CommandQueue` |
| `MCDroidPeripheral` | nothing: instances for TLC | |
| `DroidProofs` | | theorems about `DroidPeripheral` and `DroidCalls` |
| `WinrtPeripheral` | `winrtble/peripheral.rs`, `ble/device.rs`, `ble/characteristic.rs`, and Windows, the map and the runtime as they are used there | state, one action per stretch between awaits or locks |
| `MCWinrtPeripheral` | nothing: an instance for TLC | |
| `WinrtPeripheralProofs` | | theorems about `WinrtPeripheral` |
| `WinrtCharacteristic` | `winrtble/ble/characteristic.rs`: the handlers and the token of one characteristic | state, one action per stretch |
| `ScanAdapter` | what the handlers of three backends do with the map and the events; EXTENDS `AdapterManager` | operations and history; its users take the steps |
| `WinrtAdapter` | `winrtble/adapter.rs`, `ble/watcher.rs`; EXTENDS `ScanAdapter` | scans, handlers, connections |
| `DroidAdapter` | `droidplug/adapter.rs`; EXTENDS `ScanAdapter` | scan results, `add_peripheral`, connections |
| `WebAdapter` | `web/adapter.rs`, `web/tauri.rs`, and `web/peripheral.rs` as scans call it; EXTENDS `ScanAdapter` | both kinds of scan |
| `DroidCalls` | `droidplug/peripheral.rs`; EXTENDS `DroidPeripheral` | the Android backend as its clients see it |
| `BluezPeripheral` | `bluez/peripheral.rs`, and BlueZ as it is used there | state, one action per request |
| `BluezAdapter` | the event stream of `bluez/adapter.rs` | state, one action per await |
| `BDAddr`, `BDAddrProofs` | `api/bdaddr.rs`; theorems about it | operators |
| `BleUuid` | `api/bleuuid.rs` | operators |
| `Backends` | nothing of its own: the seven modules from `WinrtCharacteristic` to `BluezAdapter` that have steps, side by side | composition |
| `MCBackends` | nothing: an instance of `Backends`, and of the conversions | |
| `BackendsProofs` | | theorems about the modules of `Backends` |

### CentralDelegate

`cb[d]` is the framework's view of device `d`: its `link`
(`CBPeripheral.state`), a `dial` in progress, the ATT operations `att` that are
accepted and not completed, the characteristics that are `notifying`, those whose
descriptors are `cached` in the framework's object.  `delegate` is the channel of
`CentralDelegateEvent`.

Each callback of the Objective-C class is an action: it takes the oldest ATT
operation (`Completes`, `Done`), sends the event the code sends (`Event`, `Send`)
and asks for the next level of the discovery where the code does.  The framework
is external.  What is assumed of it: callbacks of a manager come on one queue,
one at a time; one device has one ATT transaction at a time, so operations
complete in the order they were asked; an operation may fail (`OperationFails`,
the `error == nil` tests of the delegate) if the instance lists it in `MayFail`;
when a link goes down, what was outstanding on it is never completed; a request
on a link that is not up does nothing.

`req` in an operation or an event, and `failed` in `cb`, exist only for the
properties: no guard of the code's model reads them, and no assignment of the
code's state uses them, except to fill `reply.src`, which also only properties
read.

### CoreBluetoothInternal

| TLA+ | Code |
|---|---|
| `messages`, `delegate` | the two receivers `wait_for_message` selects from |
| `known` | the keys of `peripherals` |
| `tree[d].has`, `tree[d].discovered` | the services with their characteristics and descriptors; the flags `ServiceInternal::discovered` and `CharacteristicInternal::discovered` |
| `future_state[<<d, op, a>>]` | `read_future_state`, `write_future_state`, ... of one attribute, oldest first |
| `connected_future_state[d]`, `disconnected_future_state[d]` | the fields of the same name |
| `panic` | the reason the thread died; its state and both receivers go with it |
| `handles[d]` | the objects a client holds and can make calls on: the device once it is reported, its attributes once a `connect()` returned them |
| `ask[r]`, `st[r]`, `reply[r]` | the call of a client, where its future is, what it was answered |

A handler runs to its end before the thread takes the next item, so it is one
action.  `RequestOnAttribute` stands for the handlers `read_value`, `write_value`
(with response), `subscribe`, `unsubscribe`, `read_descriptor_value` and
`write_descriptor_value`, which are the same but for the framework call and the
queue.  A message or an event about something the thread does not know falls
through its `if let` without effect: `Ignore` for events; a future in the message
is dropped.

`hasty` is a history variable.  A client is hasty about a device when it connects
before its last connection is over and reported, or uses an attribute while a
`connect()` of its device is still waiting.  The library does not prevent it, the
model lets it happen, and some properties hold only without it.

### AdapterManager and CoreBluetoothAdapter

| TLA+ | Code |
|---|---|
| `peripherals` | the keys of the `DashMap` of the manager |
| `unread[s]`, `lagged` | what the broadcast channel still holds for stream `s`; the streams that lost an event |
| `seen[s][id]` | the last `DeviceConnected` or `DeviceDisconnected` of `id` the client of `s` got |
| `adapter_channel` | the channel of `CoreBluetoothEvent` from the thread to the adapter's task |
| `adapter_emits`, `emitting` | the task, or a `disconnect()`, between changing the map and sending the event |
| `listed` | devices that were in the map once: only of those can a client have an object |

`emit` and `add_peripheral` are not atomic: the map is changed, then the event is
sent, and other tasks act in between.  `AdapterAdds` and `AdapterEmits` are the two
halves of the adapter's handler, `DisconnectRemoves` and `DisconnectReturns` those
of the end of a `disconnect()`.  `ThreadHandlesEvent` is a handler of
`CoreBluetoothInternal` with what it dispatches; it waits while the channel is
full.  (The code answers a `disconnect()` just before it dispatches the event.  The
client's first step, which changes the map, commutes with the dispatch, so one
action stands for both.)  `Others` are the steps that tell the adapter nothing.

Three history variables say where the code makes no promise.  `lagged`: a stream
that is sixteen events behind loses some, and `event_stream` hides that.  `belied`:
the task of a `connect()` or `disconnect()`, or the adapter's, was so late that the
event it sent last was no longer true.  `erased`: a late `disconnect()` removed a
device from the map that had been discovered anew; the thread knows it and will
never report it again, so it stays unlisted.

### BtlePlugFuture and Promise

In `CoreBluetoothInternal` a reply is one step.  `BtlePlugFuture` looks inside:
the thread locks, sets `reply_msg`, takes and wakes the waker and unlocks; a task
of the runtime locks, finds a reply or not, stores its waker and unlocks.  The
runtime is modelled from the contract of `std::future::Future`: spurious polls
(`WokenByOthers`), and a pending future may be handed to another task and polled
there with another waker (`Move`).  `Promise` is the abstract specification:
`waiting`, `replied`, `returned`.

### DroidPeripheral and CommandQueue

| TLA+ | Code |
|---|---|
| `ask[r]`, `made` | the method that was called, and its `SimpleFuture` |
| `result[r]` | what the future was woken with: a value (`ok`), `null` instead of one, an exception |
| `executingCommand`, `commandQueue`, `connected` | the fields of the same name |
| `commandCallback` | the command whose `CommandCallback` is set, `NoReq` for null |
| `gatt` | `open`: the field is not null; `link` and `op`: what the framework does with it |
| `reporting`, `late`, `told` | reports to `adapter.onConnectionStateChanged` on their way, and the last that arrived |

Everything the class does is synchronized on the peripheral, so a call of a method
or a callback is one action.  A command that ends runs the next one before it
returns, and that may end at once and run the next: `RunCommands` takes the number
of commands that end in this way and says that the one after them waits.  What
happens after the monitor was left, the report to the adapter, is an action of its
own (`Report`).  A `BluetoothGatt` has one thread for its callbacks; when `close()`
is called from a callback that thread still has its report to make (`late`), while
a new `BluetoothGatt` may already have a thread.

`BluetoothGatt` is external: one operation at a time, completed or lost with the
link; operations may be refused (`Refuses`; an attribute that does not exist and a
missing permission end a command in the same way) and may report a failure
(`MayFail`).  An exception that leaves a callback is logged by the framework and
has no other effect.  `CommandQueue` says what the queue promises: the line of
commands loses some of its first members, or gains one at its end.

### WinrtPeripheral

| TLA+ | Code |
|---|---|
| `ask[r]`, `at[r]` | the method that was called, and the await or the lock its task is at |
| `left[r]` | the services that the loop of `discover_services` has not done |
| `device`, `mutex` | the `Option<BLEDevice>` and the lock around it; a `BLEDevice` is named by the `connect()` that made it |
| `connected`, `ble_services` | the fields; of a service in the map, the `BLEDevice` its objects come from |
| `blocked` | calls whose worker thread is blocked by a lock of the map |
| `open`, `due`, `hand[r]` | the `BLEDevice`s that were not dropped, each with its status handler; handlers to be called; where one is, and the status it has read |
| `told` | the last event about the connection |

Here every stretch of code between two awaits or locks is an action.  The mutex of
`device` is asynchronous: a task that waits for it costs nothing.  A reference into
`ble_services` is the lock of a shard: a task that waits for it blocks its worker
thread, and it is held across the await of a `read`, `write` or `subscribe`.  So a
task makes a step only if it is polled (`Polled`), by a thread of the `Workers` that
is not blocked.  All services are in one shard, which is the case with the most
waiting.  `read` stands for the operations that take a shared reference (`read`,
`write`, the descriptor operations), `subscribe` for those that take an exclusive one.

A client may drop the future of a call at any await (`Abandons`): its guards are
dropped, and with the future of a `connect()` the `BLEDevice` that is not in its
place yet.  The status handler reads the status when it runs, not when it was due;
once it was removed it is not called any more, but a call of it that is running goes
on, and reads a closed device.  `Drop for BLEDevice` only logs an error of the removal;
that a device which is closed and released calls its handlers no more in that case
either is an assumption about Windows.

`misled` and `belied` are history variables as in `CoreBluetoothAdapter`: the last
store to the flag, or the last event, was not true when it was made.  `careless` says
that a client overlapped `connect()` with another, or `discover_services()` with
`disconnect()`, or called `connect()` while there was a device.

### WinrtCharacteristic

`present` says that the map of services has the characteristic, `notify_token` is the
field of that name, `handlers` are those Windows has registered for `ValueChanged`, and
`configured` is what was last written to the client configuration descriptor.
`subscribe` and `unsubscribe` hold a `RefMut` of the map across the await of that write,
so they exclude each other and `disconnect()` (`Unreferenced`).  A call that is dropped
lets the reference go, and Windows goes on with its write (`orphans`).  `lost` are the
handlers whose token is gone although they are registered: `subscribe()` overwrites a
token that is there, and `Drop` only logs the error of a `RemoveValueChanged`.

### ScanAdapter, WinrtAdapter, DroidAdapter, WebAdapter

| TLA+ | Code |
|---|---|
| `peripherals`, `unread` | of `AdapterManager` |
| `borrowed` | entries of the map with a `RefMut` that some task holds (`manager.peripheral_mut`) |
| `link[id]` | `lost` between the removal in `emit(DeviceDisconnected)` and its send |
| `received`, `watching`, `at`, `about` | the `Received` handlers of the watcher, whether it runs, and where each handler is |
| `report`, `adding`, `filled` | the scan result that is handled, the calls of `add_peripheral`, the peripherals whose properties are stored |
| `task`, `runs`, `locked`, `trapped` | the tasks `start_scan` spawns, the one that runs, the taken mutexes, what ended by a panic |

Every access to the map and every send is a step.  `mirrored` is what a client that
reads every event takes for the keys of the map; `MirrorsMap` compares it with the map,
except for peripherals that a task is telling about or has `raced` with.  Events are
only counted in these histories: `Stream` is empty in the instance, and what streams do
with events is the matter of `CoreBluetoothAdapter`.

One `Received` handler is not called again before it returned, and `start_scan` adds
a handler each time.  On Android there is one `ScanCallback`, and `add_peripheral` of
a client does the same check-then-insert.  In the browser there is one thread: a task
that finds a lock taken cannot wait, it panics, and since a panic is a trap without
unwinding, whatever it holds stays taken.  The user who cancels the browser's dialogue
makes the scan panic as well (`expect`).

### DroidCalls

`DroidPeripheral` with what `droidplug/peripheral.rs` makes of it: `Begins` is the part
of a call before its await, which makes the command; `Returns` is the poll that finds
the `SimpleFuture` ready, makes `Ok` or an error of what it was woken with (`IsOk`) and
stores a discovered list (`StoresServices`); `DropsTask` is a client that drops the
future, which the command does not notice.  `answer[r]` is how the framework completed
the operation of this very call, which only properties read.

### BluezPeripheral and BluezAdapter

`database` is what BlueZ shows: for each object path its uuids and its parent.  It may
be replaced by another at the same paths (`DatabaseChanges`).  `services[o]` is the map
of one `Peripheral` object and its clones; `adapter.peripherals()` makes a new object
with an empty map each time, which is why there are several.  `discover_services` is
one action per D-Bus request and may fail at each; a map collected from a list keeps one
of two entries with the same uuid (`Collected`), and a service that is inserted replaces
the one with its uuid and all below it (`InsertService`).

In `BluezAdapter`, `setup`, `initial` and `queue` are the stages of `events()`:
subscribe to D-Bus, take the snapshot, yield the events made of it, then the signals
that were queued since the subscription.  `known[d]` is what BlueZ knows now; each
change of it sends one signal.  A signal of a device that is gone when it is handled is
skipped (`missed`), as `get_device_info` fails.

### BDAddr and BleUuid

Operators on numbers and on sequences of digit values; a text is a sequence of parts, a
part a sequence of its bytes.  Reading follows `from_str_radix` in what it accepts (any
number of leading zeros, a plus sign) and `split_at` in where it panics (inside a
character of several bytes).

## 3. Properties and runs

| Run | Configuration | Properties | Shows |
|---|---|---|---|
| `cb_gatt` | `MCCoreBluetooth_gatt.cfg` | `TypeOK`, `FutureInOnePlace`, `ReplyFits`, `OwnAck`, `NoQuietDeadlock`, `PanicNeedsCause`, `AckNotStale`, `AnsweredInTime` | calls and acknowledgements meet correctly, and no call outlives its own completion, with four concurrent calls, failing writes, notifications and reconnections (987,761 states) |
| `cb_connect` | `MCCoreBluetooth_connect.cfg` | `ConnectedMeansDiscovered`, `NoQuietDeadlock`, `EventuallySettled` | life of a connection and its discovery, three services, one including another, failing steps; under fairness every call ends, or is stranded for a named reason |
| `cb_adapter` | `MCCoreBluetoothAdapter.cfg` | `AddsOnce`, `MapAgrees`, `StreamTruth`, `DisconnectedMeansDown` | what the map and an event stream say, and what a `disconnect()` that returned means, with three calls, reconnections, rediscoveries and full channels (3,223,462 states) |
| `cb_future` | `MCBtlePlugFuture.cfg` | `NoLostWakeup`, `KeepsPromise` | the protocol between `set_reply` and `poll`, and that it implements `Promise` with its liveness |
| `droid_queue` | `MCDroidPeripheral_queue.cfg` | `CallInOnePlace`, `OutstandingIsRunning`, `ConnectedHasGatt`, `StuckNeedsCause`, `ToldTruth`, `KeepsOrder`, `CommandsEnd` | four calls of any kind, refusals, failures, broken links: the queue works, and stops for named reasons only (827,384 states) |
| `winrt_peripheral` | `MCWinrtPeripheral.cfg` | `TypeOK`, `ServicesCurrent`, `UsedStaysOpen`, `FlagTruth`, `ToldTruth`, `NoCircle` | four calls of any kind, two workers, failures, dropped futures, a link that is lost and comes back (2,083,893 states) |
| `backends` | `MCBackends.cfg` | `BluezReachesAsked`, `BluezNotifies`, `BluezStreamTruth`, `WinrtOneHandler`, `OkMeansAnswered`, `DroidServicesFresh`, `WinrtClientsKnowMap`, `WinrtDiscoversOnce`, `DroidEventsHold`, `WebTrapsExplained` | seven modules without a thread of their own, one after the other, and the conversions (1.5 million states) |
| `cb_always_returns` | `MCCoreBluetooth_returns.cfg` | `AlwaysReturns` | violated, see section 5 |
| `cb_still_have_future` | `MCCoreBluetooth_future.cfg` | `StillHaveFuture` | violated |
| `cb_write_outcome` | `MCCoreBluetooth_write.cfg` | `WriteOutcome` | violated |
| `cb_read_outcome` | `MCCoreBluetooth_read.cfg` | `ReadOutcome` | violated |
| `droid_descriptor` | `MCDroidPeripheral_descriptor.cfg` | `DescriptorReadReturns` | violated |

- `FutureInOnePlace`: each waiting future is in exactly the place its call names,
  each answered or dropped one is nowhere.
- `ReplyFits`: neither the panic of `set_reply`, which would leave the reply `Twice`, nor
  the `_ => panic!` of the client methods is reachable.
- `OwnAck`: no two calls live off one acknowledgement, and a successful write has
  one, of a write to the same attribute.
- `AckNotStale`: an acknowledgement is never that of a write that is over, unless
  a client was hasty or the device is found twice (`FoundTwice`: a service is included
  by another, or two services, or two characteristics of a service, have one UUID, so
  that the later of two results replaces what the earlier one brought).
- `AnsweredInTime`: the step that handles the completion of a call does not leave the call
  in its queue: it was answered before, or is now.  Answers go to the head of a queue, so
  an answer too many (a notification that is taken for the answer of a read) only lets
  later calls end earlier.  The exceptions are a swallowed error, after which one answer
  is missing, and a link that is over.  Reads of descriptors are never answered.
- `ConnectedMeansDiscovered`: the step that answers a `connect()` gives it the whole
  tree of the device.  The exception is a link whose loss is already in the channel:
  the second result for an included service is handled, the descriptors of which the
  framework has forgotten with the link, and the tree is complete without them.
- `DisconnectedMeansDown`: when `disconnect()` returns the link is down, unless a
  client was hasty.
- `NoQuietDeadlock`: the comment in `future.rs` fears quiet deadlocks; these are
  all there are.  When a device is quiet, a future that still waits does so for
  one of four reasons (`Stranded`): a swallowed error, the read of a descriptor,
  the `connect()` of a device without services, a `disconnect()` while no link is being
  ended and none has ended unread.
- `PanicNeedsCause`: the thread dies of nothing but the read of a descriptor, a
  hasty client, a failed change of a subscription or a device that is found twice.
- `AddsOnce`: the assertion of `add_peripheral` holds, whatever is removed,
  discovered again or emitted twice meanwhile.
- `MapAgrees`: when the adapter's task has nothing left to do for a device, the map
  lists it if and only if the thread knows it, unless it is `erased`.
- `StreamTruth`: a stream that did not lag and has nothing unread tells the truth
  about a device that nobody has anything left to tell about, unless it is `belied`.
- `CallInOnePlace`: a command that was queued and has not ended is in line once,
  and while the line is not empty its first command has the callback that ends it.
- `OutstandingIsRunning`: what the framework works on is the command that runs.
  Completions carry no identity; this is why none reaches the next command.
- `ConnectedHasGatt`: `connected` is true only with a gatt whose link is up, so no
  command meets a null one, and nothing is dialled or hung up for nobody.
- `StuckNeedsCause`, `CommandsEnd`: a command that the framework owes nothing waits
  for one of four reasons; without them every command ends.
- `ToldTruth`: the adapter's last report agrees with `connected`, except after a
  link lost under a descriptor operation and after a report that was overtaken.
- `KeepsOrder`: commands end in the order they were queued.
- `ServicesCurrent`: the map holds services of the current device only, unless a
  client was careless.
- `UsedStaysOpen`: while a call uses a service, its device is not closed, unless a
  client was careless.  It is the locks of the map that see to this.
- `FlagTruth`, `ToldTruth` (of `WinrtPeripheral`): when nothing is left to do, the
  flag, and a last event `DeviceConnected`, are right about the link, unless the last
  to store or to send had been overtaken.
- `WinrtOneHandler`: the only handlers are the one whose token is kept and those that are
  `lost`, whichever calls failed half-way or were dropped; after a `subscribe()` that
  returned `Ok` its handler is registered and the device notifies, after an
  `unsubscribe()` there are only lost handlers and it does not, as long as no write of a
  dropped call comes late.
- `WinrtClientsKnowMap`, `WinrtDiscoversOnce`: a client that follows the events knows
  the map, however handlers and disconnections interleave; with one handler no
  peripheral is added twice, or updated before it was discovered.
- `DroidEventsHold`: an event of a scan finds its peripheral with its properties, except
  after a disconnection that overtook it or an `add_peripheral`.
- `WebTrapsExplained`: a scan traps for a cancelled dialogue, or because it overlaps
  another scan; never at the mutex of the services, which the `RefMut` protects.
- `OkMeansAnswered`: a call on an attribute that returned `Ok` was completed for itself
  and with success, but for two exceptions: the status of reads and writes is
  ignored, and a write or subscription under which the link is lost without an error
  is `Ok`.
- `DroidServicesFresh`: a discovery is not undone by one that had returned before it
  began, whatever the order of polls.
- `BluezReachesAsked`, `BluezNotifies`: although requests go by path, they reach an
  attribute with the uuids that were asked for, and an event reaches the stream of every
  object that was discovered in the present database, unless the attribute is hidden by
  one of the same uuid.
- `BluezStreamTruth`: a reader who has caught up knows which devices there are and
  which are connected, unless a signal of a removed device was `missed`.
- `NoCircle`: while a call is under way some call can go on, unless every worker is
  blocked by a reference whose holder no worker is left to poll (`Starved`).

Every property of a passing run has a seeded fault in the module next to the
operator it changes (commented `Seeded fault`): a plausible slip in that code
which breaks the property.  They are not part of `Next`.

### Bounds

- One device, one to three services, one or two characteristics, one descriptor.
  `cb_connect` lists its services so that the second result of the included one comes before the last
  result: the other way round the thread dies of it (`cb_still_have_future`) and no call on
  an attribute would ever be answered.  The
  queues are per attribute, and the interactions that cross attributes are those
  of a descriptor with its characteristic and of a service with one it includes:
  both are present.  Devices share no state but the two channels.
- `Req`: two to four calls, each made once, each of any kind in `Asks`.  Three on
  one attribute are a connect and two that overtake each other; the fourth allows
  a reconnection among them.
- `MayFail`: the operations that may fail in the instance.  `Notifies`: whether
  notifications are sent; at most one is in the channel at a time.
- One `DiscoveredPeripheral` of a device only while the channel holds no other
  event of it; one scan message in the channel; `Scans` only starts scans, since
  stopping changes no other state.
- The adapter: one device, one service, three calls of `connect()` and `disconnect()`:
  a connection, what ends it, and a third call that is late or starts over.
  `Capacity = 2` for 16 and `ChannelSize = 2` for 256: a stream can lag and the thread
  has to wait, which larger numbers would put out of reach.  One `DeviceUpdated` in the
  channel; one stream, subscribed from the start.
- Android: four calls, so that a connection, what breaks it, a reconnection and one
  more command can meet; one characteristic, one descriptor; `MaxLate = 2` late
  reports, and no more than two connections can end with a `close()` in four calls.
  `Refuses` and `MayFail` name operations of each kind that handles a failure in
  its own way.
- Windows: four calls, so that a connection, its discovery, a use and what disturbs
  them can meet; one service; two workers, so that they can all be blocked; three
  changes of the link (`MaxFlips`): up, lost and up again.
- `MCBackends`: a run checks one composed instance, and the variable `backend` of
  `Backends`, which the first state fixes, says which module takes steps; the others stay
  in one of their initial states (`MCInit` picks one for each), so the states are the sum of those of the modules and not their
  product.  BlueZ: two `Peripheral` objects, three calls, two databases that use the
  same paths for other attributes, with a hidden service and twice the same
  characteristic uuid; one change of the database (`MaxChanges`).  Event stream: two
  devices of the adapter and one of another, four signals (`MaxSignals`).  Scans: two
  peripherals, two handlers (a second one is what breaks the order), three changes of
  links (`MaxFlips`); one `add_peripheral`; three scans of the browser.  `DroidCalls`:
  three calls: two discoveries and what comes between.
- The assumptions `NumbersRoundTrip`, `TextsRoundTrip`, `PartsAreBytes` and
  `ShortFormsStandForOne` of `MCBackends` are evaluated over all addresses in base 3,
  a few in base 256, all parts of up to four bytes out of five, and uuids at each
  boundary of the short forms.
- All other channels are unbounded, and bounded by the number of calls.
- `CHECK_DEADLOCK FALSE`: every instance has finitely many calls, and after them
  the system stops.
- Requests are interchangeable, so `Symmetry` permutes them; not in the runs of
  temporal properties of the form `~>`.

### Fairness

`Fairness` is weak fairness of handling messages, of handling events, and of the
framework's answers.  `wait_for_message` uses `futures::select!`, which polls its
branches in random order, so neither channel starves the other.  The framework
completes each operation of a link that is up, answers a `connectPeripheral` and
reports a cancelled connection.  Nothing is assumed of clients, of notifications,
of advertisements or of links that go down by themselves; `cb_connect` checks its
state properties and `EventuallySettled` under the same fair specification, and has
`Notifies = FALSE`, for nothing in its properties speaks of notifications.
In `BtlePlugFuture` a thread that has the state goes on, and the runtime polls
a task that is runnable.  In `DroidPeripheral` the framework completes the
operation it accepted and reports a `disconnect()`, and a thread that left the
monitor makes its report; that a device answers a `connect()`, and that a link
breaks, is nobody's duty, which is why `connect` is among the reasons of
`Blocked`.

## 4. Proofs

`CoreBluetoothInternalProofs` proves, for every set of devices, services,
characteristics, descriptors and calls and every layout of them,

    TypeCorrect            Spec => []TypeOK
    EveryFutureInOnePlace  Spec => []FutureInOnePlace
    EveryReplyFits         Spec => []ReplyFits

from the named assumptions on the constants (`DelegateAssumption`,
`CallAssumption`, `ScanAssumption`): the layout is a tree (a characteristic is
listed by its service and by no other), and attributes of different kinds,
requests and messages are different things.

The inductive invariant is `IInv == TypeOK /\ FutureInOnePlace /\ ReplyFits`.
None of the three parts is inductive alone.  That a reply fits needs to know that
the future at the head of a queue is of the queue's operation (`QueuesHold`), and
that a slot holds a future of its own call (`LinkSlotHolds`).  That a future
leaves its only place when it is answered needs that the queue has no duplicates
(`Distinct`) and that its `st` is `held`.  That a future taken from the message
channel is in no queue needs the `<=>` of `MessagesHold`.  `TypeOK` needs
`DelegateTypeOK`: which attribute an event can be about is what sends it to a
queue that exists.  The proof has one lemma per action; shared lemmas say what
`Settle`, `Pop`, `Push`, and emptying a set of queues do to each part.

`CoreBluetoothPipelineProofs` proves, for every set of devices and calls and every layout
of services, characteristics and descriptors,

    ConnectGivesWholeTree  Spec => ConnectedMeansDiscovered
    TagsRight              Spec => [](IInv /\ TagInv)
    EachItsAck             Spec => []OwnAck
    NoOtherQuietDeadlock   Spec => []NoQuietDeadlock
    AnsweredWithItsCompletion  Spec => AnsweredInTime
    DisconnectGoesDown     Spec => DisconnectedMeansDown
    DiesForCause           Spec => []PanicNeedsCause
    AcksNotStale           Spec => AckNotStale

These follow a request through the framework and the channel of events, so `IInv` is not
enough.  Five invariants are added to it.

- `TreeInv`: what the thread has of a device is part of its `WholeTree`, with all of the
  services or none; and a characteristic that is discovered, or whose service is, is there
  with its descriptors, and the framework has them (`WholeBelow`).  The last part is the
  delicate one: it holds until the loss of the link is in the channel, for then a second
  result for the service brings the characteristics without their descriptors.
- `TagInv`: the `req` of an operation at the device or of an event in the channel is a
  call of just this operation on this attribute of this device (`AttTags`, `EventTags`), no
  call is twice in the pipeline of its device (`Once`), and what a reply was made from has
  left the pipeline and made no other (`AckOnce`).  Every callback is one of six shapes
  (`CallbackShapes`) and every handler one of a few forms (`EventForms`), so that the
  invariants are proved once per shape and not once per action.
- `PipelineInv`: what is waited for is still on its way.  `HeldInv`: every future in a
  queue is followed by its operation, at the device or in the channel, unless there was an
  error or the link goes down; `OrderInv`: the queues are in the order of the pipeline,
  without which the answer taken from the head would be that of a younger call.
  `FollowInv`: what the delegate asked for with an event is still to come behind that
  event; `Undisc`: so a service that is not discovered is followed by what discovers it;
  `ConnectInv`: so a `connect()` that waits has something to wait for.
- `AheadInv`: of two calls in one queue, when the younger has its operation in the
  pipeline so has the older.  `HeldInv` says so only while the link is not being ended:
  a request that is made while it is goes nowhere, and waits behind others whose
  completions may still come.  With `OrderInv` it gives `OwnAnswerLeaves`, and so
  `AnsweredInTime`: a completion that leaves its call in the queue was given to an older
  one, whose own completion would have to come before it.
- `CarefulInv`: what holds of a device with which no client was hasty, while the thread
  runs (`Calm`).  It is what the last three theorems need, which all say "unless a client
  was hasty": that clients wait for one another is not a guard of the code, so what their
  waiting keeps apart has to be said of the whole pipeline at once.
  `LinkCalm`: a link does not come up while the end of the last one is unread; alone it
  gives `DisconnectGoesDown`.  `LinkOrder`: the end of a link is the last event about it,
  so no result of a connection is read in the next.  `DiscoverOnce`: nothing is discovered
  again, nor what led to it, which is where `FoundTwice` would break it.  `TreeGrows`: a
  result to come finds its service and its characteristic in the tree, or behind the event
  that brings them, and not complete yet; so none of the `expect`s of the handlers fails
  and the tree is not complete before the last result.  `SomeoneWaits`: so long a
  `connect()` waits, and nothing else has been asked of the device; so the `panic!` of
  `check_discovered` is not reached.  `PendingHeld`: a write whose operation is in the
  pipeline still waits in a queue, so whoever takes the head of a queue finds one
  (`AckFindsCall`), and an acknowledgement is never of a write that is over.  `Tagged` and
  `Truthful`: without errors a change of a subscription is reported as what was asked.
  A callback, a message and an event each keep it (`CallbackCareful`, `MessageCareful`,
  `EventCareful`); `DyingNeedsCause` goes through all that the thread can die of.

`CoreBluetoothAdapterProofs` proves, for channels of every size too
(`AdapterAssumption`, `ManagerAssumption`),

    NeverAddedTwice      SysSpec => []AddsOnce
    MapFollowsThread     SysSpec => []MapAgrees
    StreamsTellTheTruth  SysSpec => []StreamTruth
    SysTypeCorrect       SysSpec => []SysTypeOK

The inductive invariant of the first two is `SysIInv`.  Its heart, `ChannelInv`, says what the channel
will have done to the map when the task has read `n` of its events (`OutAfter`,
`InAfter`): after all of them the map holds what the thread knows, and before each
discovery the device is out.  Appending an event (`TellKeeps`) adds one to `n`,
reading one (`TakeKeeps`) takes one off, and a `disconnect()` (`LeaveKeeps`) only
removes what is removed later anyway or becomes `erased`.  `ThreadKnows` says which
handlers change what the thread knows; every step is one of `CoreBluetoothInternal`
or leaves it alone (`StepOfThread`), so its `TypeOK` carries over.

`StreamTruth` needs `StreamIInv`, which takes `IInv` and `TreeInv` of the thread along.
`HeardUp` is what a stream was sent last about a device, whether it has read it or not;
reading an event does not change it (`NextHears`) and an event that is sent decides it
(`SendHears`).  `HeardIsUp`: a device that is heard of as connected has a link, or its loss
is on its way, in the channel of the delegate or behind it (`LinkLives`, `GoneOnItsWay`).
`WholeIsHeard`: a device whose tree is complete was heard of, or the `connect()` that the
last piece of the tree answered is about to tell (`WholeStep`, `Returning`).  `EmitKeeps`
is where the two paths meet: an event that is not true when it is sent belies its device.

`BtlePlugFutureProofs` proves `Spec => []NoLostWakeup` and that every step is a
step of `Promise` or a stutter (`PromiseIsKept`, the safety part), for all sets
of futures and tasks.  The invariant adds that a task owns at most one future
(`OneEach`), that an owner is not doing something else (`OwnerBusy`), that
whoever is between two steps of `poll` or `set_reply` holds the mutex
(`Exclusion`) and that a reply that was set and not returned is still there
(`ReplyThere`).

`DroidProofs` proves, for every set of calls and whatever the framework
refuses or fails to do (`DroidAssumption`),

    EveryCallInOnePlace          Spec => []CallInOnePlace
    CompletionsFindTheirCommand  Spec => []OutstandingIsRunning
    NoNullGatt                   Spec => []ConnectedHasGatt
    StuckOnlyForCause            Spec => []StuckNeedsCause
    CommandsKeepOrder            Spec => KeepsOrder
    AdapterIsTold                Spec => []ToldTruth

`KeepsOrder` is `Queue!Spec`, so this theorem is the whole refinement.  The
inductive invariant `IInv` is the type invariant and the four state properties,
which need each other: that a completion is for the command that runs tells which
command ends, `ConnectedHasGatt` tells that a command that starts finds nothing
outstanding.  The heart is `RunKeeps`: whatever number of commands of a queue end
at once, the line is a tail of that queue, and the invariant holds of the command
that waits.  `WakeKeeps` applies it to the end of a command, `CallsKeeps` to a call
that comes while nothing runs.  `ToldTruth` follows from `ToldInv`: the report that is about
to be made is true, and with none to be made the reports of closed connections that are
still to come will make what the adapter knows true.

and of `DroidCalls`, for every set of calls and attributes as well,

    LaterDiscoveryStays  DroidCallsSpec => []DroidServicesFresh
    OkIsAnswered         DroidCallsSpec => []OkMeansAnswered

on top of the invariant of `DroidPeripheral`, which carries over because every step is one
of it or leaves it alone.  `FreshInv` adds that the
calls in some `ended` have returned, so that the discovery that is stored now is in
none of them.  `AnswerInv`
ties what a future was woken with to how its operation was completed; `RunEnds` says that
the commands that end at once, one after the other, end with an exception unless they
concern the link.

`WinrtPeripheralProofs` proves, for every set of calls, every list of services and
every number of workers (`WinrtAssumption`),

    TypeCorrect          Spec => []TypeOK
    CarefulFindsCurrent  Spec => []ServicesCurrent
    NoneClosedInUse      Spec => []UsedStaysOpen
    NeverInACircle       Spec => []NoCircle
    EventsFollowLink     Spec => [](IInv /\ EventInv)
    FlagIsRight          Spec => []FlagTruth
    ToldIsRight          Spec => []ToldTruth

The inductive invariant `IInv` adds where each call is (`CallsPlaced`), who holds the
mutex and who waits for the map (`LocksHeld`), that a device in its place is past the
steps that could drop it (`DeviceOwned`), and what a careful client keeps apart
(`Careful`): no two calls connect at once, none connects over a device, none discovers
during a disconnect, and a disconnect that waits for the mutex has left the map empty.
`NoCircle` follows from `LocksHeld`: the holder of the mutex waits for nothing but the
map, and who holds a reference into the map waits for nothing but Windows.
`EventInv` says who will still put right what the flag and the clients say of the link: a
handler that is queued or before its step (`Pending`), or a call that has stored the flag and
not told it; unless the last to store or tell it had been overtaken.

`BackendsProofs` proves, for every number of calls, scans, peripherals and changes and
every database,

    OneHandlerAlways      WinrtCharacteristicSpec => []WinrtOneHandler
    WinrtMirrors          BackendsSpec => []WinrtClientsKnowMap
    WinrtDiscovers        BackendsSpec => []WinrtDiscoversOnce
    DroidEventsFindMap    BackendsSpec => []DroidEventsHold
    WebScansTrapForCause  BackendsSpec => []WebTrapsExplained
    BluezReachesTheAsked  BluezSpec => []BluezReachesAsked
    BluezDelivers         BluezSpec => []BluezNotifies
    BluezStreamTells      BluezAdapterSpec => []BluezStreamTruth

- Three adapters share the variables of `ScanAdapter`, so their properties, and their
  theorems, are about the composition: each invariant is of the form `backend = ... =>
  ...`.  A step of another backend cannot break it, because `backend` never changes.
- Windows, a characteristic: `CharacteristicInv` says which handlers the token and `lost`
  account for, and what the call that holds the reference has left in `notify_token`.
- Windows, scans: `WinrtInv`.  That a client mirrors the map needs to know, for each
  place a handler can be at, what it has put into the map and not told
  (`WinrtMapInv`), whose entry it has borrowed, so that no one removes it
  (`WinrtReferences`), and that a handler without a peripheral holds nothing
  (`WinrtStrays`).  That nothing is discovered twice needs that a handler past its
  lookup is alone (`WinrtAlone`).
- Android, scans: `DroidScanInv` ties the report that is handled to the map and to
  `filled` (`DroidReportInv`), and an `add_peripheral` between its two steps to what
  others may have done meanwhile (`DroidMapInv`).
- Web: `WebInv`.  `WebReferences` and `WebOverlaps` say that the mutex of a peripheral's
  services is taken only by a scan that holds the entry of the map, which is why no scan
  traps there; `WebTraps` names what a trapped scan ran into.  `WebAssumption`: the
  values that stand for no scan and for the client's task are no scans.
- Linux: `BluezInv`.  `MapTrue` says that a map that is marked with the present database
  holds only what the database shows, with its place in the tree, also while a discovery
  collects a map that is not in its place yet (`Discovering`); `Asking` that a call
  that looked something up in it has a path with the uuids it was asked for, and
  `EventsTrue` and `DeliveredTrue` follow an event from BlueZ to the stream.
- Linux, stream: `BluezStreamInv`.  `LastTells` and `RestTells` say that the last event
  about a device among those not read yet (the synthesised ones, then the queued
  signals) tells what BlueZ knows now, and that without one the reader knows it;
  `WillDiscover` that a device there is, or was when the snapshot was taken, is
  discovered by one of them.  `BluezAdapterAssumption`: the devices of the adapter are
  finitely many.

`BDAddrProofs` proves the conversions of addresses for all of them, in base 256:

    AddressOfItsNumber   to_be_bytes and back
    NumberOfItsAddress   try_from accepts the numbers below 2^48, and keeps them
    AddressOfItsText     both texts are read as the address

Only model-checked is what is temporal: `EventuallySettled`, `CommandsEnd` and the
liveness of `KeepsPromise`.

Three properties were corrected because a proof of them failed and TLC then found a
counterexample in an instance made for it: `ConnectedMeansDiscovered` did not name the
loss of the link, and `AckNotStale` and `PanicNeedsCause` blamed included services only,
not every device that is found twice.
Out of the prover's reach are liveness under fairness and `ENABLED`, induction
over data with the library's theorems, and recursive operators; the modules here
need no recursion.

## 5. What the code does and its documentation does not say

1. `AlwaysReturns` (`future.rs:63`, "A [Future] implementation that we can always
   expect to return").  A `connect()` whose link drops before the discovery is
   over is removed with the peripheral and never answered.
2. `StillHaveFuture` (`internal.rs:274`).  The characteristics of a service that
   another one includes are discovered twice; the second result completes the
   tree when `connect()` has been answered, and the `panic!` is reached.  So it is with
   two services, or two characteristics of a service, of one UUID, as keyboards and mice
   have them (the Report characteristics of HID): `FoundTwice`.
3. `WriteOutcome` (`api/mod.rs:259`).  A failed write sends no event.  The next
   write's acknowledgement answers it `Ok`.
4. `ReadOutcome` (`api/mod.rs:268`).  `on_descriptor_read` pops the queue of the
   characteristic, so a read of the characteristic that is under way is answered by the
   completion of another operation.  It returns what the delegate sends with that
   completion, the value the characteristic was last known to have
   (`get_characteristic_value`, `central_delegate.rs:872`), before the device has answered
   it; the value of the descriptor reaches no one.
5. `DescriptorReadReturns` (`api/mod.rs:288`).  `Callback` of `Peripheral.java` does
   not override `onDescriptorRead`: a descriptor read never ends its command, and
   every later command waits behind it.

Addresses: the reader takes what `from_str_radix` takes, so `+1:+2:3:4:5:6` is an
address, and a text of twelve bytes whose second byte is inside a character panics
instead of being refused (`bdaddr.rs:170`).

Android: `Ok` of a read or a write does not say that the device accepted it
(`OkMeansAnswered` names the exceptions).

Web: two overlapping scans, or a client that reads a peripheral while a scan updates it,
end in a trap; a trap leaves its locks taken.

Windows: the excuses of three properties of `WinrtPeripheral` are reachable, and the
documentation does not mention them.  `peripheral.rs:393-394` says that the services
"must be refreshed" when a device is connected again.  After a lost link a client
connects without a `disconnect()`; the new `BLEDevice` replaces the old one, whose
services are closed, but they stay in the map and `discover_services` keeps them
(`careless`).  `peripheral.rs:355` says that `is_connected()` is true "iff we are
currently connected".  A `connect()` that is overtaken by the loss of its link, or
dropped by its caller when the handler has stored the flag, leaves it wrong (`misled`).
And tasks that wait for a reference into the map block the threads of the runtime,
which may be the ones that the holder of the reference needs (`Starved`).
A second `subscribe()`, or a `Drop` that could not remove its handler, leaves a handler
that no call can remove any more (`lost` of `WinrtCharacteristic`).

## 6. Not modelled

- In CoreBluetooth: `didUpdateState` at start-up, the three advertisement events
  and the scan filter (no state the properties see), the capacity of the delegate's
  and the clients' channels (256; a full one blocks the framework's queue), the tasks
  of `peripheral.rs` that feed properties and notifications, streams that subscribe
  late, and the drop of the delegate's sender while a
  callback runs (memory safety across the foreign interface).
- A sender that goes away without a reply is a `dropped` future in
  `CoreBluetoothInternal`; `BtlePlugFuture` looks at futures that are replied to.
- In Android: the notification streams, which keep nothing; a `connectGatt` that
  returns null; an advertisement without properties, which changes nothing.
- In Windows: `manager.rs`, the data of advertisements, a handler that Windows would
  call concurrently with itself (assumed not to happen), and clients that hold objects
  from before and after a rediscovery.
- In Linux: `connect()`, `disconnect()`, `properties()`, `is_connected()`, scanning and
  `manager.rs`, which pass one D-Bus call on and keep nothing.
- In the Web backend: operations on attributes and notifications, which keep no state or
  are `todo!()`; the stop of a scan, which does nothing.  That `connect()` under Tauri
  always asks for the address 00:00:00:00:00:00 is a constant and not a behaviour.
- `api/mod.rs` is flags and data; serialisation of addresses uses the conversions that are
  modelled; `common/util.rs` filters a stream.
- JNI bindings, Objective-C and WinRT glue: wrappers without state.

## 7. What is left

1. The tasks of `corebluetooth/peripheral.rs` with their channels and the notification
   streams (an object from before a rediscovery keeps a stream that nothing feeds any
   more), and streams that subscribe late.
2. The channels of `CoreBluetoothInternal` as uses of `Promise`.
