------------------------ MODULE CoreBluetoothAdapter ------------------------
(***************************************************************************)
(* The CoreBluetooth backend as its clients see it: the thread of          *)
(* CoreBluetoothInternal, the task of src/src/corebluetooth/adapter.rs     *)
(* that reads the thread's events, and the ends of connect() and           *)
(* disconnect() in peripheral.rs, which tell the AdapterManager too.       *)
(*                                                                         *)
(* Two paths lead from the thread to the manager: the channel to the       *)
(* adapter's task, and the reply of a call to the task of its client.      *)
(* Nothing orders them.                                                    *)
(***************************************************************************)
EXTENDS CoreBluetoothInternal, AdapterManager

CONSTANT ChannelSize    \* of the channel to the adapter: 256 in the code

ASSUME AdapterAssumption == Device \subseteq PeripheralId /\ ChannelSize \in Nat

VARIABLES
    adapter_channel,  \* the CoreBluetoothEvents the adapter's task has not read
    adapter_emits,    \* <<e>> when that task is about to send e, <<>> otherwise
    adapter_died,     \* that task has panicked
    listed,           \* the devices that were in the map once: clients may hold them
    emitting,         \* the disconnect() calls between the two halves of their emit()
    returned,         \* the connect() and disconnect() calls that returned
    belied,           \* history: devices whose last link event was not true when it was sent
    erased            \* history: devices that a late disconnect() removed from the map

taskVars == <<adapter_channel, adapter_emits, adapter_died, listed, emitting, returned>>
historyVars == <<belied, erased>>
sysVars == <<vars, managerVars, taskVars, historyVars>>

SysInit ==
    /\ Init
    /\ ManagerInit
    /\ adapter_channel = <<>>
    /\ adapter_emits = <<>>
    /\ adapter_died = FALSE
    /\ listed = {}
    /\ emitting = {}
    /\ returned = {}
    /\ belied = {}
    /\ erased = {}

----------------------------------------------------------------------------
(* The thread. *)

\* Seeded fault: the event overtakes those that are not read yet.
SendsFirst(kind, d) ==
    /\ Len(adapter_channel) < ChannelSize
    /\ adapter_channel' = <<Central(kind, d)>> \o adapter_channel

\* dispatch_event, which keeps the thread waiting while the channel is full.
Sends(kind, d) ==
    /\ Len(adapter_channel) < ChannelSize
    /\ adapter_channel' = Append(adapter_channel, Central(kind, d))

\* What the thread dispatches while it handles an event.  A device that is discovered
\* again is updated if it has a name.
Dispatch ==
    LET d    == Head(delegate).dev
        Seen == Head(delegate).ev = "DiscoveredPeripheral"
        Lost == Head(delegate).ev = "DisconnectedDevice"
    IN  \/ Seen /\ d \notin known /\ Sends("DeviceDiscovered", d)
        \/ /\ Seen /\ d \in known
           /\ \A i \in DOMAIN adapter_channel :       \* BOUND: one update in the channel
                 adapter_channel[i].ev # "DeviceUpdated"
           /\ Sends("DeviceUpdated", d)
        \/ Lost /\ d \in known /\ Sends("DeviceDisconnected", d)
        \/ /\ Seen => d \in known
           /\ Lost => d \notin known
           /\ UNCHANGED adapter_channel

ThreadHandlesEvent ==
    /\ HandleEvent
    /\ Dispatch
    /\ UNCHANGED <<managerVars, adapter_emits, adapter_died, listed, emitting, returned, historyVars>>

\* Steps that tell the adapter nothing.  A client calls a peripheral it found in the map.
Others ==
    /\ \/ ClientScans
       \/ \E r \in Req : ask[r].dev \in listed /\ ClientCalls(r)
       \/ HandleMessage
       \/ Framework
    /\ UNCHANGED <<managerVars, taskVars, historyVars>>

----------------------------------------------------------------------------
(* Sending to the streams. *)

\* Whether a link event is true when it is sent.
IsTrue(e) == IF e.ev = "DeviceConnected" THEN e.id \in known /\ cb[e.id].link = "connected"
                                         ELSE e.id \notin known

Emit(e) ==
    /\ SendEvent(e)
    /\ belied' = IF e.ev \notin LinkEvent THEN belied
                 ELSE IF IsTrue(e) THEN belied \ {e.id} ELSE belied \cup {e.id}

----------------------------------------------------------------------------
(* The task of the adapter. *)

TaskTakes(kind) ==
    /\ adapter_emits = <<>> /\ ~ adapter_died
    /\ adapter_channel # <<>>
    /\ Head(adapter_channel).ev = kind
    /\ adapter_channel' = Tail(adapter_channel)
    /\ UNCHANGED <<vars, emitting, returned>>

\* add_peripheral asserts that the peripheral is not in the map; the panic ends the task.
AdapterAdds ==
    /\ TaskTakes("DeviceDiscovered")
    /\ LET e == Head(adapter_channel)
       IN  IF e.id \in peripherals
           THEN adapter_died' = TRUE /\ UNCHANGED <<managerVars, adapter_emits, listed, erased>>
           ELSE /\ Insert(e.id)
                /\ adapter_emits' = <<e>>
                /\ listed' = listed \cup {e.id}
                /\ erased' = erased \ {e.id}
                /\ UNCHANGED adapter_died
    /\ UNCHANGED belied

\* The entry of the map is locked until the event is sent.
AdapterUpdates ==
    /\ TaskTakes("DeviceUpdated")
    /\ LET e == Head(adapter_channel)
       IN  IF e.id \in peripherals THEN Emit(e) ELSE UNCHANGED <<managerVars, belied>>
    /\ UNCHANGED <<adapter_emits, adapter_died, listed, erased>>

\* Seeded fault: the device goes from the map without an event.
RemovesQuietly ==
    /\ TaskTakes("DeviceDisconnected")
    /\ Remove(Head(adapter_channel).id)
    /\ UNCHANGED <<adapter_emits, adapter_died, listed, historyVars>>

AdapterRemoves ==
    /\ TaskTakes("DeviceDisconnected")
    /\ LET e == Head(adapter_channel)
       IN  Remove(e.id) /\ adapter_emits' = <<e>>
    /\ UNCHANGED <<adapter_died, listed, historyVars>>

AdapterEmits ==
    /\ adapter_emits # <<>>
    /\ Emit(Head(adapter_emits))
    /\ adapter_emits' = <<>>
    /\ UNCHANGED <<vars, adapter_channel, adapter_died, listed, emitting, returned, erased>>

----------------------------------------------------------------------------
(* The ends of connect() and disconnect(), in the tasks of clients. *)

Answered(r, op, kind) ==
    /\ st[r] = "answered"
    /\ ask[r].op = op
    /\ reply[r].kind = kind
    /\ r \notin returned

ConnectReturns(r) ==
    /\ Answered(r, "connect", "Connected")
    /\ Emit(Central("DeviceConnected", ask[r].dev))
    /\ returned' = returned \cup {r}
    /\ UNCHANGED <<vars, adapter_channel, adapter_emits, adapter_died, listed, emitting, erased>>

\* Its device may have been discovered anew since the thread answered.
DisconnectRemoves(r) ==
    LET d == ask[r].dev
    IN  /\ Answered(r, "disconnect", "Ok")
        /\ r \notin emitting
        /\ Remove(d)
        /\ emitting' = emitting \cup {r}
        /\ erased' = IF /\ d \in peripherals
                        /\ \A i \in DOMAIN adapter_channel :
                              adapter_channel[i] # Central("DeviceDisconnected", d)
                     THEN erased \cup {d} ELSE erased
        /\ UNCHANGED <<vars, adapter_channel, adapter_emits, adapter_died, listed, returned, belied>>

DisconnectReturns(r) ==
    /\ r \in emitting
    /\ Emit(Central("DeviceDisconnected", ask[r].dev))
    /\ emitting' = emitting \ {r}
    /\ returned' = returned \cup {r}
    /\ UNCHANGED <<vars, adapter_channel, adapter_emits, adapter_died, listed, erased>>

ClientReads(s) == StreamNext(s) /\ UNCHANGED <<vars, taskVars, historyVars>>

----------------------------------------------------------------------------
SysNext ==
    \/ ThreadHandlesEvent
    \/ Others
    \/ AdapterAdds
    \/ AdapterUpdates
    \/ AdapterRemoves
    \/ AdapterEmits
    \/ \E r \in Req : ConnectReturns(r) \/ DisconnectRemoves(r) \/ DisconnectReturns(r)
    \/ \E s \in Stream : ClientReads(s)

SysSpec == SysInit /\ [][SysNext]_sysVars

----------------------------------------------------------------------------
(* Properties. *)

\* Type invariant of the adapter's task and of the manager.
SysTypeOK ==
    /\ ManagerTypeOK
    /\ adapter_channel \in Seq(CentralEvent)
    /\ Len(adapter_channel) <= ChannelSize
    /\ adapter_emits \in Seq(CentralEvent) /\ Len(adapter_emits) <= 1
    /\ adapter_died \in BOOLEAN
    /\ listed \subseteq PeripheralId
    /\ emitting \subseteq Req
    /\ returned \subseteq Req
    /\ belied \subseteq PeripheralId
    /\ erased \subseteq PeripheralId

\* The assertion of add_peripheral holds: whatever disconnects and is discovered again, and
\* whoever removes it from the map meanwhile, the adapter's task does not panic.
AddsOnce == ~ adapter_died

\* The task of the adapter has nothing to do for d.
Drained(d) ==
    /\ adapter_emits = <<>>
    /\ \A i \in DOMAIN adapter_channel : adapter_channel[i].id # d

\* The map holds what the thread knows, except for devices that a late disconnect() removed
\* after they had been discovered anew: those stay unlisted for ever.
MapAgrees ==
    panic = "none" =>
        \A d \in Device : Drained(d) =>
            /\ d \in peripherals => d \in known
            /\ d \in known => d \in peripherals \/ d \in erased

Found(d) == Central("DeviceDiscovered", d)
Gone(d)  == Central("DeviceDisconnected", d)

\* When the adapter's task will have handled n events, d will not be in the map.
OutAfter(n, d) ==
    \/ \E j \in 1..n : /\ adapter_channel[j] = Gone(d)
                       /\ \A k \in 1..n : k > j => adapter_channel[k] # Found(d)
    \/ d \notin peripherals /\ \A k \in 1..n : adapter_channel[k] # Found(d)

\* d will be in the map, unless it was erased.
InAfter(n, d) ==
    \/ \E j \in 1..n : /\ adapter_channel[j] = Found(d)
                       /\ \A k \in 1..n : k > j => adapter_channel[k] # Gone(d)
    \/ d \in peripherals \cup erased /\ \A k \in 1..n : adapter_channel[k] # Gone(d)

\* The inductive invariant: what the thread knows is what the map will hold, and each
\* discovery in the channel will find the device gone.
ChannelInv ==
    \A d \in Device :
        /\ \A i \in DOMAIN adapter_channel : adapter_channel[i] = Found(d) => OutAfter(i - 1, d)
        /\ panic = "none" => IF d \in known THEN InAfter(Len(adapter_channel), d)
                                            ELSE OutAfter(Len(adapter_channel), d)

ChannelEvent == [ev : {"DeviceDiscovered", "DeviceUpdated"} \cup LinkEvent, id : Device]

ChannelType == adapter_channel \in Seq(ChannelEvent)

SysIInv ==
    /\ TypeOK
    /\ ChannelType
    /\ AddsOnce
    /\ ChannelInv
    /\ panic # "none" => delegate = <<>>

\* Nobody has anything left to tell about d.
Told(d) ==
    /\ Drained(d)
    /\ \A i \in DOMAIN delegate : delegate[i].dev # d
    /\ \A r \in Req : ask[r].dev = d =>
          ~ Answered(r, "connect", "Connected") /\ ~ Answered(r, "disconnect", "Ok")

\* A connect() was answered on the link that is up.
Up(d) == d \in known /\ cb[d].link = "connected" /\ tree[d].has # {} /\ Complete(tree[d])

\* A stream that lost no event has told its client in the end whether d is connected, unless
\* the last task to report was so late that its report was no longer true.
StreamTruth ==
    panic = "none" =>
        \A d \in Device \ belied, s \in Stream \ lagged :
            Told(d) /\ unread[s] = <<>> =>
                /\ seen[s][d] = "DeviceConnected" => cb[d].link \in {"connected", "disconnecting"}
                /\ Up(d) => seen[s][d] = "DeviceConnected"
=============================================================================
