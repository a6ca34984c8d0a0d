---------------------------- MODULE BluezAdapter ----------------------------
(***************************************************************************)
(* The event stream of the Linux backend (src/src/bluez/adapter.rs).  It   *)
(* subscribes to the signals of BlueZ, then takes a snapshot of the        *)
(* devices, and delivers events made of the snapshot before those made of  *)
(* the signals, which may be older.  BlueZ is external.                    *)
(***************************************************************************)
EXTENDS Integers, Sequences, FiniteSets

CONSTANTS
    Device,
    Ours,          \* the devices that BlueZ lists under this adapter
    MaxSignals     \* BOUND: changes of devices

ASSUME BluezAdapterAssumption ==
    Ours \subseteq Device /\ IsFiniteSet(Ours) /\ MaxSignals \in Nat

VARIABLES
    known,         \* known[d]: whether BlueZ has the device, and whether it is connected:
                   \* "absent", "present" or "connected"
    signals,       \* changes so far
    setup,         \* where events() is: "none", "first" await done, "ready"
    queue,         \* signals received since the subscription
    initial,       \* events made of the snapshot
    filter,        \* the discovery filter is set and a scan is on
    \* what the reader of the stream knows
    discovered,
    linked,
    \* for the properties only
    missed         \* devices with an event that was dropped: get_device_info failed

bluezAdapterVars ==
    <<known, signals, setup, queue, initial, filter, discovered, linked, missed>>

Signal == {"Discovered", "Connected", "Disconnected", "Rssi", "Other"}

BluezAdapterInit ==
    /\ known \in [Device -> {"absent", "present", "connected"}]
    /\ signals = 0
    /\ setup = "none"
    /\ queue = <<>>
    /\ initial = <<>>
    /\ filter = FALSE
    /\ discovered = {}
    /\ linked = {}
    /\ missed = {}

----------------------------------------------------------------------------
(* BlueZ *)

\* What a change of the state of a device is told as.
SignalOf(from, to) ==
    CASE from = "absent" /\ to = "present"     -> "Discovered"
      [] from = "present" /\ to = "connected"  -> "Connected"
      [] from = "connected" /\ to = "present"  -> "Disconnected"
      [] from = "present" /\ to = "present"    -> "Rssi"
      [] OTHER                                 -> "Other"

\* Only the signals of this adapter reach its subscription.  A device appears, and its
\* advertisements are reported, while a scan is on.
DeviceChanges(d) ==
    /\ signals < MaxSignals
    /\ signals' = signals + 1
    /\ \E from, to \in {"absent", "present", "connected"} :
        /\ known[d] = from
        /\ <<from, to>> \notin {<<"absent", "absent">>, <<"absent", "connected">>,
                                <<"connected", "connected">>, <<"connected", "absent">>}
        /\ SignalOf(from, to) \in {"Discovered", "Rssi"} => filter
        /\ known' = [known EXCEPT ![d] = to]
        /\ queue' = IF d \in Ours /\ setup # "none"
                    THEN Append(queue, [signal |-> SignalOf(from, to), dev |-> d]) ELSE queue
    /\ UNCHANGED <<setup, initial, filter, discovered, linked, missed>>

----------------------------------------------------------------------------
(* events *)

\* The events made of the devices that BlueZ lists under the adapter.
Synthesised ==
    {e \in [signal : {"Discovered", "Connected"}, dev : Ours] :
        /\ known[e.dev] # "absent"
        /\ e.signal = "Connected" => known[e.dev] = "connected"}

\* session.get_devices, in any order: what is made of a device comes together.
Snapshot ==
    \E q \in [1..Cardinality(Synthesised) -> Synthesised] :
        /\ \A e \in Synthesised : \E i \in DOMAIN q : q[i] = e
        /\ \A i \in DOMAIN q : q[i].signal = "Connected" =>
              i > 1 /\ q[i - 1] = [signal |-> "Discovered", dev |-> q[i].dev]
        /\ initial' = q

\* Seeded fault: the snapshot is taken before the subscription, and the signals of the
\* meantime are missed.
SnapshotThenSubscribe ==
    \/ /\ setup = "none"
       /\ setup' = "none"
       /\ initial = <<>> /\ Snapshot
       /\ UNCHANGED queue
    \/ /\ setup = "none"
       /\ setup' = "ready"
       /\ UNCHANGED <<queue, initial>>

\* session.adapter_event_stream, then get_devices: an await each.
Subscribes ==
    \/ /\ setup = "none"
       /\ setup' = "first"
       /\ UNCHANGED <<queue, initial>>
    \/ /\ setup = "first"
       /\ setup' = "ready"
       /\ Snapshot
       /\ UNCHANGED queue

OpensStream == Subscribes /\ UNCHANGED <<known, signals, filter, discovered, linked, missed>>

\* The stream yields an event.
Yields(e) ==
    /\ discovered' = IF e.signal = "Discovered" THEN discovered \cup {e.dev} ELSE discovered
    /\ linked' = CASE e.signal = "Connected"    -> linked \cup {e.dev}
                   [] e.signal = "Disconnected" -> linked \ {e.dev}
                   [] OTHER                     -> linked

InitialEvent ==
    /\ setup = "ready"
    /\ initial # <<>>
    /\ Yields(Head(initial))
    /\ initial' = Tail(initial)
    /\ UNCHANGED <<known, signals, setup, queue, filter, missed>>

\* The next signal: one that no CentralEvent stands for is skipped, and so is one of a device
\* that get_device_info does not find any more.
SignalEvent ==
    /\ setup = "ready"
    /\ initial = <<>> /\ queue # <<>>
    /\ LET e == Head(queue)
       IN  IF e.signal = "Other" THEN UNCHANGED <<discovered, linked, missed>>
           ELSE IF known[e.dev] = "absent"
                THEN missed' = missed \cup {e.dev} /\ UNCHANGED <<discovered, linked>>
                ELSE Yields(e) /\ UNCHANGED missed
    /\ queue' = Tail(queue)
    /\ UNCHANGED <<known, signals, setup, initial, filter>>

StartStopScan ==
    /\ filter' = ~ filter
    /\ UNCHANGED <<known, signals, setup, queue, initial, discovered, linked, missed>>

BluezAdapterNext ==
    \/ \E d \in Device : DeviceChanges(d)
    \/ OpensStream \/ InitialEvent \/ SignalEvent \/ StartStopScan

BluezAdapterSpec == BluezAdapterInit /\ [][BluezAdapterNext]_bluezAdapterVars

----------------------------------------------------------------------------
(* Properties *)

\* A reader that has read everything the stream has for it has seen every device of the
\* adapter discovered and knows which are connected, and knows nothing of devices of other
\* adapters: no signal falls between the subscription and the snapshot, and an old signal that
\* comes after the snapshot does not spoil what the snapshot said.  The exception is a device
\* that was removed while a signal of it waited, whose event is dropped.
BluezStreamTruth ==
    setup = "ready" /\ initial = <<>> /\ queue = <<>>
      => \A d \in Device \ missed :
            /\ known[d] # "absent" /\ d \in Ours => d \in discovered
            /\ d \in linked <=> known[d] = "connected" /\ d \in Ours
=============================================================================
