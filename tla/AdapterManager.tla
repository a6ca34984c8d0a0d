--------------------------- MODULE AdapterManager ---------------------------
(***************************************************************************)
(* What the backends share (src/src/common/adapter_manager.rs): the map of *)
(* the peripherals that were discovered, and a broadcast channel to the    *)
(* event streams of the clients.  It has no thread of its own: the tasks   *)
(* of a backend call it concurrently, so each access to the map and each   *)
(* send is a step of theirs.                                               *)
(*                                                                         *)
(* A receiver of the broadcast channel that is Capacity events behind      *)
(* loses the oldest, and event_stream hides that it did.                   *)
(***************************************************************************)
EXTENDS Integers, Sequences

CONSTANTS
    PeripheralId,
    Stream,        \* the event streams of clients, all subscribed from the start
    Capacity       \* of the broadcast channel: 16 in the code

ASSUME ManagerAssumption == Capacity \in Nat \ {0}

VARIABLES
    peripherals,   \* the keys of the map
    unread,        \* unread[s]: the events the channel holds for stream s, oldest first
    seen,          \* seen[s][id]: the last event about the connection of id that s got
    lagged         \* history: the streams that lost an event

managerVars == <<peripherals, unread, seen, lagged>>

LinkEvent == {"DeviceConnected", "DeviceDisconnected"}

\* "Advertisement" stands for the three events that carry data of an advertisement.
CentralEvent ==
    [ev : {"DeviceDiscovered", "DeviceUpdated", "Advertisement"} \cup LinkEvent, id : PeripheralId]

Central(kind, id) == [ev |-> kind, id |-> id]

ManagerInit ==
    /\ peripherals = {}
    /\ unread = [s \in Stream |-> <<>>]
    /\ seen = [s \in Stream |-> [id \in PeripheralId |-> "none"]]
    /\ lagged = {}

\* What the channel keeps of a receiver's queue.
Retained(q) == IF Len(q) > Capacity THEN Tail(q) ELSE q

\* events_channel.send
SendEvent(e) ==
    /\ unread' = [s \in Stream |-> Retained(Append(unread[s], e))]
    /\ lagged' = lagged \cup {s \in Stream : Len(unread[s]) = Capacity}
    /\ UNCHANGED <<peripherals, seen>>

\* Seeded fault: a disconnected peripheral stays in the map.
KeepEntry(id) == UNCHANGED managerVars

\* The first half of emit(DeviceDisconnected(id)).
Remove(id) ==
    /\ peripherals' = peripherals \ {id}
    /\ UNCHANGED <<unread, seen, lagged>>

\* The insert of add_peripheral, when its assertion holds.
Insert(id) ==
    /\ peripherals' = peripherals \cup {id}
    /\ UNCHANGED <<unread, seen, lagged>>

\* A client takes the next event of its stream.
StreamNext(s) ==
    /\ unread[s] # <<>>
    /\ LET e == Head(unread[s])
       IN  seen' = IF e.ev \in LinkEvent THEN [seen EXCEPT ![s][e.id] = e.ev] ELSE seen
    /\ unread' = [unread EXCEPT ![s] = Tail(@)]
    /\ UNCHANGED <<peripherals, lagged>>

ManagerTypeOK ==
    /\ peripherals \subseteq PeripheralId
    /\ unread \in [Stream -> Seq(CentralEvent)]
    /\ \A s \in Stream : Len(unread[s]) <= Capacity
    /\ seen \in [Stream -> [PeripheralId -> {"none"} \cup LinkEvent]]
    /\ lagged \subseteq Stream
=============================================================================
