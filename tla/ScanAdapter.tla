---------------------------- MODULE ScanAdapter ----------------------------
(***************************************************************************)
(* What the adapters of the Windows, Android and Web backends have in      *)
(* common.  A handler of advertisements looks the peripheral up in the map *)
(* of the AdapterManager, updates or creates it, and tells the event       *)
(* streams, while other tasks report that a device was disconnected, which *)
(* removes it from the map.  Every access to the map and every send is a   *)
(* step; a reference into the map (dashmap::RefMut) that a task keeps      *)
(* makes all others wait for that entry.                                   *)
(***************************************************************************)
EXTENDS AdapterManager

CONSTANTS
    NoPeripheral,
    MaxFlips       \* BOUND: connections and disconnections

ASSUME ScanAssumption == NoPeripheral \notin PeripheralId /\ MaxFlips \in Nat

VARIABLES
    borrowed,      \* the peripherals with a RefMut to their entry
    link, flips,   \* link[id]: "down", "up", or "lost": removed, DeviceDisconnected not yet sent
    \* for the properties only
    listed,        \* the peripherals that ever were in the map
    mirrored,      \* what a reader of all events takes for the keys of the map
    strays,        \* events sent about a peripheral that was not in the map
    early,         \* those told as updated before they were told as discovered
    collided,      \* those whose add_peripheral failed its assertion, or replaced another one
    raced          \* those removed or inserted between a change of the map by another task
                   \* and the event about that change

placeVars == <<borrowed, link, flips>>
scanHistory == <<listed, mirrored, strays, early, collided, raced>>
scanVars == <<managerVars, placeVars, scanHistory>>

ScanInit ==
    /\ ManagerInit
    /\ borrowed = {}
    /\ link = [id \in PeripheralId |-> "down"]
    /\ flips = 0
    /\ listed = {} /\ mirrored = {} /\ strays = {} /\ early = {} /\ collided = {} /\ raced = {}

\* emit, of any event but DeviceDisconnected
Announce(kind, id) ==
    /\ SendEvent(Central(kind, id))
    /\ strays' = IF id \in peripherals THEN strays ELSE strays \cup {Central(kind, id)}
    /\ early' = IF kind = "DeviceUpdated" /\ id \notin mirrored THEN early \cup {id} ELSE early
    /\ mirrored' = IF kind = "DeviceDiscovered" THEN mirrored \cup {id} ELSE mirrored
    /\ UNCHANGED <<listed, collided, raced>>

\* add_peripheral: its assertion, then its insert.
Unlisted(id) == id \notin peripherals

AssertionFails(id) ==
    /\ collided' = collided \cup {id}
    /\ UNCHANGED <<managerVars, placeVars, listed, mirrored, strays, early, raced>>

Adds(id) ==
    /\ id \notin borrowed
    /\ Insert(id)
    /\ listed' = listed \cup {id}
    /\ collided' = IF id \in peripherals THEN collided \cup {id} ELSE collided
    /\ raced' = IF link[id] = "lost" THEN raced \cup {id} ELSE raced
    /\ UNCHANGED <<placeVars, mirrored, strays, early>>

\* A client that got the peripheral from the map, not long ago perhaps, is connected to it.
Arrives(id) ==
    /\ flips < MaxFlips /\ flips' = flips + 1
    /\ link[id] = "down" /\ id \in listed
    /\ link' = [link EXCEPT ![id] = "up"]
    /\ Announce("DeviceConnected", id)
    /\ UNCHANGED borrowed

\* emit(DeviceDisconnected): the removal ...
Departs(id, telling) ==
    /\ flips < MaxFlips /\ flips' = flips + 1
    /\ link[id] = "up"
    /\ id \notin borrowed
    /\ link' = [link EXCEPT ![id] = "lost"]
    /\ Remove(id)
    /\ raced' = IF id \in telling THEN raced \cup {id} ELSE raced
    /\ UNCHANGED <<borrowed, listed, mirrored, strays, early, collided>>

\* ... and the send.
Parts(id) ==
    /\ link[id] = "lost"
    /\ link' = [link EXCEPT ![id] = "down"]
    /\ SendEvent(Central("DeviceDisconnected", id))
    /\ mirrored' = mirrored \ {id}
    /\ UNCHANGED <<borrowed, flips, listed, strays, early, collided, raced>>

\* telling: the peripherals a task has looked up, created or inserted and has yet to tell.
Links(telling) == \E id \in PeripheralId : Arrives(id) \/ Departs(id, telling) \/ Parts(id)

\* A client that follows the events knows the keys of the map whenever no task is between
\* a change of the map and its event.
MirrorsMap(telling, excused) ==
    \A id \in PeripheralId \ (telling \cup raced \cup excused) :
        link[id] # "lost" => (id \in mirrored <=> id \in peripherals)
=============================================================================
