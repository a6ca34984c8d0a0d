---------------------------- MODULE WinrtAdapter ----------------------------
(***************************************************************************)
(* Scanning in the Windows backend (src/src/winrtble/adapter.rs,           *)
(* ble/watcher.rs, and the parts of peripheral.rs that they call).         *)
(*                                                                         *)
(* Each start_scan registers a Received handler of its own with the one    *)
(* BluetoothLEAdvertisementWatcher, and none is ever removed.  Windows     *)
(* calls the handlers of an advertisement on threads of its own; one       *)
(* handler is not called again before it has returned.                     *)
(***************************************************************************)
EXTENDS ScanAdapter

CONSTANT Scan      \* the calls of start_scan, each with its handler

VARIABLES
    received,      \* the handlers that are registered
    watching,      \* the watcher is started
    at,            \* at[h]: where handler h is
    about          \* about[h]: the peripheral it was called for

winrtAdapterVars == <<scanVars, received, watching, at, about>>

WinrtAdapterInit ==
    /\ ScanInit
    /\ received = {}
    /\ watching = FALSE
    /\ at = [h \in Scan |-> "idle"]
    /\ about = [h \in Scan |-> NoPeripheral]

Moves(h, place) ==
    /\ at' = [at EXCEPT ![h] = place]
    /\ about' = IF place = "idle" THEN [about EXCEPT ![h] = NoPeripheral] ELSE about
    /\ UNCHANGED <<received, watching>>

\* Adapter::start_scan, under the mutex of the watcher; Windows may refuse to register the
\* handler, or refuse to start after that.
StartScan(h) ==
    /\ h \notin received
    /\ received' = received \cup {h}
    /\ watching' \in {watching, TRUE}
    /\ UNCHANGED <<scanVars, at, about>>

StopScan ==
    /\ watching /\ watching' = FALSE
    /\ UNCHANGED <<scanVars, received, at, about>>

\* Seeded fault: the handler updates a clone, and keeps no reference into the map.
LooksAtClone(h, id) == UNCHANGED borrowed

KeepsReference(h, id) == borrowed' = borrowed \cup {id}

\* The handler is called: manager.peripheral_mut
Received(h, id) ==
    /\ h \in received /\ watching /\ at[h] = "idle"
    /\ id \notin borrowed
    /\ about' = [about EXCEPT ![h] = id]
    /\ IF Unlisted(id) THEN at' = [at EXCEPT ![h] = "creates"] /\ UNCHANGED borrowed
                       ELSE at' = [at EXCEPT ![h] = "updates"] /\ KeepsReference(h, id)
    /\ UNCHANGED <<managerVars, link, flips, scanHistory, received, watching>>

\* Peripheral::update_properties, of a new peripheral before it is in the map; it tells of
\* the data that the advertisement has.
UpdateProperties(h) ==
    \E from \in {"updates", "creates"} :
        /\ at[h] = from
        /\ Moves(h, IF from = "updates" THEN "tells" ELSE "adds")
        /\ Announce("Advertisement", about[h]) \/ UNCHANGED <<managerVars, scanHistory>>
        /\ UNCHANGED placeVars

\* emit(DeviceUpdated), and the end of the reference
TellsUpdated(h) ==
    /\ at[h] = "tells"
    /\ Announce("DeviceUpdated", about[h])
    /\ borrowed' = borrowed \ {about[h]}
    /\ Moves(h, "idle")
    /\ UNCHANGED <<link, flips>>

\* add_peripheral; a handler whose assertion fails is not called again.
AddPeripheral(h) ==
    \/ /\ at[h] = "adds" /\ about[h] \notin borrowed
       /\ IF Unlisted(about[h]) THEN Moves(h, "inserts") /\ UNCHANGED scanVars
                                ELSE Moves(h, "dead") /\ AssertionFails(about[h])
    \/ /\ at[h] = "inserts"
       /\ Adds(about[h])
       /\ Moves(h, "announces")

TellsDiscovered(h) ==
    /\ at[h] = "announces"
    /\ Announce("DeviceDiscovered", about[h])
    /\ Moves(h, "idle")
    /\ UNCHANGED placeVars

\* The peripherals that a handler has inserted and not told of.
WinrtTelling == {about[h] : h \in {h \in Scan : at[h] = "announces"}}

WinrtAdapterNext ==
    \/ StopScan
    \/ \E h \in Scan :
        \/ StartScan(h)
        \/ \E id \in PeripheralId : Received(h, id)
        \/ UpdateProperties(h) \/ TellsUpdated(h) \/ AddPeripheral(h) \/ TellsDiscovered(h)
    \/ Links(WinrtTelling) /\ UNCHANGED <<received, watching, at, about>>

WinrtAdapterSpec == WinrtAdapterInit /\ [][WinrtAdapterNext]_winrtAdapterVars

----------------------------------------------------------------------------
(* Properties *)

\* A client that follows the events of the Windows backend knows which peripherals
\* adapter.peripherals() lists, however handlers and disconnections interleave, except for
\* one that is found again between the removal and the send of emit(DeviceDisconnected), or
\* that is removed before it was announced.
WinrtMirrorsMap == MirrorsMap(WinrtTelling, {})

\* With one handler no add_peripheral finds its peripheral listed, no peripheral is updated
\* before it was discovered, and an event is about a listed one unless it is the data of a new
\* one, a connection, or the discovery of one that was disconnected meanwhile.  The reference
\* into the map makes a disconnection wait for DeviceUpdated.  With a second handler, from a
\* second start_scan, the first two are lost.
WinrtOneDiscovery ==
    /\ \A e \in strays : /\ e.ev # "DeviceUpdated"
                         /\ e.ev = "DeviceDiscovered" => e.id \in raced
    /\ collided \cup (early \ raced) # {} => \E h, g \in received : h # g
=============================================================================
