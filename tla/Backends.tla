------------------------------ MODULE Backends ------------------------------
(***************************************************************************)
(* The backends that have no thread of their own, side by side.  A         *)
(* behaviour is one of the backend that its first state chooses; the       *)
(* others stay in a state they may start in.                               *)
(***************************************************************************)
EXTENDS BluezPeripheral, BluezAdapter, WinrtAdapter, WinrtCharacteristic, DroidAdapter,
        DroidCalls, WebAdapter

VARIABLE backend

Backends == {"bluez peripheral", "bluez adapter", "winrt adapter", "winrt characteristic",
             "droid adapter", "droid calls", "web adapter"}

BackendsInit ==
    /\ backend \in Backends
    /\ BluezInit
    /\ BluezAdapterInit
    /\ WinrtAdapterInit
    /\ WinrtCharacteristicInit
    /\ DroidAdapterInit
    /\ DroidCallsInit
    /\ WebAdapterInit

winrtOnlyVars == <<received, watching, at, about>>
droidOnlyVars == <<report, adding, filled, added>>

BackendsNext ==
    /\ UNCHANGED backend
    /\ \/ /\ backend = "bluez peripheral" /\ BluezNext
          /\ UNCHANGED <<bluezAdapterVars, scanVars, winrtOnlyVars, winrtCharacteristicVars,
                         droidOnlyVars, droidCallsVars, webVars>>
       \/ /\ backend = "bluez adapter" /\ BluezAdapterNext
          /\ UNCHANGED <<bluezVars, scanVars, winrtOnlyVars, winrtCharacteristicVars,
                         droidOnlyVars, droidCallsVars, webVars>>
       \/ /\ backend = "winrt adapter" /\ WinrtAdapterNext
          /\ UNCHANGED <<bluezVars, bluezAdapterVars, winrtCharacteristicVars, droidOnlyVars,
                         droidCallsVars, webVars>>
       \/ /\ backend = "winrt characteristic" /\ WinrtCharacteristicNext
          /\ UNCHANGED <<bluezVars, bluezAdapterVars, scanVars, winrtOnlyVars, droidOnlyVars,
                         droidCallsVars, webVars>>
       \/ /\ backend = "droid adapter" /\ DroidAdapterNext
          /\ UNCHANGED <<bluezVars, bluezAdapterVars, winrtOnlyVars, winrtCharacteristicVars,
                         droidCallsVars, webVars>>
       \/ /\ backend = "droid calls" /\ DroidCallsNext
          /\ UNCHANGED <<bluezVars, bluezAdapterVars, scanVars, winrtOnlyVars,
                         winrtCharacteristicVars, droidOnlyVars, webVars>>
       \/ /\ backend = "web adapter" /\ WebAdapterNext
          /\ UNCHANGED <<bluezVars, bluezAdapterVars, winrtOnlyVars, winrtCharacteristicVars,
                         droidOnlyVars, droidCallsVars>>

allVars == <<backend, bluezVars, bluezAdapterVars, scanVars, winrtOnlyVars,
             winrtCharacteristicVars, droidOnlyVars, droidCallsVars, webVars>>

BackendsSpec == BackendsInit /\ [][BackendsNext]_allVars

----------------------------------------------------------------------------
(* The properties of the three adapters that share their variables. *)

\* WinrtMirrorsMap, of the Windows backend: a client that follows the events knows the map.
WinrtClientsKnowMap == backend = "winrt adapter" => WinrtMirrorsMap

\* WinrtOneDiscovery, of the Windows backend: with one handler a peripheral is discovered once,
\* before it is updated.
WinrtDiscoversOnce == backend = "winrt adapter" => WinrtOneDiscovery

\* DroidEventsTrue, of the Android backend: an event of a scan finds the peripheral with its
\* properties.
DroidEventsHold == backend = "droid adapter" => DroidEventsTrue

\* WebTrapsNeedCause, of the Web backend: what a scan may trap at.
WebTrapsExplained == backend = "web adapter" => WebTrapsNeedCause
=============================================================================
