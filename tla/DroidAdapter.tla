---------------------------- MODULE DroidAdapter ----------------------------
(***************************************************************************)
(* The adapter of the Android backend (src/src/droidplug/adapter.rs): the  *)
(* one ScanCallback reports advertisements, clients add peripherals by     *)
(* address, and the Java peripherals report connections.  An advertisement *)
(* that has no properties changes nothing and is left out.                 *)
(***************************************************************************)
EXTENDS ScanAdapter

CONSTANT Adder     \* the calls of add_peripheral

VARIABLES
    report,        \* the scan result that is handled: where, about which peripheral, whether it
                   \* is new, and whether the Peripheral at hand is the one in the map
    adding,        \* adding[c]: where call c is, and about which peripheral
    filled,        \* the listed Peripherals whose properties are stored
    \* for the properties only
    added          \* the peripherals that a client has asked to add

droidAdapterVars == <<scanVars, report, adding, filled, added>>

NoReport == [at |-> "idle", id |-> NoPeripheral, new |-> FALSE, current |-> FALSE]

DroidAdapterInit ==
    /\ ScanInit
    /\ report = NoReport
    /\ adding = [c \in Adder |-> [at |-> "idle", id |-> NoPeripheral]]
    /\ filled = {} /\ added = {}

\* report_scan_result: manager.peripheral, which clones what it finds
ReportScanResult(id) ==
    /\ report.at = "idle"
    /\ report' = IF Unlisted(id) THEN [at |-> "adds", id |-> id, new |-> TRUE, current |-> FALSE]
                 ELSE [at |-> "stores", id |-> id, new |-> FALSE, current |-> TRUE]
    /\ UNCHANGED <<scanVars, adding, filled, added>>

\* Another Peripheral is in the map, or none.
Replaced(id) ==
    /\ filled' = filled \ {id}
    /\ report' = IF report.id = id THEN [report EXCEPT !.current = FALSE] ELSE report

\* add, of a scan result; a panic ends the process.
AddNew ==
    \/ /\ report.at = "adds"
       /\ IF Unlisted(report.id)
          THEN report' = [report EXCEPT !.at = "inserts"] /\ UNCHANGED scanVars
          ELSE report' = [report EXCEPT !.at = "dead"] /\ AssertionFails(report.id)
       /\ UNCHANGED <<adding, filled, added>>
    \/ /\ report.at = "inserts"
       /\ Adds(report.id)
       /\ report' = [report EXCEPT !.at = "stores", !.current = TRUE]
       /\ filled' = filled \ {report.id}
       /\ UNCHANGED <<adding, added>>

\* add_peripheral of a client: it tells nobody, and panics when the peripheral is known.
AddPeripheralByAddress(c) ==
    /\ \/ /\ adding[c].at = "idle"
          /\ \E id \in PeripheralId :
                /\ adding' = [adding EXCEPT ![c] = [at |-> "adds", id |-> id]]
                /\ added' = added \cup {id}
          /\ UNCHANGED <<scanVars, report, filled>>
       \/ /\ adding[c].at = "adds"
          /\ IF Unlisted(adding[c].id)
             THEN adding' = [adding EXCEPT ![c].at = "inserts"] /\ UNCHANGED scanVars
             ELSE adding' = [adding EXCEPT ![c].at = "panicked"] /\ AssertionFails(adding[c].id)
          /\ UNCHANGED <<report, filled, added>>
       \/ /\ adding[c].at = "inserts"
          /\ Adds(adding[c].id)
          /\ Replaced(adding[c].id)
          /\ adding' = [adding EXCEPT ![c].at = "done"]
          /\ UNCHANGED added

\* Peripheral::report_properties
StoresProperties ==
    /\ report.at = "stores"
    /\ report' = [report EXCEPT !.at = "tells"]
    /\ filled' = IF report.current THEN filled \cup {report.id} ELSE filled
    /\ UNCHANGED <<scanVars, adding, added>>

TellsOfResult ==
    /\ report.at = "tells"
    /\ report' = [report EXCEPT !.at = "advertises"]
    /\ Announce(IF report.new THEN "DeviceDiscovered" ELSE "DeviceUpdated", report.id)
    /\ UNCHANGED <<placeVars, adding, filled, added>>

\* Seeded fault: the properties are stored after the event.
TellsBeforeStored ==
    \/ /\ report.at = "stores"
       /\ report' = [report EXCEPT !.at = "tells"]
       /\ Announce(IF report.new THEN "DeviceDiscovered" ELSE "DeviceUpdated", report.id)
       /\ UNCHANGED <<placeVars, adding, filled, added>>
    \/ /\ report.at = "tells"
       /\ report' = [report EXCEPT !.at = "advertises"]
       /\ filled' = IF report.current THEN filled \cup {report.id} ELSE filled
       /\ UNCHANGED <<scanVars, adding, added>>

\* report_properties
ReportProperties == StoresProperties \/ TellsOfResult

\* The events with the data of the advertisement.
TellsData ==
    /\ report.at = "advertises"
    /\ report' = NoReport
    /\ Announce("Advertisement", report.id)
    /\ UNCHANGED <<placeVars, adding, filled, added>>

\* adapter_on_connection_state_changed_internal
OnConnectionStateChanged ==
    /\ Links({report.id})
    /\ LET gone == peripherals \ peripherals'
       IN  /\ filled' = filled \ gone
           /\ report' = IF report.id \in gone THEN [report EXCEPT !.current = FALSE] ELSE report
    /\ UNCHANGED <<adding, added>>

DroidAdapterNext ==
    \/ \E id \in PeripheralId : ReportScanResult(id)
    \/ AddNew \/ ReportProperties \/ TellsData
    \/ \E c \in Adder : AddPeripheralByAddress(c)
    \/ OnConnectionStateChanged

DroidAdapterSpec == DroidAdapterInit /\ [][DroidAdapterNext]_droidAdapterVars

----------------------------------------------------------------------------
(* Properties *)

\* A client of the Android backend that reads an event of a scan finds the peripheral in the
\* adapter, with the properties of the advertisement, and one that follows the events knows
\* the map.  The handlers share no lock that makes it so; what breaks it is a disconnection
\* that overtakes a handler, and add_peripheral, which tells nobody, stores no properties,
\* and makes the check-then-insert of a scan fail.
DroidEventsTrue ==
    /\ collided \subseteq added
    /\ MirrorsMap(IF report.new THEN {report.id} ELSE {}, added)
    /\ \A id \in mirrored \cap peripherals : id \in filled \cup raced \cup added
    /\ \A e \in strays : e.ev \in LinkEvent \/ e.id \in raced
=============================================================================
