----------------------------- MODULE WebAdapter -----------------------------
(***************************************************************************)
(* Scanning in the Web backend (src/src/web/adapter.rs, and the parts of   *)
(* peripheral.rs, tauri.rs and utils.rs that it calls).                    *)
(*                                                                         *)
(* There is one thread, which runs a task until its next await.  Locks     *)
(* cannot be waited for: a task that finds one taken panics, in the        *)
(* browser a trap, which ends the task and no other, and leaves the locks  *)
(* it holds taken.                                                         *)
(*                                                                         *)
(* The peripherals have no connection events here, and a device keeps the  *)
(* uuid that add_or_get_uuid chose, so the uuid stands for the device.     *)
(***************************************************************************)
EXTENDS ScanAdapter

CONSTANTS
    WebScan,       \* the calls of start_scan
    NoScan,
    WebClient      \* a task of the client

ASSUME WebAssumption == NoScan \notin WebScan /\ WebClient \notin WebScan

VARIABLES
    tauri,         \* is_tauri()
    task,          \* task[s]: where the task that scan s spawned is, the device, whether it is new
    runs,          \* the task that the thread is running, between two steps
    locked,        \* the listed peripherals whose services mutex is taken
    \* for the properties only
    trapped,       \* [who, why]
    overlapped     \* two scans were under way at once

webVars == <<tauri, task, runs, locked, trapped, overlapped>>
webAdapterVars == <<scanVars, webVars>>

NoScanTask == [at |-> "idle", id |-> NoPeripheral, new |-> FALSE]

WebAdapterInit ==
    /\ ScanInit
    /\ tauri \in BOOLEAN
    /\ task = [s \in WebScan |-> NoScanTask]
    /\ runs = NoScan
    /\ locked = {} /\ trapped = {} /\ overlapped = FALSE

ScanGoes(s, t) == task' = [task EXCEPT ![s] = t]

Place(s, place) == ScanGoes(s, [task[s] EXCEPT !.at = place])

Traps(s, why) ==
    /\ Place(s, "trapped")
    /\ trapped' = trapped \cup {[who |-> s, why |-> why]}
    /\ UNCHANGED <<scanVars, tauri, runs, locked, overlapped>>

UnderWay(s) == task[s].at \notin {"idle", "done", "trapped"}

\* The task of start_scan asks the plugin of Tauri to scan, or the browser to let the user
\* choose a device.
WebStartScan(s) ==
    /\ task[s].at = "idle"
    /\ Place(s, IF tauri THEN "listens" ELSE "asks")
    /\ overlapped' = (overlapped \/ \E r \in WebScan : UnderWay(r))
    /\ UNCHANGED <<scanVars, tauri, runs, locked, trapped>>

\* A peripheral is inserted and told, without an await between.
Enlists(s) ==
    /\ Adds(task[s].id)
    /\ runs' = s
    /\ UNCHANGED <<tauri, locked, trapped, overlapped>>

TellsEnlisted(s) ==
    /\ runs = s
    /\ Announce("DeviceDiscovered", task[s].id)
    /\ runs' = NoScan
    /\ UNCHANGED <<placeVars, tauri, task, locked, trapped, overlapped>>

\* tauri::start_scan's handler: a device that is listed is left as it is.  The task that calls
\* it goes on after the scan has returned.
TauriDevice(s, id) ==
    /\ task[s].at \in {"listens", "done"} /\ tauri
    /\ Unlisted(id)
    /\ Adds(id)
    /\ ScanGoes(s, [task[s] EXCEPT !.id = id])
    /\ runs' = s
    /\ UNCHANGED <<tauri, locked, trapped, overlapped>>

TauriReturns(s) ==
    /\ task[s].at = "listens"
    /\ Place(s, "done")
    /\ UNCHANGED <<scanVars, tauri, runs, locked, trapped, overlapped>>

\* Seeded fault: the scan updates a clone, and keeps no reference into the map.
BorrowsClone(id) == UNCHANGED borrowed

Borrows(id) == borrowed' = borrowed \cup {id}

\* The user has chosen a device, or none: expect.
Chooses(s) ==
    /\ task[s].at = "asks"
    /\ \/ Traps(s, "cancelled")
       \/ \E id \in PeripheralId :
            IF id \in borrowed THEN Traps(s, "map")
            ELSE /\ ScanGoes(s, [at |-> "connects", id |-> id, new |-> Unlisted(id)])
                 /\ IF Unlisted(id) THEN UNCHANGED borrowed ELSE Borrows(id)
                 /\ UNCHANGED <<managerVars, link, flips, scanHistory, tauri, runs, locked,
                                trapped, overlapped>>

\* update_properties: the device is connected and its services are listed, or one of these
\* fails; then the mutex of the services is taken, across the awaits of what they contain.
GetPrimaryServices(s) ==
    /\ task[s].at = "connects"
    /\ \/ Place(s, "ends") /\ UNCHANGED <<scanVars, tauri, runs, locked, trapped, overlapped>>
       \/ /\ ~ task[s].new /\ task[s].id \in locked
          /\ Traps(s, "services")
       \/ /\ task[s].new \/ task[s].id \notin locked
          /\ Place(s, "gathers")
          /\ locked' = IF task[s].new THEN locked ELSE locked \cup {task[s].id}
          /\ UNCHANGED <<scanVars, tauri, runs, trapped, overlapped>>

\* update_properties ends, with all or some of the services.
GathersServices(s) ==
    /\ task[s].at = "gathers"
    /\ Place(s, "ends")
    /\ locked' = IF task[s].new THEN locked ELSE locked \ {task[s].id}
    /\ UNCHANGED <<scanVars, tauri, runs, trapped, overlapped>>

\* After update_properties.
WebUpdates(s) ==
    /\ task[s].at = "ends" /\ ~ task[s].new
    /\ Announce("DeviceUpdated", task[s].id)
    /\ borrowed' = borrowed \ {task[s].id}
    /\ Place(s, "done")
    /\ UNCHANGED <<link, flips, tauri, runs, locked, trapped, overlapped>>

WebAdds(s) ==
    /\ task[s].at = "ends" /\ task[s].new
    /\ IF task[s].id \in borrowed THEN Traps(s, "map")
       ELSE IF ~ Unlisted(task[s].id) THEN Traps(s, "listed")
       ELSE Enlists(s) /\ Place(s, "done")

\* A client calls peripherals(), or services() of a peripheral it has got.
ClientReads ==
    /\ \E id \in listed : \/ id \in borrowed /\ trapped' = trapped \cup {[who |-> WebClient, why |-> "map"]}
                          \/ id \in locked /\ trapped' = trapped \cup {[who |-> WebClient, why |-> "services"]}
    /\ UNCHANGED <<scanVars, tauri, task, runs, locked, overlapped>>

WebScanStep(s) ==
    \/ WebStartScan(s) \/ Chooses(s) \/ GetPrimaryServices(s) \/ GathersServices(s)
    \/ WebUpdates(s) \/ WebAdds(s) \/ TauriReturns(s)
    \/ \E id \in PeripheralId : TauriDevice(s, id)

WebAdapterNext ==
    \/ runs = NoScan /\ \/ \E s \in WebScan : WebScanStep(s)
                        \/ ClientReads
    \/ \E s \in WebScan : TellsEnlisted(s)

WebAdapterSpec == WebAdapterInit /\ [][WebAdapterNext]_webAdapterVars

----------------------------------------------------------------------------
(* Properties *)

\* A scan of the Web backend traps for the user's refusal, or, when it overlaps another scan,
\* at the map or because both create the same peripheral; the mutex of the services, held
\* across awaits, is never what it traps at, since the reference into the map is there to
\* keep other scans out.  The client itself may trap at either lock while a scan updates a
\* peripheral it has.  Between two stretches the events tell the map.
WebTrapsNeedCause ==
    /\ \A t \in trapped :
        t.who # WebClient => \/ t.why = "cancelled"
                             \/ t.why \in {"map", "listed"} /\ overlapped
    /\ strays = {} /\ early = {} /\ collided = {}
    /\ runs = NoScan => MirrorsMap({}, {})
=============================================================================
