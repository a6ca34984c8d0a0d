-------------------------- MODULE BluezPeripheral --------------------------
(***************************************************************************)
(* The Peripheral of the Linux backend (src/src/bluez/peripheral.rs).      *)
(* It has no thread: the tasks of clients ask BlueZ over D-Bus and keep    *)
(* what they learned in a map from uuids to D-Bus object paths, one map    *)
(* for each Peripheral object and its clones.                              *)
(*                                                                         *)
(* BlueZ, external, shows a database of attributes at object paths.  When  *)
(* the device changes its database or is connected anew the paths may be   *)
(* used again for other attributes.  An attribute is named by the uuids on *)
(* the way to it: <<service>>, <<service, characteristic>> or              *)
(* <<service, characteristic, descriptor>>.                                *)
(***************************************************************************)
EXTENDS Integers, Sequences, FiniteSets

CONSTANTS
    Uuid, Path,
    Root,          \* the path of the device
    Databases,     \* what the device may show: functions from paths to [uuids, parent]
    Object,        \* the Peripheral objects a client got from the adapter
    BluezCall,     \* the calls of clients, each made once
    MaxChanges     \* BOUND: changes of the database

Item == [uuids : UNION {[1..n -> Uuid] : n \in 1..3}, path : Path]

Attributes(db) == {[uuids |-> db[p].uuids, path |-> p] : p \in DOMAIN db}

ASSUME BluezAssumption ==
    /\ Root \notin Path
    /\ MaxChanges \in Nat
    /\ \A db \in Databases :
        /\ Attributes(db) \subseteq Item
        /\ \A p \in DOMAIN db :
            IF Len(db[p].uuids) = 1 THEN db[p].parent = Root
            ELSE /\ db[p].parent \in DOMAIN db
                 /\ db[db[p].parent].uuids = SubSeq(db[p].uuids, 1, Len(db[p].uuids) - 1)

VARIABLES
    database,      \* the database that BlueZ shows, and how often it has changed
    changes,
    notifying,     \* the paths whose values BlueZ reports
    services,      \* services[o]: the map of object o, the nested HashMaps as a set of items
    stage,         \* stage[c]: where call c is
    work,          \* work[c]: what it is about, and what it has gathered
    events,        \* events[o]: values reported that the notification stream of o has not seen
    \* for the properties only
    since,         \* since[o]: `changes` when the discovery that filled the map began, or -1
    delivered      \* delivered[o]: what the stream made of the last event

bluezVars == <<database, changes, notifying, services, stage, work, events, since, delivered>>

NoWork == [obj |-> CHOOSE o \in Object : TRUE, uuids |-> <<>>, todo |-> {}, gathered |-> {},
           path |-> Root, since |-> -1, reached |-> <<>>]
NoEvent == [uuids |-> <<>>, path |-> Root, at |-> -1]

BluezInit ==
    /\ database \in Databases
    /\ changes = 0
    /\ notifying = {}
    /\ services = [o \in Object |-> {}]
    /\ stage = [c \in BluezCall |-> "idle"]
    /\ work = [c \in BluezCall |-> NoWork]
    /\ events = [o \in Object |-> <<>>]
    /\ since = [o \in Object |-> -1]
    /\ delivered = [o \in Object |-> [event |-> NoEvent, uuid |-> "none", since |-> -1]]

----------------------------------------------------------------------------
(* BlueZ *)

Children(p) == {q \in DOMAIN database : database[q].parent = p}

\* What a query of the children of an item returns: their infos, with the uuids the client
\* will file them under.
Listed(i) == {[uuids |-> Append(i.uuids, database[q].uuids[Len(database[q].uuids)]), path |-> q]
                  : q \in Children(i.path)}

DatabaseChanges ==
    /\ changes < MaxChanges
    /\ database' \in Databases \ {database}
    /\ changes' = changes + 1
    /\ notifying' = {}
    /\ UNCHANGED <<services, stage, work, events, since, delivered>>

\* A characteristic has a new value: every stream of the device gets the event.  BOUND: one
\* event at a time.
ValueReported ==
    /\ \E p \in notifying :
        events' = [o \in Object |-> <<[uuids |-> database[p].uuids, path |-> p, at |-> changes]>>]
    /\ \A o \in Object : events[o] = <<>>
    /\ UNCHANGED <<database, changes, notifying, services, stage, work, since, delivered>>

----------------------------------------------------------------------------
(* discover_services *)

Comes(c, place, w) ==
    /\ stage' = [stage EXCEPT ![c] = place]
    /\ work' = [work EXCEPT ![c] = w]

\* session.get_services
Discovers(c) ==
    /\ stage[c] = "idle"
    /\ \E o \in Object : LET w == [NoWork EXCEPT !.obj = o, !.since = changes]
                         IN  \/ Comes(c, "discovers", [w EXCEPT !.todo = Listed([uuids |-> <<>>, path |-> Root])])
                             \/ Comes(c, "failed", w)
    /\ UNCHANGED <<database, changes, notifying, services, events, since, delivered>>

\* What collecting the infos into a HashMap keeps: one of those with the same uuid.
Collected(is, kept) ==
    /\ kept \subseteq is
    /\ \A i \in is : \E j \in kept : i.uuids = j.uuids
    /\ \A i, j \in kept : i.uuids = j.uuids => i = j

Below(uuids, i) == Len(i.uuids) >= Len(uuids) /\ SubSeq(i.uuids, 1, Len(uuids)) = uuids

\* Seeded fault: each service starts a map of its own.
InsertServiceAlone(gathered, i, kept) == {i} \cup kept

\* services_internal.insert, which replaces a service with the same uuid
InsertService(gathered, i, kept) == {j \in gathered : ~ Below(i.uuids, j)} \cup {i} \cup kept

\* session.get_characteristics of the next service
GetCharacteristics(c) ==
    /\ stage[c] = "discovers"
    /\ \A i \in work[c].todo : Len(i.uuids) = 1
    /\ \E i \in work[c].todo :
        \/ i.path \in DOMAIN database
           /\ \E kept \in SUBSET Listed(i) :
               /\ Collected(Listed(i), kept)
               /\ Comes(c, "discovers", [work[c] EXCEPT !.todo = (@ \ {i}) \cup kept,
                                                     !.gathered = InsertService(@, i, kept)])
        \/ Comes(c, "failed", work[c])
    /\ UNCHANGED <<database, changes, notifying, services, events, since, delivered>>

\* session.get_descriptors of the characteristics of a service, in any order; an error counts
\* as no descriptors.
GetDescriptors(c) ==
    /\ stage[c] = "discovers"
    /\ \E i \in work[c].todo :
        /\ Len(i.uuids) = 2
        /\ \E kept \in SUBSET Listed(i) :
            /\ Collected(Listed(i), kept) \/ kept = {}
            /\ Comes(c, "discovers", [work[c] EXCEPT !.todo = @ \ {i}, !.gathered = @ \cup kept])
    /\ UNCHANGED <<database, changes, notifying, services, events, since, delivered>>

\* *self.services.lock().unwrap() = services_internal
Replaces(c) ==
    /\ stage[c] = "discovers"
    /\ work[c].todo = {}
    /\ services' = [services EXCEPT ![work[c].obj] = work[c].gathered]
    /\ since' = [since EXCEPT ![work[c].obj] = work[c].since]
    /\ stage' = [stage EXCEPT ![c] = "done"]
    /\ UNCHANGED <<database, changes, notifying, work, events, delivered>>

----------------------------------------------------------------------------
(* The operations on attributes *)

\* Seeded fault: the characteristic is looked for under its own uuid alone.
InfoAnywhere(o, uuids) ==
    {i \in services[o] : Len(i.uuids) = Len(uuids) /\ i.uuids[Len(uuids)] = uuids[Len(uuids)]}

\* characteristic_info, descriptor_info
Info(o, uuids) == {i \in services[o] : i.uuids = uuids}

\* write, read, subscribe, unsubscribe, write_descriptor, read_descriptor begin.
LooksUp(c) ==
    /\ stage[c] = "idle"
    /\ \E o \in Object, uuids \in {i.uuids : i \in UNION {Attributes(db) : db \in Databases}} :
        /\ Len(uuids) \in {2, 3}
        /\ LET w == [NoWork EXCEPT !.obj = o, !.uuids = uuids, !.since = since[o]]
           IN  IF Info(o, uuids) = {} THEN Comes(c, "failed", w)
               ELSE \E i \in Info(o, uuids) : Comes(c, "asks", [w EXCEPT !.path = i.path])
    /\ UNCHANGED <<database, changes, notifying, services, events, since, delivered>>

\* BlueZ carries the request out at the path, or refuses it, as it does where there is no
\* attribute of that kind.
Reaches(c) ==
    /\ stage[c] = "asks"
    /\ LET p == work[c].path
       IN  \/ /\ p \in DOMAIN database /\ Len(database[p].uuids) = Len(work[c].uuids)
              /\ Comes(c, "done", [work[c] EXCEPT !.reached = database[p].uuids,
                                               !.since = IF @ = changes THEN @ ELSE -1])
              /\ \/ UNCHANGED notifying
                 \/ /\ Len(work[c].uuids) = 2
                    /\ notifying' \in {notifying \cup {p}, notifying \ {p}}
           \/ Comes(c, "failed", work[c]) /\ UNCHANGED notifying
    /\ UNCHANGED <<database, changes, services, events, since, delivered>>

----------------------------------------------------------------------------
(* notifications *)

\* find_characteristic_by_id
FindCharacteristicById(o, p) == {i \in services[o] : Len(i.uuids) = 2 /\ i.path = p}

\* The stream of o is polled: value_notification
Notification(o) ==
    /\ events[o] # <<>>
    /\ LET e == Head(events[o])
       IN  \E uuid \in IF FindCharacteristicById(o, e.path) = {} THEN {"dropped"}
                       ELSE {i.uuids[2] : i \in FindCharacteristicById(o, e.path)} :
             delivered' = [delivered EXCEPT ![o] = [event |-> e, uuid |-> uuid, since |-> since[o]]]
    /\ events' = [events EXCEPT ![o] = Tail(@)]
    /\ UNCHANGED <<database, changes, notifying, services, stage, work, since>>

BluezNext ==
    \/ DatabaseChanges
    \/ ValueReported
    \/ \E c \in BluezCall : \/ Discovers(c) \/ GetCharacteristics(c) \/ GetDescriptors(c)
                       \/ Replaces(c) \/ LooksUp(c) \/ Reaches(c)
    \/ \E o \in Object : Notification(o)

BluezSpec == BluezInit /\ [][BluezNext]_bluezVars

----------------------------------------------------------------------------
(* Properties *)

\* A request reaches an attribute with the uuids the client asked for, although the map knows
\* only paths and several services may have a characteristic with the same uuid; unless the
\* database has changed since the discovery of the map began.
BluezReachesAsked ==
    \A c \in BluezCall : work[c].reached # <<>> /\ work[c].since # -1 => work[c].reached = work[c].uuids

\* A second attribute has the uuids of the one at p, or of its service.
Hidden(p) ==
    \E q \in DOMAIN database \ {p} :
        database[q].uuids = database[p].uuids \/ (q # database[p].parent
            /\ database[q].uuids = database[database[p].parent].uuids)

\* An event of a characteristic is delivered, with its uuid, by every object whose map was
\* discovered in the present database, however late the stream is polled, unless an attribute
\* with the same uuids hides it in the map.  (The stream of an object that was never
\* discovered drops everything.)
BluezNotifies ==
    \A o \in Object :
        LET d == delivered[o]
        IN  d.event.at = changes /\ d.since = changes
              => \/ d.uuid = d.event.uuids[2]
                 \/ d.uuid = "dropped" /\ Hidden(d.event.path)
=============================================================================
