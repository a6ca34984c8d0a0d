-------------------------- MODULE WinrtPeripheral --------------------------
(***************************************************************************)
(* One peripheral of the Windows backend                                   *)
(* (src/src/winrtble/peripheral.rs, ble/device.rs, ble/characteristic.rs). *)
(*                                                                         *)
(* There is no thread behind it.  The tasks of clients run its methods and *)
(* meet at the mutex of `device`, which is held across awaits, and at the  *)
(* locks of the map `ble_services`, whose references are held across       *)
(* awaits too and which block the worker thread of a task that waits for   *)
(* them.  Threads of Windows run the connection status handlers.           *)
(*                                                                         *)
(* A BLEDevice is named by the connect() that made it.  All services are   *)
(* in one shard of the map.                                                *)
(***************************************************************************)
EXTENDS Integers, Sequences, FiniteSets

CONSTANTS
    Service,
    ServiceList,   \* the services of the device as Windows lists them
    Req,           \* the calls of clients, each made once
    NoReq,
    Asks,          \* what a call may ask: [op, svc]
    NoAsk,
    Workers,       \* worker threads of the clients' runtime
    MayFail,       \* requests to Windows that may fail, of "open", "connect", "services", "characteristics"
    MaxFlips       \* BOUND: changes of the link

MutexOp  == {"connect", "disconnect", "discover_services"}
\* read stands for write and the descriptor operations, subscribe for unsubscribe.
Op       == MutexOp \cup {"read", "subscribe"}

ASSUME WinrtAssumption ==
    /\ IsFiniteSet(Req) /\ NoReq \notin Req
    /\ ServiceList \in Seq(Service)
    /\ Asks \subseteq [op : Op, svc : Service]
    /\ NoAsk \in [op : {"none"}, svc : Service]
    /\ Workers \in Nat \ {0}
    /\ MaxFlips \in Nat

VARIABLES
    ask,           \* ask[r]: what call r asks, NoAsk before and after it
    at,            \* at[r]: where the task of r is
    left,          \* left[r]: the services a discovery has not done, in order
    blocked,       \* calls whose worker thread waits for a lock of the map
    \* the state that the methods share
    device,        \* the BLEDevice in the Option, NoReq for None
    mutex,         \* who holds the mutex of device
    connected,     \* the flag
    ble_services,  \* ble_services[s]: the BLEDevice whose objects of s are in the map, or NoReq
    \* Windows
    link, flips,
    open,          \* the BLEDevices that exist, each with its handler
    due,           \* those whose handler is to be called
    hand,          \* hand[r]: where the handler of r is, or what status it has read
    \* for the properties only
    told,          \* the last event about the connection
    belied,        \* it said connected and was not true when it was sent
    misled,        \* the last store to `connected` was not true when it was made
    careless       \* a client overlapped calls, or connected without having disconnected

callVars    == <<ask, at, left, blocked>>
sharedVars  == <<device, mutex, connected, ble_services>>
winVars     == <<link, flips, open, due, hand>>
historyVars == <<told, belied, misled, careless>>
vars == <<callVars, sharedVars, winVars, historyVars>>

Init ==
    /\ ask = [r \in Req |-> NoAsk]
    /\ at = [r \in Req |-> "idle"]
    /\ left = [r \in Req |-> <<>>]
    /\ blocked = {}
    /\ device = NoReq
    /\ mutex = NoReq
    /\ connected = FALSE
    /\ ble_services = [s \in Service |-> NoReq]
    /\ link = FALSE
    /\ flips = 0
    /\ open = {}
    /\ due = {}
    /\ hand = [r \in Req |-> "no"]
    /\ told = "none"
    /\ belied = FALSE
    /\ misled = FALSE
    /\ careless = FALSE

----------------------------------------------------------------------------
(* What the steps have in common. *)

InFlight(r) == at[r] \notin {"idle", "done"}

Calling(op) == \E r \in Req : InFlight(r) /\ ask[r].op = op

\* The peripheral is connected.
Up == device # NoReq /\ link

Goes(r, place) ==
    /\ at' = [at EXCEPT ![r] = place]
    /\ ask' = IF place = "done" THEN [ask EXCEPT ![r] = NoAsk] ELSE ask

\* A worker is there to poll r: its own, or one that waits for nothing.
Polled(r) == r \in blocked \/ Cardinality(blocked) < Workers

\* connected.store(v), when the peripheral is connected or not
Stores(v, up) ==
    /\ connected' = v
    /\ misled' = (v # up)

Tells(kind) ==
    /\ told' = kind
    /\ belied' = (kind = "DeviceConnected" /\ ~ Up)

\* Seeded fault: the handler stays registered.
CloseOnly(rs) ==
    /\ open' = open \ rs
    /\ UNCHANGED due

\* Drop of BLEDevices: the handler is removed, services and device are closed.  A call of
\* the handler that runs goes on.  An error of any of these is only logged; ASSUMED: that the
\* device, which is closed and released in any case, calls its handlers no more.
Close(rs) ==
    /\ open' = open \ rs
    /\ due' = due \ rs

----------------------------------------------------------------------------
(* The locks of the map. *)

Exclusive(r) == at[r] \in {"clears", "inserts"} \/ ask[r].op = "subscribe"

Wants(r) ==
    \/ at[r] \in {"clears", "inserts", "gets"}
    \/ at[r] = "looks" /\ left[r] # <<>>

\* Seeded fault: disconnect() holds a reference when it waits for the mutex.
HoldsOn(r) == at[r] = "awaits" \/ (at[r] = "locks" /\ ask[r].op = "disconnect")

\* r holds a reference into the map.
Holds(r) == at[r] = "awaits"

\* No reference is in the way of r.
Free(r) == \A q \in Req : Holds(q) => ~ Exclusive(q) /\ ~ Exclusive(r)

\* A reader may be made to wait behind a writer that waits.
Blocks(r) ==
    /\ Polled(r) /\ r \notin blocked
    /\ Wants(r)
    /\ ~ Free(r) \/ \E q \in blocked : Exclusive(q)
    /\ blocked' = blocked \cup {r}
    /\ UNCHANGED <<ask, at, left, sharedVars, winVars, historyVars>>

Enters(r) ==
    /\ Polled(r) /\ Free(r)
    /\ blocked' = blocked \ {r}

----------------------------------------------------------------------------
(* connect *)

\* Where a call starts.
First(op) == IF op = "connect" THEN "opens"
             ELSE IF op = "disconnect" THEN "clears"
             ELSE IF op = "discover_services" THEN "locks" ELSE "gets"

ClientCalls(r) ==
    /\ at[r] = "idle" /\ Polled(r)
    /\ \E a \in Asks :
          /\ ask' = [ask EXCEPT ![r] = a]
          /\ at' = [at EXCEPT ![r] = First(a.op)]
          /\ careless' = (\/ careless
                          \/ a.op = "connect" /\ (device # NoReq \/ Calling("connect"))
                          \/ a.op = "discover_services" /\ Calling("disconnect")
                          \/ a.op = "disconnect" /\ Calling("discover_services"))
    /\ UNCHANGED <<left, blocked, sharedVars, winVars, told, belied, misled>>

\* BLEDevice::new
Opens(r) ==
    /\ at[r] = "opens" /\ Polled(r)
    /\ \/ Goes(r, "dials") /\ open' = open \cup {r}
       \/ "open" \in MayFail /\ Goes(r, "done") /\ UNCHANGED open
    /\ UNCHANGED <<left, blocked, sharedVars, link, flips, due, hand, historyVars>>

\* BLEDevice::connect: nothing to do on a link that is up, else a request that brings it up.
Dials(r) ==
    /\ at[r] = "dials" /\ Polled(r)
    /\ \/ link /\ Goes(r, "locks") /\ UNCHANGED <<open, due>>
       \/ (~ link \/ "connect" \in MayFail) /\ Goes(r, "done") /\ Close({r})
    /\ UNCHANGED <<left, blocked, sharedVars, link, flips, hand, historyVars>>

Locks(r, op) ==
    /\ at[r] = "locks" /\ Polled(r)
    /\ ask[r].op = op
    /\ mutex = NoReq

\* The BLEDevice that was there is dropped.
Places(r) ==
    /\ Locks(r, "connect")
    /\ mutex' = r
    /\ device' = r
    /\ Close({device})
    /\ Stores(TRUE, link)
    /\ Goes(r, "emits")
    /\ UNCHANGED <<left, blocked, ble_services, link, flips, hand, told, belied, careless>>

----------------------------------------------------------------------------
(* disconnect *)

\* Seeded fault: the services stay.
ClearsNothing(r) ==
    /\ at[r] = "clears"
    /\ Enters(r)
    /\ Goes(r, "locks")
    /\ UNCHANGED <<left, sharedVars, winVars, historyVars>>

\* Seeded fault: references to the services are not waited for.
ClearsAnyway(r) ==
    /\ at[r] = "clears" /\ Polled(r)
    /\ blocked' = blocked \ {r}
    /\ ble_services' = [s \in Service |-> NoReq]
    /\ Goes(r, "locks")
    /\ UNCHANGED <<left, device, mutex, connected, winVars, historyVars>>

Clears(r) ==
    /\ at[r] = "clears"
    /\ Enters(r)
    /\ ble_services' = [s \in Service |-> NoReq]
    /\ Goes(r, "locks")
    /\ UNCHANGED <<left, device, mutex, connected, winVars, historyVars>>

Drops(r) ==
    /\ Locks(r, "disconnect")
    /\ mutex' = r
    /\ device' = NoReq
    /\ Close({device})
    /\ Stores(FALSE, FALSE)
    /\ Goes(r, "emits")
    /\ UNCHANGED <<left, blocked, ble_services, link, flips, hand, told, belied, careless>>

\* The last step of connect() and of disconnect().
Emits(r) ==
    /\ at[r] = "emits" /\ Polled(r)
    /\ Tells(IF ask[r].op = "connect" THEN "DeviceConnected" ELSE "DeviceDisconnected")
    /\ mutex' = NoReq
    /\ Goes(r, "done")
    /\ UNCHANGED <<left, blocked, device, connected, ble_services, winVars, misled, careless>>

----------------------------------------------------------------------------
(* discover_services *)

Queries(r) ==
    /\ Locks(r, "discover_services")
    /\ IF device = NoReq THEN Goes(r, "done") /\ UNCHANGED mutex
                         ELSE Goes(r, "queries") /\ mutex' = r
    /\ UNCHANGED <<left, blocked, device, connected, ble_services, winVars, historyVars>>

\* BLEDevice::discover_services; a status that is not a success leaves the list as it was.
Lists(r) ==
    /\ at[r] = "queries" /\ Polled(r)
    /\ \/ /\ "services" \in MayFail
          /\ Goes(r, "done") /\ mutex' = NoReq /\ UNCHANGED left
       \/ /\ \/ left' = [left EXCEPT ![r] = ServiceList]
             \/ "services" \in MayFail /\ left' = [left EXCEPT ![r] = <<>>]
          /\ Goes(r, "looks") /\ UNCHANGED mutex
    /\ UNCHANGED <<blocked, device, connected, ble_services, winVars, historyVars>>

\* contains_key
Looks(r) ==
    /\ at[r] = "looks" /\ left[r] # <<>>
    /\ Enters(r)
    /\ IF ble_services[Head(left[r])] # NoReq
       THEN left' = [left EXCEPT ![r] = Tail(@)] /\ UNCHANGED <<ask, at>>
       ELSE Goes(r, "fetches") /\ UNCHANGED left
    /\ UNCHANGED <<sharedVars, winVars, historyVars>>

Discovered(r) ==
    /\ at[r] = "looks" /\ left[r] = <<>> /\ Polled(r)
    /\ mutex' = NoReq
    /\ Goes(r, "done")
    /\ UNCHANGED <<left, blocked, device, connected, ble_services, winVars, historyVars>>

\* The characteristics of a service and their descriptors; a service whose characteristics
\* cannot be read is skipped.
Fetches(r) ==
    /\ at[r] = "fetches" /\ Polled(r)
    /\ \/ Goes(r, "inserts") /\ UNCHANGED left
       \/ /\ "characteristics" \in MayFail
          /\ Goes(r, "looks") /\ left' = [left EXCEPT ![r] = Tail(@)]
    /\ UNCHANGED <<blocked, sharedVars, winVars, historyVars>>

Inserts(r) ==
    /\ at[r] = "inserts"
    /\ Enters(r)
    /\ ble_services' = [ble_services EXCEPT ![Head(left[r])] = device]
    /\ left' = [left EXCEPT ![r] = Tail(@)]
    /\ Goes(r, "looks")
    /\ UNCHANGED <<device, mutex, connected, winVars, historyVars>>

----------------------------------------------------------------------------
(* read, write, subscribe, unsubscribe and the descriptor operations *)

\* get or get_mut
Gets(r) ==
    /\ at[r] = "gets"
    /\ Enters(r)
    /\ Goes(r, IF ble_services[ask[r].svc] # NoReq THEN "awaits" ELSE "done")
    /\ UNCHANGED <<left, sharedVars, winVars, historyVars>>

\* The request to Windows is complete; its outcome is that of the call.
Ends(r) ==
    /\ at[r] = "awaits" /\ Polled(r)
    /\ Goes(r, "done")
    /\ UNCHANGED <<left, blocked, sharedVars, winVars, historyVars>>

\* A client drops the future of a call, at an await: its locks are released, and the
\* BLEDevice of a connect() goes with it.
Abandons(r) ==
    /\ at[r] \in {"opens", "dials", "locks", "queries", "fetches", "awaits"} /\ Polled(r)
    /\ Goes(r, "done")
    /\ IF ask[r].op = "connect" THEN Close({r}) ELSE UNCHANGED <<open, due>>
    /\ mutex' = IF mutex = r THEN NoReq ELSE mutex
    /\ UNCHANGED <<left, blocked, device, connected, ble_services, link, flips, hand, historyVars>>

----------------------------------------------------------------------------
(* Windows.  The calls of one handler come one after the other. *)

LinkChanges ==
    /\ flips < MaxFlips
    /\ link \/ open # {}
    /\ link' = ~ link
    /\ flips' = flips + 1
    /\ due' = open
    /\ UNCHANGED <<open, hand, callVars, sharedVars, historyVars>>

Handler(r, from, to) ==
    /\ hand[r] = from
    /\ hand' = [hand EXCEPT ![r] = to]
    /\ UNCHANGED <<link, flips, open, callVars, device, mutex, ble_services, careless>>

HandlerStarts(r) ==
    /\ r \in due
    /\ Handler(r, "no", "starts")
    /\ due' = due \ {r}
    /\ UNCHANGED <<connected, told, belied, misled>>

\* The status of a device that was closed cannot be read, or is the last one.
HandlerReads(r) ==
    /\ \/ Handler(r, "starts", IF link THEN "up" ELSE "down")
       \/ r \notin open /\ Handler(r, "starts", "down")
    /\ UNCHANGED <<due, connected, told, belied, misled>>

\* Seeded fault: a link that comes back is not noticed.
StoresDown(r) ==
    /\ \/ Handler(r, "up", "no") /\ UNCHANGED <<connected, misled>>
       \/ Handler(r, "down", "tells") /\ Stores(FALSE, Up)
    /\ UNCHANGED <<due, told, belied>>

\* Seeded fault: a link that is lost is not reported.
StoresQuietly(r) ==
    /\ \/ Handler(r, "up", "no") /\ Stores(TRUE, Up)
       \/ Handler(r, "down", "no") /\ Stores(FALSE, Up)
    /\ UNCHANGED <<due, told, belied>>

HandlerStores(r) ==
    /\ \/ Handler(r, "up", "no") /\ Stores(TRUE, Up)
       \/ Handler(r, "down", "tells") /\ Stores(FALSE, Up)
    /\ UNCHANGED <<due, told, belied>>

HandlerTells(r) ==
    /\ Handler(r, "tells", "no")
    /\ Tells("DeviceDisconnected")
    /\ UNCHANGED <<due, connected, misled>>

----------------------------------------------------------------------------
CallStep(r) ==
    \/ Opens(r) \/ Dials(r) \/ Places(r)
    \/ Clears(r) \/ Drops(r) \/ Emits(r)
    \/ Queries(r) \/ Lists(r) \/ Looks(r) \/ Discovered(r) \/ Fetches(r) \/ Inserts(r)
    \/ Gets(r) \/ Ends(r)

HandlerStep(r) == HandlerStarts(r) \/ HandlerReads(r) \/ HandlerStores(r) \/ HandlerTells(r)

Next ==
    \/ \E r \in Req : ClientCalls(r) \/ CallStep(r) \/ Blocks(r) \/ Abandons(r) \/ HandlerStep(r)
    \/ LinkChanges

Spec == Init /\ [][Next]_vars

----------------------------------------------------------------------------
(* Properties. *)

Place == {"idle", "opens", "dials", "clears", "locks", "queries", "looks", "fetches", "inserts",
          "gets", "awaits", "emits", "done"}

\* Type invariant.  No handler is called for a BLEDevice that was dropped, and the device
\* of the peripheral is open.
TypeOK ==
    /\ ask \in [Req -> Asks \cup {NoAsk}]
    /\ at \in [Req -> Place]
    /\ left \in [Req -> Seq(Service)]
    /\ blocked \subseteq Req
    /\ device \in open \cup {NoReq}
    /\ mutex \in Req \cup {NoReq}
    /\ connected \in BOOLEAN
    /\ ble_services \in [Service -> Req \cup {NoReq}]
    /\ link \in BOOLEAN
    /\ flips \in 0..MaxFlips
    /\ open \subseteq Req
    /\ due \subseteq open
    /\ hand \in [Req -> {"no", "starts", "up", "down", "tells"}]
    /\ told \in {"none", "DeviceConnected", "DeviceDisconnected"}
    /\ belied \in BOOLEAN
    /\ misled \in BOOLEAN
    /\ careless \in BOOLEAN

\* Services in the map are those of the device there is: what a comment of disconnect()
\* asks for ("they must be refreshed").  It needs a client that waits for a discovery
\* before it disconnects, and disconnects before it connects again.
ServicesCurrent ==
    ~ careless => \A s \in Service : ble_services[s] \in {NoReq, device}

\* While a call uses an attribute, its service stays in the map and its device open.
UsedStaysOpen ==
    ~ careless => \A r \in Req : at[r] = "awaits" =>
        /\ ble_services[ask[r].svc] = device
        /\ device # NoReq

\* No call and no handler has anything left to do.
Settled ==
    /\ \A r \in Req : ~ InFlight(r)
    /\ due = {} /\ \A r \in Req : hand[r] = "no"

\* is_connected() is right about the link in the end, unless the last to store the flag was
\* a connect() or a handler that had been overtaken.
FlagTruth == Settled /\ ~ misled => connected = Up

\* A client that was told last that the device is connected is right in the end, unless the
\* connect() that told it had been overtaken by the loss of the link.
ToldTruth == Settled /\ ~ belied /\ told = "DeviceConnected" => Up

\* A task that can take a step: it is polled, and what it waits for is free.
CanGo(r) ==
    /\ InFlight(r)
    /\ Polled(r)
    /\ Wants(r) => Free(r)
    /\ at[r] = "locks" => mutex = NoReq

\* Every worker waits for a reference whose holder no worker can poll.
Starved ==
    /\ Cardinality(blocked) >= Workers
    /\ \A r \in blocked : ~ Free(r)

\* While a call is under way, some call can go on, unless the workers of the runtime are
\* starved: the mutex and the locks of the map are never waited for in a circle, and none
\* is left locked.
NoCircle == (\E r \in Req : InFlight(r)) => Starved \/ \E r \in Req : CanGo(r)

----------------------------------------------------------------------------
(* The inductive invariant. *)

Discovering == {"queries", "looks", "fetches", "inserts"}

\* Where a call is tells what it asks.
CallsPlaced == \A r \in Req :
    /\ at[r] \in {"opens", "dials"} => ask[r].op = "connect"
    /\ at[r] = "clears" => ask[r].op = "disconnect"
    /\ at[r] = "locks" => ask[r].op \in MutexOp
    /\ at[r] \in Discovering => ask[r].op = "discover_services"
    /\ at[r] = "emits" => ask[r].op \in {"connect", "disconnect"}
    /\ at[r] \in {"gets", "awaits"} => ask[r].op \in {"read", "subscribe"}
    /\ at[r] \in {"fetches", "inserts"} => left[r] # <<>>

\* Who holds the mutex of device, and who waits for the map.
LocksHeld ==
    /\ \A r \in Req : at[r] \in Discovering \cup {"emits"} <=> mutex = r
    /\ \A r \in blocked : Wants(r)

\* A connect() that has a BLEDevice but has not put it in its place.
Brings(r) == at[r] = "dials" \/ (at[r] = "locks" /\ ask[r].op = "connect")

DeviceOwned == \A r \in Req :
    /\ Brings(r) => r \in open
    /\ device = r => at[r] \in {"emits", "done"}
    /\ at[r] \in Discovering => device # NoReq

Connecting(r) == at[r] = "opens" \/ Brings(r)

\* What a careful client keeps apart.
Careful ==
    /\ \A r \in Req : Connecting(r) => device = NoReq
    /\ \A r, q \in Req : Connecting(r) /\ Connecting(q) => r = q
    /\ \A r, q \in Req : InFlight(r) /\ InFlight(q) =>
          ask[r].op # "disconnect" \/ ask[q].op # "discover_services"
    /\ \A r \in Req, s \in Service :
          at[r] = "locks" /\ ask[r].op = "disconnect" => ble_services[s] = NoReq

IInv ==
    /\ TypeOK
    /\ CallsPlaced
    /\ LocksHeld
    /\ DeviceOwned
    /\ ServicesCurrent
    /\ UsedStaysOpen
    /\ ~ careless => Careful
=============================================================================
