----------------------- MODULE WinrtPeripheralProofs -----------------------
(***************************************************************************)
(* Theorems about WinrtPeripheral.                                         *)
(***************************************************************************)
EXTENDS WinrtPeripheral, FiniteSetTheorems, TLAPS

\* What is left of a list of services is one.
LEMMA TailOfList ==
  ASSUME NEW list \in Seq(Service), list # <<>>
  PROVE  Head(list) \in Service /\ Tail(list) \in Seq(Service)
OBVIOUS

\* A call that goes on without the map, and takes or leaves the mutex or neither.
LEMMA MoveKeepsLocks ==
  ASSUME TypeOK, LocksHeld, NEW r \in Req, NEW place,
         at' = [at EXCEPT ![r] = place],
         at[r] \in {"dials", "locks", "queries"},
         \A q \in Req : q # r => left'[q] = left[q],
         UNCHANGED blocked,
         \/ /\ mutex' = mutex
            /\ at[r] \in Discovering \cup {"emits"} <=> place \in Discovering \cup {"emits"}
         \/ mutex = NoReq /\ mutex' = r /\ place \in Discovering
         \/ mutex = r /\ mutex' = NoReq /\ place \notin Discovering \cup {"emits"}
  PROVE  LocksHeld'
<1> USE WinrtAssumption
<1>1. r \notin blocked
  BY DEF LocksHeld, Wants
<1>2. at'[r] = place /\ \A q \in Req : q # r => at'[q] = at[q]
  BY DEF TypeOK
<1>3. \A q \in blocked' : Wants(q)'
  BY <1>1, <1>2 DEF TypeOK, LocksHeld, Wants
<1>4. \A q \in Req : at'[q] \in Discovering \cup {"emits"} <=> mutex' = q
  BY <1>2 DEF TypeOK, LocksHeld
<1> QED BY <1>3, <1>4 DEF LocksHeld

\* A call that goes on and leaves device and map alone does nothing careless.
LEMMA MoveIsCareful ==
  ASSUME IInv, NEW r \in Req, NEW place,
         at' = [at EXCEPT ![r] = place],
         ask' = ask \/ (place = "done" /\ ask' = [ask EXCEPT ![r] = NoAsk]),
         InFlight(r),
         place # "opens",
         place = "dials" => at[r] = "opens",
         place = "locks" => at[r] = "dials",
         UNCHANGED <<device, ble_services, careless>>
  PROVE  (~ careless => Careful)'
<1> SUFFICES ASSUME ~ careless PROVE Careful'
  OBVIOUS
<1> USE DEF IInv
<1>1. \A q \in Req : Connecting(q)' => Connecting(q)
  BY DEF TypeOK, CallsPlaced, Connecting, Brings
<1>2. \A q \in Req : InFlight(q)' => InFlight(q) /\ ask'[q] = ask[q]
  BY DEF TypeOK, InFlight
<1>3. \A q \in Req : at'[q] = "locks" /\ ask'[q].op = "disconnect" =>
                        at[q] = "locks" /\ ask[q].op = "disconnect"
  BY DEF TypeOK, CallsPlaced
<1> QED BY <1>1, <1>2, <1>3 DEF Careful

----------------------------------------------------------------------------
(* connect *)

\* The device exists, but nobody else knows it.
LEMMA OpensKeeps == ASSUME IInv, NEW r \in Req, Opens(r) PROVE IInv'
<1> USE WinrtAssumption DEF IInv, Opens, Goes, callVars, sharedVars, winVars, historyVars
<1>1. TypeOK'
  BY ZenonT(60) DEF TypeOK, Place
<1>2. CallsPlaced'
  BY DEF TypeOK, CallsPlaced, Discovering
<1>3. LocksHeld'
  BY ZenonT(60) DEF TypeOK, LocksHeld, Discovering, Wants
<1>4. DeviceOwned'
  BY DEF TypeOK, DeviceOwned, Brings, Discovering
<1>5. ServicesCurrent'
  BY DEF ServicesCurrent
<1>6. UsedStaysOpen'
  BY DEF TypeOK, UsedStaysOpen
<1>7. (~ careless => Careful)'
  BY MoveIsCareful DEF InFlight
<1> QED BY <1>1, <1>2, <1>3, <1>4, <1>5, <1>6, <1>7

\* The device of a connect() that fails is not the one in its place.
LEMMA DialsKeeps == ASSUME IInv, NEW r \in Req, Dials(r) PROVE IInv'
<1> USE WinrtAssumption DEF IInv, Dials, Close, Goes, callVars, sharedVars, winVars, historyVars
<1>1. TypeOK'
  BY ZenonT(60) DEF TypeOK, Place, DeviceOwned
<1>2. CallsPlaced'
  BY DEF TypeOK, CallsPlaced, Discovering, MutexOp
<1>3. LocksHeld'
  <2>1. at[r] \in {"dials", "queries"} /\ UNCHANGED blocked /\ \A q \in Req : q # r => left'[q] = left[q]
    BY DEF TypeOK
  <2>2. CASE Goes(r, "locks")
    BY <2>1, <2>2, MoveKeepsLocks DEF TypeOK, LocksHeld, Discovering
  <2>3. CASE Goes(r, "done")
    BY <2>1, <2>3, MoveKeepsLocks DEF TypeOK, LocksHeld, Discovering
  <2> QED BY <2>2, <2>3
<1>4. DeviceOwned'
  BY DEF TypeOK, DeviceOwned, Brings, Discovering
<1>5. ServicesCurrent'
  BY DEF ServicesCurrent
<1>6. UsedStaysOpen'
  BY DEF TypeOK, UsedStaysOpen
<1>7. (~ careless => Careful)'
  BY MoveIsCareful DEF InFlight
<1> QED BY <1>1, <1>2, <1>3, <1>4, <1>5, <1>6, <1>7

\* A careful client places a device where there was none, so nothing in the map is of another.
LEMMA PlacesKeeps == ASSUME IInv, NEW r \in Req, Places(r) PROVE IInv'
<1> USE WinrtAssumption DEF IInv, Places, Locks, Close, Stores, Goes, callVars, sharedVars, winVars, historyVars
<1>1. TypeOK'
  BY DEF TypeOK, Place, DeviceOwned, Brings
<1>2. CallsPlaced'
  BY DEF CallsPlaced, Discovering
<1>3. LocksHeld'
  BY DEF TypeOK, LocksHeld, Wants
<1>4. DeviceOwned'
  BY DEF TypeOK, DeviceOwned, Brings
<1>5. ServicesCurrent'
  BY DEF ServicesCurrent, Careful, Connecting, Brings
<1>6. UsedStaysOpen'
  BY DEF UsedStaysOpen, Careful, Connecting, Brings
<1>7. (~ careless => Careful)'
  BY DEF TypeOK, Careful, Connecting, Brings, InFlight
<1> QED BY <1>1, <1>2, <1>3, <1>4, <1>5, <1>6, <1>7

----------------------------------------------------------------------------
(* disconnect *)

\* The locks of the map see to it that nobody uses a service.
LEMMA ClearsKeeps == ASSUME IInv, NEW r \in Req, Clears(r) PROVE IInv'
<1> USE WinrtAssumption DEF IInv, Clears, Enters, Goes, callVars, sharedVars, winVars, historyVars
<1>1. TypeOK'
  BY DEF TypeOK, Place
<1>2. CallsPlaced'
  BY DEF CallsPlaced, Discovering, MutexOp
<1>3. LocksHeld'
  BY DEF LocksHeld, Discovering, Wants
<1>4. DeviceOwned'
  BY DEF CallsPlaced, DeviceOwned, Brings, Discovering
<1>5. ServicesCurrent'
  BY DEF ServicesCurrent
<1>6. UsedStaysOpen'
  BY DEF UsedStaysOpen, Free, Holds, Exclusive
<1>7. (~ careless => Careful)'
  BY DEF CallsPlaced, Careful, Connecting, Brings, InFlight
<1> QED BY <1>1, <1>2, <1>3, <1>4, <1>5, <1>6, <1>7

\* The map was empty when the mutex was asked for, and is still.
LEMMA DropsKeeps == ASSUME IInv, NEW r \in Req, Drops(r) PROVE IInv'
<1> USE WinrtAssumption DEF IInv, Drops, Locks, Close, Stores, Goes, callVars, sharedVars, winVars, historyVars
<1>1. TypeOK'
  BY DEF TypeOK, Place
<1>2. CallsPlaced'
  BY DEF CallsPlaced, Discovering
<1>3. LocksHeld'
  BY DEF TypeOK, LocksHeld, Wants
<1>4. DeviceOwned'
  BY DEF LocksHeld, DeviceOwned, Brings, Discovering
<1>5. ServicesCurrent'
  BY DEF ServicesCurrent, Careful
<1>6. UsedStaysOpen'
  <2> SUFFICES ASSUME ~ careless, NEW q \in Req, at'[q] = "awaits" PROVE FALSE
    BY DEF UsedStaysOpen
  <2>1. at[q] = "awaits"
    BY DEF TypeOK
  <2>2. ask[q].op \in {"read", "subscribe"}
    BY <2>1 DEF CallsPlaced
  <2>3. ask[q] \in [op : Op, svc : Service]
    BY <2>2 DEF TypeOK
  <2>4. ble_services[ask[q].svc] = NoReq
    BY <2>3 DEF Careful
  <2> QED BY <2>1, <2>4 DEF UsedStaysOpen
<1>7. (~ careless => Careful)'
  BY DEF Careful, Connecting, Brings, InFlight
<1> QED BY <1>1, <1>2, <1>3, <1>4, <1>5, <1>6, <1>7

\* The mutex is left.
LEMMA EmitsKeeps == ASSUME IInv, NEW r \in Req, Emits(r) PROVE IInv'
<1> USE WinrtAssumption DEF IInv, Emits, Tells, Goes, callVars, sharedVars, winVars, historyVars
<1>1. TypeOK'
  BY DEF TypeOK, Place
<1>2. CallsPlaced'
  BY DEF TypeOK, CallsPlaced, Discovering
<1>3. LocksHeld'
  BY DEF TypeOK, LocksHeld, Discovering, Wants
<1>4. DeviceOwned'
  BY DEF DeviceOwned, Brings, Discovering
<1>5. ServicesCurrent'
  BY DEF ServicesCurrent
<1>6. UsedStaysOpen'
  BY DEF UsedStaysOpen
<1>7. (~ careless => Careful)'
  BY DEF Careful, Connecting, Brings, InFlight
<1> QED BY <1>1, <1>2, <1>3, <1>4, <1>5, <1>6, <1>7

----------------------------------------------------------------------------
(* discover_services *)

\* The mutex is taken if there is a device.
LEMMA QueriesKeeps == ASSUME IInv, NEW r \in Req, Queries(r) PROVE IInv'
<1> USE WinrtAssumption DEF IInv, Queries, Locks, Goes, callVars, sharedVars, winVars, historyVars
<1>1. TypeOK'
  BY DEF TypeOK, Place
<1>2. CallsPlaced'
  BY DEF TypeOK, CallsPlaced, Discovering
<1>3. LocksHeld'
  <2>1. at[r] = "locks" /\ mutex = NoReq /\ UNCHANGED <<blocked, left>>
    BY DEF TypeOK
  <2>2. CASE Goes(r, "done") /\ UNCHANGED mutex
    BY <2>1, <2>2, MoveKeepsLocks DEF TypeOK, LocksHeld, Discovering
  <2>3. CASE Goes(r, "queries") /\ mutex' = r
    BY <2>1, <2>3, MoveKeepsLocks DEF TypeOK, LocksHeld, Discovering
  <2> QED BY <2>2, <2>3
<1>4. DeviceOwned'
  BY DEF TypeOK, DeviceOwned, Brings, Discovering
<1>5. ServicesCurrent'
  BY DEF ServicesCurrent
<1>6. UsedStaysOpen'
  BY DEF TypeOK, UsedStaysOpen
<1>7. (~ careless => Careful)'
  BY MoveIsCareful DEF InFlight
<1> QED BY <1>1, <1>2, <1>3, <1>4, <1>5, <1>6, <1>7

\* The list of services is one, whatever Windows answers.
LEMMA ListsKeeps == ASSUME IInv, NEW r \in Req, Lists(r) PROVE IInv'
<1> USE WinrtAssumption DEF IInv, Lists, Goes, callVars, sharedVars, winVars, historyVars
<1>1. TypeOK'
  <2>1. <<>> \in Seq(Service) /\ ServiceList \in Seq(Service)
    OBVIOUS
  <2>2. \/ UNCHANGED left
        \/ left' = [left EXCEPT ![r] = ServiceList]
        \/ left' = [left EXCEPT ![r] = <<>>]
    OBVIOUS
  <2>3. \A list \in Seq(Service) : [left EXCEPT ![r] = list] \in [Req -> Seq(Service)]
    BY DEF TypeOK
  <2>4. left' \in [Req -> Seq(Service)]
    <3>1. CASE UNCHANGED left
      BY <3>1 DEF TypeOK
    <3>2. CASE left' = [left EXCEPT ![r] = ServiceList]
      BY <2>1, <2>3, <3>2
    <3>3. CASE left' = [left EXCEPT ![r] = <<>>]
      BY <2>1, <2>3, <3>3
    <3> HIDE DEF Lists
    <3> QED BY <2>2, <3>1, <3>2, <3>3
  <2> QED BY ZenonT(60), <2>4 DEF TypeOK, Place
<1>2. CallsPlaced'
  BY DEF TypeOK, CallsPlaced, Discovering
<1>3. LocksHeld'
  <2>1. at[r] \in {"dials", "queries"} /\ UNCHANGED blocked /\ \A q \in Req : q # r => left'[q] = left[q]
    BY DEF TypeOK
  <2>2. CASE Goes(r, "looks") /\ UNCHANGED mutex
    BY <2>1, <2>2, MoveKeepsLocks DEF TypeOK, LocksHeld, Discovering
  <2>3. CASE Goes(r, "done") /\ mutex' = NoReq
    BY <2>1, <2>3, MoveKeepsLocks DEF TypeOK, LocksHeld, Discovering
  <2> QED BY <2>2, <2>3
<1>4. DeviceOwned'
  BY ZenonT(60) DEF TypeOK, DeviceOwned, Brings, Discovering, Op
<1>5. ServicesCurrent'
  BY DEF ServicesCurrent
<1>6. UsedStaysOpen'
  BY DEF TypeOK, UsedStaysOpen
<1>7. (~ careless => Careful)'
  BY MoveIsCareful DEF InFlight
<1> QED BY <1>1, <1>2, <1>3, <1>4, <1>5, <1>6, <1>7

\* The map is only read.
LEMMA LooksKeeps == ASSUME IInv, NEW r \in Req, Looks(r) PROVE IInv'
<1> USE WinrtAssumption DEF IInv, Looks, Enters, Goes, callVars, sharedVars, winVars, historyVars
<1>1. TypeOK'
  <2>1. Tail(left[r]) \in Seq(Service)
    BY TailOfList DEF TypeOK, CallsPlaced
  <2>2. left' \in [Req -> Seq(Service)]
    BY <2>1 DEF TypeOK
  <2> QED BY <2>2 DEF TypeOK, Place
<1>2. CallsPlaced'
  BY DEF TypeOK, CallsPlaced, Discovering
<1>3. LocksHeld'
  BY DEF TypeOK, LocksHeld, Discovering, Wants
<1>4. DeviceOwned'
  BY DEF TypeOK, DeviceOwned, Brings, Discovering
<1>5. ServicesCurrent'
  BY DEF ServicesCurrent
<1>6. UsedStaysOpen'
  BY DEF TypeOK, UsedStaysOpen
<1>7. (~ careless => Careful)'
  <2>1. CASE UNCHANGED <<ask, at>>
    BY <2>1 DEF Careful, Connecting, Brings, InFlight
  <2>2. CASE Goes(r, "fetches")
    BY <2>2, MoveIsCareful DEF InFlight
  <2> QED BY <2>1, <2>2
<1> QED BY <1>1, <1>2, <1>3, <1>4, <1>5, <1>6, <1>7

\* The mutex is left.
LEMMA DiscoveredKeeps == ASSUME IInv, NEW r \in Req, Discovered(r) PROVE IInv'
<1> USE WinrtAssumption DEF IInv, Discovered, Goes, callVars, sharedVars, winVars, historyVars
<1>1. TypeOK'
  BY DEF TypeOK, Place
<1>2. CallsPlaced'
  BY DEF TypeOK, CallsPlaced, Discovering
<1>3. LocksHeld'
  BY DEF TypeOK, LocksHeld, Discovering, Wants
<1>4. DeviceOwned'
  BY DEF DeviceOwned, Brings, Discovering
<1>5. ServicesCurrent'
  BY DEF ServicesCurrent
<1>6. UsedStaysOpen'
  BY DEF UsedStaysOpen
<1>7. (~ careless => Careful)'
  BY DEF Careful, Connecting, Brings, InFlight
<1> QED BY <1>1, <1>2, <1>3, <1>4, <1>5, <1>6, <1>7

\* The map is left alone.
LEMMA FetchesKeeps == ASSUME IInv, NEW r \in Req, Fetches(r) PROVE IInv'
<1> USE WinrtAssumption DEF IInv, Fetches, Goes, callVars, sharedVars, winVars, historyVars
<1>1. TypeOK'
  <2>1. Tail(left[r]) \in Seq(Service)
    BY TailOfList DEF TypeOK, CallsPlaced
  <2>2. left' \in [Req -> Seq(Service)]
    BY ZenonT(60), <2>1 DEF TypeOK
  <2> QED BY ZenonT(60), <2>2 DEF TypeOK, Place
<1>2. CallsPlaced'
  BY DEF TypeOK, CallsPlaced, Discovering
<1>3. LocksHeld'
  BY ZenonT(60) DEF TypeOK, LocksHeld, Discovering, Wants
<1>4. DeviceOwned'
  BY DEF TypeOK, DeviceOwned, Brings, Discovering
<1>5. ServicesCurrent'
  BY DEF ServicesCurrent
<1>6. UsedStaysOpen'
  BY DEF TypeOK, UsedStaysOpen
<1>7. (~ careless => Careful)'
  BY MoveIsCareful DEF InFlight
<1> QED BY <1>1, <1>2, <1>3, <1>4, <1>5, <1>6, <1>7

\* The service is of the device in its place, and no disconnect() waits.
LEMMA InsertsKeeps == ASSUME IInv, NEW r \in Req, Inserts(r) PROVE IInv'
<1> USE WinrtAssumption DEF IInv, Inserts, Enters, Goes, callVars, sharedVars, winVars, historyVars
<1>1. TypeOK'
  BY DEF TypeOK, Place, CallsPlaced
<1>2. CallsPlaced'
  BY DEF TypeOK, CallsPlaced, Discovering
<1>3. LocksHeld'
  BY DEF LocksHeld, Discovering, Wants
<1>4. DeviceOwned'
  BY DEF DeviceOwned, Brings, Discovering
<1>5. ServicesCurrent'
  BY DEF ServicesCurrent
<1>6. UsedStaysOpen'
  BY DEF UsedStaysOpen
<1>7. (~ careless => Careful)'
  <2> SUFFICES ASSUME ~ careless PROVE Careful'
    OBVIOUS
  <2>1. InFlight(r) /\ ask[r].op = "discover_services"
    BY DEF CallsPlaced, InFlight, Discovering
  <2>2. \A q \in Req : InFlight(q) => ask[q].op # "disconnect"
    BY <2>1 DEF Careful
  <2>3. \A q \in Req : (Connecting(q)' => Connecting(q)) /\ (InFlight(q)' => InFlight(q))
    BY DEF TypeOK, Connecting, Brings, InFlight
  <2>4. \A q \in Req : at'[q] = "locks" => InFlight(q)
    BY DEF TypeOK, InFlight
  <2> QED BY <2>2, <2>3, <2>4 DEF Careful
<1> QED BY <1>1, <1>2, <1>3, <1>4, <1>5, <1>6, <1>7

----------------------------------------------------------------------------
(* The other calls, and what any call can do. *)

\* The service that is found is of the device there is.
LEMMA GetsKeeps == ASSUME IInv, NEW r \in Req, Gets(r) PROVE IInv'
<1> USE WinrtAssumption DEF IInv, Gets, Enters, Goes, callVars, sharedVars, winVars, historyVars
<1>1. TypeOK'
  BY DEF TypeOK, Place
<1>2. CallsPlaced'
  BY DEF TypeOK, CallsPlaced, Discovering
<1>3. LocksHeld'
  BY DEF LocksHeld, Discovering, Wants
<1>4. DeviceOwned'
  BY DEF DeviceOwned, Brings, Discovering
<1>5. ServicesCurrent'
  BY DEF ServicesCurrent
<1>6. UsedStaysOpen'
  BY DEF TypeOK, ServicesCurrent, UsedStaysOpen
<1>7. (~ careless => Careful)'
  BY DEF Careful, Connecting, Brings, InFlight
<1> QED BY <1>1, <1>2, <1>3, <1>4, <1>5, <1>6, <1>7

\* A reference is given back.
LEMMA EndsKeeps == ASSUME IInv, NEW r \in Req, Ends(r) PROVE IInv'
<1> USE WinrtAssumption DEF IInv, Ends, Goes, callVars, sharedVars, winVars, historyVars
<1>1. TypeOK'
  BY DEF TypeOK, Place
<1>2. CallsPlaced'
  BY DEF TypeOK, CallsPlaced, Discovering
<1>3. LocksHeld'
  BY DEF LocksHeld, Discovering, Wants
<1>4. DeviceOwned'
  BY DEF DeviceOwned, Brings, Discovering
<1>5. ServicesCurrent'
  BY DEF ServicesCurrent
<1>6. UsedStaysOpen'
  BY DEF TypeOK, UsedStaysOpen
<1>7. (~ careless => Careful)'
  BY DEF Careful, Connecting, Brings, InFlight
<1> QED BY <1>1, <1>2, <1>3, <1>4, <1>5, <1>6, <1>7

\* A call that is blocked waits for the map.
LEMMA BlocksKeeps == ASSUME IInv, NEW r \in Req, Blocks(r) PROVE IInv'
<1> USE WinrtAssumption DEF IInv, Blocks, callVars, sharedVars, winVars, historyVars
<1>1. TypeOK'
  BY DEF TypeOK
<1>2. CallsPlaced'
  BY DEF CallsPlaced
<1>3. LocksHeld'
  BY DEF LocksHeld, Wants
<1>4. DeviceOwned'
  BY DEF DeviceOwned, Brings
<1>5. ServicesCurrent'
  BY DEF ServicesCurrent
<1>6. UsedStaysOpen'
  BY DEF UsedStaysOpen
<1>7. (~ careless => Careful)'
  BY DEF Careful, Connecting, Brings, InFlight
<1> QED BY <1>1, <1>2, <1>3, <1>4, <1>5, <1>6, <1>7

\* A call that is not careless meets no call it should be kept apart from.
LEMMA ClientCallsKeeps == ASSUME IInv, NEW r \in Req, ClientCalls(r) PROVE IInv'
<1> USE WinrtAssumption DEF IInv, ClientCalls, First, Calling, callVars, sharedVars, winVars, historyVars
<1>1. TypeOK'
  BY DEF TypeOK, Place
<1>2. CallsPlaced'
  BY DEF TypeOK, CallsPlaced, Discovering, MutexOp, Op
<1>3. LocksHeld'
  BY DEF LocksHeld, Discovering, Wants
<1>4. DeviceOwned'
  BY DEF TypeOK, DeviceOwned, Brings, Discovering
<1>5. ServicesCurrent'
  BY DEF ServicesCurrent
<1>6. UsedStaysOpen'
  BY DEF UsedStaysOpen
<1>7. (~ careless => Careful)'
  BY DEF TypeOK, CallsPlaced, Careful, Connecting, Brings, InFlight
<1> QED BY <1>1, <1>2, <1>3, <1>4, <1>5, <1>6, <1>7

\* A call that is dropped leaves the mutex, and its device if that is not in its place.
LEMMA AbandonsKeeps == ASSUME IInv, NEW r \in Req, Abandons(r) PROVE IInv'
<1> USE WinrtAssumption DEF IInv, Abandons, Close, Goes, callVars, sharedVars, winVars, historyVars
<1>1. TypeOK'
  BY ZenonT(60) DEF TypeOK, Place, DeviceOwned
<1>2. CallsPlaced'
  BY DEF TypeOK, CallsPlaced, Discovering
<1>3. LocksHeld'
  BY DEF TypeOK, LocksHeld, Discovering, Wants
<1>4. DeviceOwned'
  BY DEF TypeOK, DeviceOwned, Brings, Discovering
<1>5. ServicesCurrent'
  BY DEF ServicesCurrent
<1>6. UsedStaysOpen'
  BY DEF TypeOK, UsedStaysOpen
<1>7. (~ careless => Careful)'
  BY DEF Careful, Connecting, Brings, InFlight
<1> QED BY <1>1, <1>2, <1>3, <1>4, <1>5, <1>6, <1>7

----------------------------------------------------------------------------
(* Steps of Windows leave calls, locks and services alone. *)

\* Only types depend on what Windows alone changes.
LEMMA FrameKeeps ==
  ASSUME IInv, TypeOK', UNCHANGED <<callVars, device, mutex, ble_services, careless, open>>
  PROVE  IInv'
<1> USE DEF IInv, callVars
<1>1. CallsPlaced' /\ LocksHeld' /\ DeviceOwned'
  BY DEF CallsPlaced, LocksHeld, Wants, DeviceOwned, Brings
<1>2. ServicesCurrent' /\ UsedStaysOpen'
  BY DEF ServicesCurrent, UsedStaysOpen
<1>3. (~ careless => Careful)'
  BY DEF Careful, Connecting, Brings, InFlight
<1> QED BY <1>1, <1>2, <1>3

\* The handlers store and report.
LEMMA HandlerKeeps == ASSUME IInv, NEW r \in Req, HandlerStep(r) PROVE IInv'
<1>1. TypeOK'
  BY ZenonT(60) DEF IInv, TypeOK, HandlerStep, HandlerStarts, HandlerReads, HandlerStores, HandlerTells,
         Handler, Stores, Tells, Up, callVars
<1>2. UNCHANGED <<callVars, device, mutex, ble_services, careless, open>>
  BY DEF HandlerStep, HandlerStarts, HandlerReads, HandlerStores, HandlerTells, Handler
<1> QED BY <1>1, <1>2, FrameKeeps

\* The link changes.
LEMMA LinkKeeps == ASSUME IInv, LinkChanges PROVE IInv'
<1>1. TypeOK'
  BY WinrtAssumption DEF IInv, TypeOK, LinkChanges, callVars, sharedVars, historyVars
<1>2. UNCHANGED <<callVars, device, mutex, ble_services, careless, open>>
  BY DEF LinkChanges, sharedVars, historyVars
<1> QED BY <1>1, <1>2, FrameKeeps

\* Nothing changes.
LEMMA StutterKeeps == ASSUME IInv, UNCHANGED vars PROVE IInv'
<1>1. TypeOK'
  BY DEF IInv, TypeOK, vars, callVars, sharedVars, winVars, historyVars
<1> QED BY <1>1, FrameKeeps DEF vars, sharedVars, winVars, historyVars

----------------------------------------------------------------------------
\* No call, no device, an empty map.
LEMMA InitHolds == Init => IInv
<1> SUFFICES ASSUME Init PROVE IInv
  OBVIOUS
<1> USE WinrtAssumption DEF Init
<1>1. TypeOK
  <2>1. left \in [Req -> Seq(Service)]
    OBVIOUS
  <2>2. flips \in 0..MaxFlips
    OBVIOUS
  <2>3. ask \in [Req -> Asks \cup {NoAsk}] /\ at \in [Req -> Place]
    BY DEF Place
  <2>4. /\ ble_services \in [Service -> Req \cup {NoReq}]
        /\ hand \in [Req -> {"no", "starts", "up", "down", "tells"}]
    OBVIOUS
  <2> QED BY <2>1, <2>2, <2>3, <2>4 DEF TypeOK
<1>2. CallsPlaced /\ LocksHeld /\ DeviceOwned
  BY DEF CallsPlaced, LocksHeld, DeviceOwned, Brings, Discovering
<1>3. ServicesCurrent /\ UsedStaysOpen
  BY DEF ServicesCurrent, UsedStaysOpen
<1>4. Careful
  BY DEF Careful, Connecting, Brings, InFlight
<1> QED BY <1>1, <1>2, <1>3, <1>4 DEF IInv

\* The inductive invariant holds in every reachable state.
THEOREM Invariance == Spec => []IInv
<1>1. ASSUME IInv, [Next]_vars PROVE IInv'
  <2>1. CASE UNCHANGED vars
    BY <1>1, <2>1, StutterKeeps
  <2>2. ASSUME NEW r \in Req, CallStep(r) PROVE IInv'
    BY <1>1, <2>2, OpensKeeps, DialsKeeps, PlacesKeeps, ClearsKeeps, DropsKeeps, EmitsKeeps,
       QueriesKeeps, ListsKeeps, LooksKeeps, DiscoveredKeeps, FetchesKeeps, InsertsKeeps,
       GetsKeeps, EndsKeeps DEF CallStep
  <2>3. ASSUME NEW r \in Req, ClientCalls(r) \/ Blocks(r) \/ Abandons(r) PROVE IInv'
    BY <1>1, <2>3, ClientCallsKeeps, BlocksKeeps, AbandonsKeeps
  <2>4. ASSUME NEW r \in Req, HandlerStep(r) PROVE IInv'
    BY <1>1, <2>4, HandlerKeeps
  <2>5. CASE LinkChanges
    BY <1>1, <2>5, LinkKeeps
  <2> QED BY <1>1, <2>1, <2>2, <2>3, <2>4, <2>5 DEF Next
<1> QED BY InitHolds, <1>1, PTL DEF Spec

\* Type correctness.
THEOREM TypeCorrect == Spec => []TypeOK
<1>1. IInv => TypeOK
  BY DEF IInv
<1> QED BY Invariance, <1>1, PTL

\* The services that a careful client finds in the map are those of the device there is,
\* however its calls, the link and the handlers interleave.
THEOREM CarefulFindsCurrent == Spec => []ServicesCurrent
<1>1. IInv => ServicesCurrent
  BY DEF IInv
<1> QED BY Invariance, <1>1, PTL

\* No device is closed under a call of a careful client that uses it.
THEOREM NoneClosedInUse == Spec => []UsedStaysOpen
<1>1. IInv => UsedStaysOpen
  BY DEF IInv
<1> QED BY Invariance, <1>1, PTL

\* Some call can go on, for every number of calls and workers.
LEMMA SomeCanGo == IInv => NoCircle
<1> SUFFICES ASSUME IInv, NEW r \in Req, InFlight(r), ~ Starved
             PROVE  \E q \in Req : CanGo(q)
  BY DEF NoCircle
<1> USE WinrtAssumption DEF IInv
<1>1. Cardinality(blocked) \in Nat
  BY FS_Subset, FS_CardinalityType DEF TypeOK
<1>2. CASE Cardinality(blocked) >= Workers
  <2>1. PICK b \in blocked : Free(b)
    BY <1>2 DEF Starved
  <2>2. b \in Req /\ Wants(b)
    BY DEF TypeOK, LocksHeld
  <2> QED BY <2>1, <2>2 DEF CanGo, InFlight, Polled, Wants
<1>3. CASE Cardinality(blocked) < Workers
  <2>1. \A q \in Req : Polled(q)
    BY <1>3 DEF Polled
  <2>2. CASE \E q \in Req : at[q] = "awaits"
    BY <2>1, <2>2 DEF CanGo, InFlight, Wants
  <2>3. CASE \A q \in Req : at[q] # "awaits"
    <3>1. \A q \in Req : Free(q)
      BY <2>3 DEF Free, Holds
    <3>2. CASE at[r] = "locks" /\ mutex # NoReq
      <4>1. mutex \in Req /\ at[mutex] \in Discovering \cup {"emits"}
        BY <3>2 DEF TypeOK, LocksHeld
      <4> QED BY <2>1, <3>1, <4>1 DEF CanGo, InFlight, Discovering
    <3>3. CASE ~ (at[r] = "locks" /\ mutex # NoReq)
      BY <2>1, <3>1, <3>3 DEF CanGo
    <3> QED BY <3>2, <3>3
  <2> QED BY <2>2, <2>3
<1> QED BY <1>1, <1>2, <1>3

\* The mutex and the locks of the map are never waited for in a circle.
THEOREM NeverInACircle == Spec => []NoCircle
BY Invariance, SomeCanGo, PTL

----------------------------------------------------------------------------
(* What the flag and the events say in the end. *)

\* The handler of the device in its place is to be called, or is at one of these places.
Pending(places) == device # NoReq /\ (device \in due \/ hand[device] \in places)

\* The flag is right, was wrong when it was stored, or will be stored again.
FlagInv == ~ misled => connected = Up \/ Pending({"starts", "up", "down"})

\* So it is with the event, which a connect() or disconnect() sends after it stored the flag.
ToldInv ==
    ~ belied /\ told = "DeviceConnected" =>
        Up \/ Pending({"starts", "down", "tells"}) \/ \E r \in Req : at[r] = "emits"

EventInv == FlagInv /\ ToldInv

\* A call that touches neither device, link, flag nor events, and drops no device but its own.
LEMMA CallTellsNothing ==
  ASSUME IInv, EventInv, NEW r \in Req, NEW place, at' = [at EXCEPT ![r] = place] \/ at' = at,
         at[r] # "emits", device # r \/ due' = due, due' = due \/ due' = due \ {r},
         UNCHANGED <<device, link, connected, hand, historyVars>> \/
            UNCHANGED <<device, link, connected, hand, told, belied, misled>>
  PROVE  EventInv'
<1>1. UNCHANGED <<device, link, connected, hand, told, belied, misled>> /\ at \in [Req -> Place]
  BY DEF historyVars, IInv, TypeOK
<1>2. \A places : Pending(places) => Pending(places)'
  BY <1>1 DEF Pending
<1>3. (\E q \in Req : at[q] = "emits") => \E q \in Req : at'[q] = "emits"
  BY <1>1
<1>4. Up' = Up
  BY <1>1 DEF Up
<1> QED BY <1>1, <1>2, <1>3, <1>4 DEF EventInv, FlagInv, ToldInv

\* A step of a call stores and tells what it does, or nothing.
LEMMA CallStepTells ==
  ASSUME IInv, EventInv, NEW r \in Req, CallStep(r) \/ ClientCalls(r) \/ Blocks(r) \/ Abandons(r)
  PROVE  EventInv'
<1> USE DEF callVars, sharedVars, winVars, historyVars
<1>0. /\ device = r => at[r] \in {"emits", "done"}
      /\ at \in [Req -> Place] /\ device \in open \cup {NoReq} /\ open \subseteq Req
      /\ NoReq \notin Req /\ connected \in BOOLEAN /\ link \in BOOLEAN /\ due \subseteq open
  BY WinrtAssumption DEF IInv, TypeOK, DeviceOwned
<1>1. CASE Opens(r) \/ Ends(r)
  BY <1>0, <1>1, CallTellsNothing DEF Opens, Ends, Goes
<1>2. CASE Dials(r)
  BY <1>0, <1>2, CallTellsNothing DEF Dials, Goes, Close
<1>3. CASE Places(r)
  <2>1. /\ device' = r /\ link' = link /\ connected' = TRUE /\ misled' = (TRUE # link)
        /\ at'[r] = "emits"
    BY <1>0, <1>3 DEF Places, Locks, Stores, Goes
  <2> QED BY <1>0, <2>1 DEF EventInv, FlagInv, ToldInv, Up
<1>4. CASE Clears(r)
  BY <1>0, <1>4, CallTellsNothing DEF Clears, Enters, Goes
<1>5. CASE Drops(r)
  <2>1. device' = NoReq /\ connected' = FALSE /\ misled' = FALSE /\ at'[r] = "emits"
    BY <1>0, <1>5 DEF Drops, Locks, Stores, Goes
  <2> QED BY <1>0, <2>1 DEF EventInv, FlagInv, ToldInv, Up
<1>6. CASE Emits(r)
  <2>1. /\ UNCHANGED <<device, link, connected, due, hand, misled>>
        /\ belied' = (told' = "DeviceConnected" /\ ~ Up)
    BY <1>6 DEF Emits, Tells
  <2>2. FlagInv'
    BY <2>1 DEF EventInv, FlagInv, Up, Pending
  <2> QED BY <2>1, <2>2 DEF EventInv, ToldInv, Up
<1>7. CASE Queries(r)
  BY <1>0, <1>7, CallTellsNothing DEF Queries, Locks, Goes
<1>8. CASE Lists(r)
  BY <1>0, <1>8, CallTellsNothing DEF Lists, Goes
<1>9. CASE Looks(r)
  BY <1>0, <1>9, CallTellsNothing DEF Looks, Enters, Goes
<1>10. CASE Discovered(r) \/ Fetches(r)
  BY <1>0, <1>10, CallTellsNothing DEF Discovered, Fetches, Goes
<1>11. CASE Inserts(r) \/ Gets(r)
  BY <1>0, <1>11, CallTellsNothing DEF Inserts, Gets, Enters, Goes
<1>12. CASE ClientCalls(r)
  <2>1. PICK place : at' = [at EXCEPT ![r] = place]
    BY <1>12 DEF ClientCalls
  <2> QED BY <1>0, <1>12, <2>1, CallTellsNothing DEF ClientCalls
<1>13. CASE Blocks(r)
  BY <1>0, <1>13, CallTellsNothing DEF Blocks, Wants
<1>14. CASE Abandons(r)
  BY <1>0, <1>14, CallTellsNothing DEF Abandons, Goes, Close
<1> QED BY <1>1, <1>2, <1>3, <1>4, <1>5, <1>6, <1>7, <1>8, <1>9, <1>10, <1>11, <1>12, <1>13, <1>14
        DEF CallStep

\* A handler that was called for the device in its place reads the status there is.
LEMMA HandlerStepTells ==
  ASSUME IInv, EventInv, NEW r \in Req, HandlerStep(r)
  PROVE  EventInv'
<1>0. /\ device \in open \cup {NoReq} /\ open \subseteq Req /\ NoReq \notin Req /\ due \subseteq open
      /\ hand \in [Req -> {"no", "starts", "up", "down", "tells"}]
      /\ connected \in BOOLEAN /\ link \in BOOLEAN
  BY WinrtAssumption DEF IInv, TypeOK
<1>1. /\ UNCHANGED <<device, link, at>> /\ Up' = Up
  <2>1. UNCHANGED <<device, link, at>>
    <3>1. CASE HandlerStarts(r)
      BY <3>1 DEF HandlerStarts, Handler, callVars
    <3>2. CASE HandlerReads(r)
      BY <3>2 DEF HandlerReads, Handler, callVars
    <3>3. CASE HandlerStores(r)
      BY <3>3 DEF HandlerStores, Handler, callVars
    <3>4. CASE HandlerTells(r)
      BY <3>4 DEF HandlerTells, Handler, callVars
    <3> QED BY <3>1, <3>2, <3>3, <3>4 DEF HandlerStep
  <2> QED BY <2>1 DEF Up
<1>2. CASE HandlerStarts(r)
  <2>1. /\ due' = due \ {r} /\ hand' = [hand EXCEPT ![r] = "starts"] /\ hand[r] = "no"
        /\ UNCHANGED <<connected, told, belied, misled>>
    BY <1>2 DEF HandlerStarts, Handler
  <2> QED BY <1>0, <1>1, <2>1 DEF EventInv, FlagInv, ToldInv, Pending
<1>3. CASE HandlerReads(r)
  <2>1. /\ hand[r] = "starts" /\ UNCHANGED <<due, connected, told, belied, misled>>
        /\ \/ hand' = [hand EXCEPT ![r] = IF link THEN "up" ELSE "down"]
           \/ r \notin open /\ hand' = [hand EXCEPT ![r] = "down"]
    BY <1>3 DEF HandlerReads, Handler
  <2>2. CASE r # device
    <3>1. device # NoReq => hand'[device] = hand[device]
      BY <1>0, <2>1, <2>2
    <3> QED BY <1>1, <2>1, <3>1 DEF EventInv, FlagInv, ToldInv, Pending
  <2>3. CASE r = device
    <3>1. device # NoReq /\ hand'[device] = IF link THEN "up" ELSE "down"
      BY <1>0, <2>1, <2>3
    <3> QED BY <1>1, <2>1, <3>1 DEF EventInv, FlagInv, ToldInv, Pending, Up
  <2> QED BY <2>2, <2>3
<1>4. CASE HandlerStores(r)
  <2>1. /\ UNCHANGED <<due, told, belied>> /\ connected' \in BOOLEAN /\ misled' = (connected' # Up)
        /\ \/ hand[r] = "up" /\ hand' = [hand EXCEPT ![r] = "no"]
           \/ hand[r] = "down" /\ hand' = [hand EXCEPT ![r] = "tells"]
    BY <1>4 DEF HandlerStores, Handler, Stores
  <2>2. FlagInv'
    BY <1>1, <2>1 DEF FlagInv
  <2>3. ToldInv'
    BY <1>0, <1>1, <2>1 DEF EventInv, ToldInv, Pending
  <2> QED BY <2>2, <2>3 DEF EventInv
<1>5. CASE HandlerTells(r)
  <2>1. /\ hand[r] = "tells" /\ hand' = [hand EXCEPT ![r] = "no"]
        /\ told' = "DeviceDisconnected" /\ UNCHANGED <<due, connected, misled>>
    BY <1>5 DEF HandlerTells, Handler, Tells
  <2> QED BY <1>0, <1>1, <2>1 DEF EventInv, FlagInv, ToldInv, Pending
<1> QED BY <1>2, <1>3, <1>4, <1>5 DEF HandlerStep

\* At first nothing was stored or told; the link never changes without the handler of the
\* device in its place being due.
THEOREM EventsFollowLink == Spec => [](IInv /\ EventInv)
<1>1. Init => IInv /\ EventInv
  BY InitHolds DEF Init, EventInv, FlagInv, ToldInv, Up
<1>2. ASSUME IInv, EventInv, [Next]_vars PROVE EventInv'
  <2>1. CASE UNCHANGED vars
    BY <1>2, <2>1 DEF vars, callVars, sharedVars, winVars, historyVars, EventInv, FlagInv, ToldInv,
                      Up, Pending
  <2>2. CASE LinkChanges
    <3>1. device \in open \cup {NoReq}
      BY <1>2 DEF IInv, TypeOK
    <3>2. UNCHANGED <<device, connected, told, belied, misled, at>> /\ due' = open
      BY <2>2 DEF LinkChanges, callVars, sharedVars, historyVars
    <3>3. CASE device = NoReq
      BY <1>2, <3>2, <3>3 DEF EventInv, FlagInv, ToldInv, Up, Pending
    <3>4. CASE device # NoReq
      BY <3>1, <3>2, <3>4 DEF EventInv, FlagInv, ToldInv, Pending
    <3> QED BY <3>3, <3>4
  <2>3. ASSUME NEW r \in Req, CallStep(r) \/ ClientCalls(r) \/ Blocks(r) \/ Abandons(r)
        PROVE  EventInv'
    BY <1>2, <2>3, CallStepTells
  <2>4. ASSUME NEW r \in Req, HandlerStep(r)
        PROVE  EventInv'
    BY <1>2, <2>4, HandlerStepTells
  <2> QED BY <1>2, <2>1, <2>2, <2>3, <2>4 DEF Next
<1> QED BY <1>1, <1>2, Invariance, PTL DEF Spec

\* When nothing is left to do the flag is right about the link, for any number of calls and
\* workers, unless the last to store it had been overtaken.
THEOREM FlagIsRight == Spec => []FlagTruth
<1>1. IInv /\ EventInv => FlagTruth
  BY DEF EventInv, FlagInv, FlagTruth, Settled, Pending, IInv, TypeOK
<1> QED BY <1>1, EventsFollowLink, PTL

\* When nothing is left to do, a client that was told last of a connection has one, unless
\* the loss of the link had overtaken the connect() that told it.
THEOREM ToldIsRight == Spec => []ToldTruth
<1>1. IInv /\ EventInv => ToldTruth
  BY DEF EventInv, ToldInv, ToldTruth, Settled, InFlight, Pending, IInv, TypeOK
<1> QED BY <1>1, EventsFollowLink, PTL
=============================================================================
