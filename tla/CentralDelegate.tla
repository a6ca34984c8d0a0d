-------------------------- MODULE CentralDelegate --------------------------
(***************************************************************************)
(* The Objective-C delegate of the CoreBluetooth backend                   *)
(* (src/src/corebluetooth/central_delegate.rs) and, as its environment,    *)
(* the operating system framework that calls it.                           *)
(*                                                                         *)
(* CoreBluetooth runs the callbacks of one manager on one dispatch queue,  *)
(* and talks to one device with one ATT transaction at a time: what the    *)
(* program asks of a device is served in the order it was asked.  Each     *)
(* callback turns its arguments into a CentralDelegateEvent, which it sends *)
(* to the thread of CoreBluetoothInternal through one FIFO channel, and    *)
(* the discovery callbacks ask the framework for the next level down.      *)
(***************************************************************************)
EXTENDS Integers, Sequences, Functions

CONSTANTS
    Device,      \* CBPeripheral identifiers
    Service,     \* service UUIDs
    Char,        \* (service, characteristic) UUID pairs
    Desc,        \* (service, characteristic, descriptor) UUID triples
    ServicesOf,  \* Device  -> the services the device offers, as an NSArray
    Includes,    \* Service -> the services it includes
    CharsOf,     \* Service -> its characteristics
    DescsOf,     \* Char    -> its descriptors
    ServiceOf,   \* Char    -> the service it belongs to
    CharOf,      \* Desc    -> the characteristic it belongs to
    Req,         \* the futures of the clients' calls
    NoReq,       \* no future: an Option that is None, a notification
    NoAttr,      \* an operation on the device itself
    MayFail,     \* the ATT operations that may report an error
    Notifies     \* BOUND: whether devices send unsolicited notifications

ASSUME DelegateAssumption ==
    /\ ServicesOf \in [Device -> Seq(Service)]
    /\ Includes \in [Service -> Seq(Service)]
    /\ CharsOf \in [Service -> Seq(Char)]
    /\ DescsOf \in [Char -> Seq(Desc)]
    /\ NoReq \notin Req
    /\ ServiceOf \in [Char -> Service]
    /\ CharOf \in [Desc -> Char]
    /\ \A s \in Service : Range(CharsOf[s]) = {c \in Char : ServiceOf[c] = s}
    /\ \A c \in Char : Range(DescsOf[c]) = {x \in Desc : CharOf[x] = c}
    /\ NoAttr \notin Service \cup Char \cup Desc
    /\ Service \cap Char = {} /\ Char \cap Desc = {} /\ Desc \cap Service = {}
    /\ Notifies \in BOOLEAN

Attr == Service \cup Char \cup Desc \cup {NoAttr}

(***************************************************************************)
(* cb[d] is what the framework knows of device d:                          *)
(*   link       CBPeripheral.state                                         *)
(*   dial       a connectPeripheral call it has not answered yet           *)
(*   att        the ATT operations it has accepted and not completed; req  *)
(*              is the call that asked (the code has no such tag: only the *)
(*              properties look at it)                                     *)
(*   notifying  the characteristics whose isNotifying is YES               *)
(*   cached     those whose descriptors property is filled                 *)
(*   failed     an ATT operation has reported an error on this link        *)
(* delegate is the channel of CentralDelegateEvents; panic is why the      *)
(* thread that reads it died, "none" while it runs.                        *)
(***************************************************************************)
VARIABLES cb, delegate, scanning, panic

delegateVars == <<cb, delegate, scanning, panic>>

CharOp == {"read", "write", "subscribe", "unsubscribe"}
DescOp == {"read_descriptor", "write_descriptor"}

AttOp(op, a, r) == [op |-> op, attr |-> a, req |-> r]

AttOps == [op : {"services"}, attr : {NoAttr}, req : {NoReq}]
            \cup [op : {"chars", "included"}, attr : Service, req : {NoReq}]
            \cup [op : {"descs"}, attr : Char, req : {NoReq}]
            \cup [op : CharOp, attr : Char, req : Req]
            \cup [op : DescOp, attr : Desc, req : Req]

Unplugged == [link |-> "disconnected", dial |-> FALSE, att |-> <<>>, notifying |-> {},
              cached |-> {}, failed |-> FALSE]

DeviceEvent == {"DiscoveredPeripheral", "DiscoveredServices", "ConnectedDevice",
                "ConnectionFailed", "DisconnectedDevice"}
ServiceEvent == {"DiscoveredCharacteristics"}
CharEvent == {"DiscoveredCharacteristicDescriptors", "CharacteristicSubscribed",
              "CharacteristicUnsubscribed", "CharacteristicNotified", "CharacteristicWritten"}
DescEvent == {"DescriptorNotified", "DescriptorWritten"}

CentralDelegateEvent ==
    [ev : DeviceEvent, dev : Device, attr : {NoAttr}, req : {NoReq}]
      \cup [ev : ServiceEvent, dev : Device, attr : Service, req : {NoReq}]
      \cup [ev : CharEvent, dev : Device, attr : Char, req : Req \cup {NoReq}]
      \cup [ev : DescEvent, dev : Device, attr : Desc, req : Req]

Event(kind, d, a, r) == [ev |-> kind, dev |-> d, attr |-> a, req |-> r]

Send(e) == delegate' = Append(delegate, e)

DelegateTypeOK ==
    /\ cb \in [Device -> [link : {"disconnected", "connecting", "connected", "disconnecting"},
                          dial : BOOLEAN, att : Seq(AttOps), notifying : SUBSET Char,
                          cached : SUBSET Char, failed : BOOLEAN]]
    /\ delegate \in Seq(CentralDelegateEvent)
    /\ scanning \in BOOLEAN

DelegateInit ==
    /\ cb = [d \in Device |-> Unplugged]
    /\ delegate = <<>>
    /\ scanning = FALSE
    /\ panic = "none"

----------------------------------------------------------------------------
(* What the program asks of the framework. *)

\* [CBCentralManager connectPeripheral]: a device that is connected already answers at once.
Connect(d) == cb' = [cb EXCEPT ![d].dial = TRUE,
                               ![d].link = IF @ = "disconnected" THEN "connecting" ELSE @]

\* [CBCentralManager cancelPeripheralConnection]: nothing to cancel, no callback.
CancelConnection(d) ==
    cb' = IF cb[d].link \in {"connecting", "connected"}
          THEN [cb EXCEPT ![d].link = "disconnecting", ![d].dial = FALSE]
          ELSE cb

\* An ATT request; on a link that is not up the framework only logs API misuse.
Ask(d, op, a, r) ==
    cb' = IF cb[d].link = "connected"
          THEN [cb EXCEPT ![d].att = Append(@, AttOp(op, a, r))]
          ELSE cb

----------------------------------------------------------------------------
(* CBCentralManagerDelegate. *)

DidDiscoverPeripheral(d) ==
    /\ scanning
    /\ \A i \in DOMAIN delegate :      \* BOUND: no other event of d in the channel
          delegate[i].dev # d
    /\ Send(Event("DiscoveredPeripheral", d, NoAttr, NoReq))
    /\ UNCHANGED cb

\* The callback asks for the services before it tells anyone that the link is up.
DidConnectPeripheral(d) ==
    /\ cb[d].dial
    /\ cb[d].link \in {"connecting", "connected"}
    /\ cb' = [cb EXCEPT ![d].dial = FALSE, ![d].link = "connected",
                        ![d].att = Append(@, AttOp("services", NoAttr, NoReq))]
    /\ Send(Event("ConnectedDevice", d, NoAttr, NoReq))

DidFailToConnectPeripheral(d) ==
    /\ cb[d].dial
    /\ cb[d].link = "connecting"
    /\ cb' = [cb EXCEPT ![d].dial = FALSE, ![d].link = "disconnected"]
    /\ Send(Event("ConnectionFailed", d, NoAttr, NoReq))

\* The link goes down, because the program cancelled it or by itself; what was
\* outstanding on it is forgotten, and a connect that came meanwhile starts over.
DidDisconnectPeripheral(d) ==
    /\ cb[d].link \in {"connected", "disconnecting"}
    /\ cb' = [cb EXCEPT ![d] = [Unplugged EXCEPT
                  !.dial = cb[d].dial,
                  !.link = IF cb[d].dial THEN "connecting" ELSE "disconnected"]]
    /\ Send(Event("DisconnectedDevice", d, NoAttr, NoReq))

----------------------------------------------------------------------------
(* CBPeripheralDelegate: the oldest ATT operation of d completes. *)

Completes(d, ops) ==
    /\ cb[d].link \in {"connected", "disconnecting"}
    /\ cb[d].att # <<>>
    /\ Head(cb[d].att).op \in ops

\* The operation leaves the framework, which goes on with `more`.
Done(d, more) == [cb EXCEPT ![d].att = Tail(@) \o more]

\* `if error == nil { .. }`: every callback but the one for the notification state sends
\* no event when it reports an error.
OperationFails(d) ==
    /\ Completes(d, MayFail \ {"subscribe", "unsubscribe"})
    /\ cb' = [Done(d, <<>>) EXCEPT ![d].failed = TRUE]
    /\ UNCHANGED delegate

DidDiscoverServices(d) ==
    /\ Completes(d, {"services"})
    /\ LET found == ServicesOf[d]
           \* for each service: discoverCharacteristics, then discoverIncludedServices
           next  == [i \in 1..(2 * Len(found)) |->
                        IF i % 2 = 1 THEN AttOp("chars", found[(i + 1) \div 2], NoReq)
                                     ELSE AttOp("included", found[i \div 2], NoReq)]
       IN  cb' = Done(d, next)
    /\ Send(Event("DiscoveredServices", d, NoAttr, NoReq))

DidDiscoverIncludedServices(d) ==
    /\ Completes(d, {"included"})
    /\ LET found == Includes[Head(cb[d].att).attr]
       IN  cb' = Done(d, [i \in 1..Len(found) |-> AttOp("chars", found[i], NoReq)])
    /\ UNCHANGED delegate

DidDiscoverCharacteristics(d) ==
    /\ Completes(d, {"chars"})
    /\ LET s == Head(cb[d].att).attr
       IN  /\ cb' = Done(d, [i \in 1..Len(CharsOf[s]) |-> AttOp("descs", CharsOf[s][i], NoReq)])
           /\ Send(Event("DiscoveredCharacteristics", d, s, NoReq))

DidDiscoverDescriptors(d) ==
    /\ Completes(d, {"descs"})
    /\ LET c == Head(cb[d].att).attr
       IN  /\ cb' = [Done(d, <<>>) EXCEPT ![d].cached = @ \cup {c}]
           /\ Send(Event("DiscoveredCharacteristicDescriptors", d, c, NoReq))

\* The value of a characteristic arrived: for a read, and for a notification too.
DidUpdateValueForCharacteristic(d) ==
    \/ /\ Completes(d, {"read"})
       /\ cb' = Done(d, <<>>)
       /\ LET o == Head(cb[d].att)
          IN  Send(Event("CharacteristicNotified", d, o.attr, o.req))
    \/ /\ Notifies
       /\ \A i \in DOMAIN delegate :   \* BOUND: one notification in the channel
             delegate[i].ev = "CharacteristicNotified" => delegate[i].req # NoReq
       /\ cb[d].link = "connected"
       /\ \E c \in cb[d].notifying : Send(Event("CharacteristicNotified", d, c, NoReq))
       /\ UNCHANGED cb

DidWriteValueForCharacteristic(d) ==
    /\ Completes(d, {"write"})
    /\ cb' = Done(d, <<>>)
    /\ LET o == Head(cb[d].att)
       IN  Send(Event("CharacteristicWritten", d, o.attr, o.req))

\* The error is not looked at: isNotifying alone chooses the event.
DidUpdateNotificationState(d) ==
    /\ Completes(d, {"subscribe", "unsubscribe"})
    /\ LET o   == Head(cb[d].att)
           on  == IF o.op = "subscribe" THEN cb[d].notifying \cup {o.attr}
                                        ELSE cb[d].notifying \ {o.attr}
           is(n) == IF o.attr \in n THEN "CharacteristicSubscribed"
                                    ELSE "CharacteristicUnsubscribed"
       IN  \/ /\ cb' = [Done(d, <<>>) EXCEPT ![d].notifying = on]
              /\ Send(Event(is(on), d, o.attr, o.req))
           \/ /\ o.op \in MayFail
              /\ cb' = [Done(d, <<>>) EXCEPT ![d].failed = TRUE]
              /\ Send(Event(is(cb[d].notifying), d, o.attr, o.req))

\* Seeded fault: a descriptor that was read is reported as its characteristic would be.
DescriptorAsCharacteristic(d) ==
    /\ Completes(d, {"read_descriptor"})
    /\ cb' = Done(d, <<>>)
    /\ LET o == Head(cb[d].att)
       IN  Send(Event("CharacteristicNotified", d, o.attr, o.req))

\* The event names the descriptor, but its data is the value that the characteristic had last
\* (get_characteristic_value), as if that had been read: the value of the descriptor is not
\* sent to anyone.  Values are not modelled; `req` says which operation completed.
DidUpdateValueForDescriptor(d) ==
    /\ Completes(d, {"read_descriptor"})
    /\ cb' = Done(d, <<>>)
    /\ LET o == Head(cb[d].att)
       IN  Send(Event("DescriptorNotified", d, o.attr, o.req))

DidWriteValueForDescriptor(d) ==
    /\ Completes(d, {"write_descriptor"})
    /\ cb' = Done(d, <<>>)
    /\ LET o == Head(cb[d].att)
       IN  Send(Event("DescriptorWritten", d, o.attr, o.req))

----------------------------------------------------------------------------
AttCallback(d) ==
    \/ DidDiscoverServices(d)
    \/ DidDiscoverIncludedServices(d)
    \/ DidDiscoverCharacteristics(d)
    \/ DidDiscoverDescriptors(d)
    \/ DidUpdateValueForCharacteristic(d)
    \/ DidWriteValueForCharacteristic(d)
    \/ DidUpdateNotificationState(d)
    \/ DidUpdateValueForDescriptor(d)
    \/ DidWriteValueForDescriptor(d)
    \/ OperationFails(d)

LinkCallback(d) ==
    \/ DidDiscoverPeripheral(d)
    \/ DidConnectPeripheral(d)
    \/ DidFailToConnectPeripheral(d)
    \/ DidDisconnectPeripheral(d)

\* The framework calls back only while the thread that owns the manager lives.
Callback(d) ==
    /\ panic = "none"
    /\ AttCallback(d) \/ LinkCallback(d)
    /\ UNCHANGED <<scanning, panic>>
=============================================================================
