-------------------- MODULE CoreBluetoothPipelineProofs --------------------
(***************************************************************************)
(* Theorems of CoreBluetoothInternal that follow what is asked of a device *)
(* through its pipeline: the operations the framework has accepted, oldest *)
(* first, and behind them the events the delegate has sent.                *)
(***************************************************************************)
EXTENDS CoreBluetoothInternalProofs

----------------------------------------------------------------------------
(* The pipeline. *)

\* e is the event the delegate of d sends when operation o is over.
Reports(o, d, e) ==
    /\ e.dev = d /\ e.attr = o.attr /\ e.req = o.req
    /\ \/ o.op = "services" /\ e.ev = "DiscoveredServices"
       \/ o.op = "chars" /\ e.ev = "DiscoveredCharacteristics"
       \/ o.op = "descs" /\ e.ev = "DiscoveredCharacteristicDescriptors"
       \/ o.op = "read" /\ e.ev = "CharacteristicNotified"
       \/ o.op = "write" /\ e.ev = "CharacteristicWritten"
       \/ /\ o.op \in {"subscribe", "unsubscribe"}
          /\ e.ev \in {"CharacteristicSubscribed", "CharacteristicUnsubscribed"}
       \/ o.op = "read_descriptor" /\ e.ev = "DescriptorNotified"
       \/ o.op = "write_descriptor" /\ e.ev = "DescriptorWritten"

\* An error while changing a subscription is reported as the change that did not happen.
Truly(o, e) ==
    /\ o.op = "subscribe" => e.ev = "CharacteristicSubscribed"
    /\ o.op = "unsubscribe" => e.ev = "CharacteristicUnsubscribed"

\* What the delegate asks for before it sends an event of kind ev about attribute a of d.
Follows(d, ev, a) ==
    IF ev = "DiscoveredServices"
    THEN {AttOp("chars", s, NoReq) : s \in Range(ServicesOf[d])}
    ELSE IF ev = "DiscoveredCharacteristics"
    THEN {AttOp("descs", c, NoReq) : c \in {c \in Char : ServiceOf[c] = a}}
    ELSE {}

\* Operation o of d is still to come: accepted, or reported behind the i-th event.
Later(i, d, o) ==
    \/ \E j \in DOMAIN cb[d].att : cb[d].att[j] = o
    \/ \E j \in DOMAIN delegate : j > i /\ Reports(o, d, delegate[j])

\* The link of d is over, as an event behind the i-th one says.
Over(i, d) ==
    \E j \in DOMAIN delegate :
        j > i /\ delegate[j].dev = d /\ delegate[j].ev = "DisconnectedDevice"

\* Nothing can be expected behind the i-th event.
Broken(i, d) == cb[d].failed \/ Over(i, d)

----------------------------------------------------------------------------
(* The steps of the framework. *)

\* The oldest operation of d leaves the framework, which goes on with `more`.
Finishes(d, more) ==
    /\ cb[d].link \in {"connected", "disconnecting"}
    /\ cb[d].att # <<>>
    /\ cb'[d].att = Tail(cb[d].att) \o more
    /\ cb'[d].link = cb[d].link /\ cb'[d].dial = cb[d].dial
    /\ cb[d].cached \subseteq cb'[d].cached
    /\ cb[d].failed => cb'[d].failed
    /\ \A q \in Device \ {d} : cb'[q] = cb[q]

\* It is reported.
Reported(d) ==
    \E more \in Seq(AttOps), e \in CentralDelegateEvent :
        /\ Finishes(d, more)
        /\ Send(e) /\ Reports(Head(cb[d].att), d, e)
        /\ \A j \in DOMAIN more : more[j].req = NoReq
        /\ Follows(d, e.ev, e.attr) \subseteq Range(more)
        /\ e.ev = "DiscoveredCharacteristicDescriptors" => e.attr \in cb'[d].cached
        /\ Truly(Head(cb[d].att), e) \/ cb'[d].failed

\* It is over without a word: an error, or the result for the included services.
Silent(d) ==
    \E more \in Seq(AttOps) :
        /\ Finishes(d, more)
        /\ delegate' = delegate
        /\ \A j \in DOMAIN more : more[j].req = NoReq
        /\ Head(cb[d].att).op = "included" \/ cb'[d].failed

\* Something that was not asked for is reported: an advertisement, a notification.
Unasked(d) ==
    /\ cb' = cb
    /\ \E e \in CentralDelegateEvent :
          /\ Send(e)
          /\ e.dev = d /\ e.req = NoReq
          /\ e.ev \in {"DiscoveredPeripheral", "CharacteristicNotified"}

\* A record of the framework after an operation is over.
LEMMA DoneFinishes ==
    ASSUME DelegateTypeOK, NEW d \in Device, NEW ops, Completes(d, ops), NEW more,
           \/ cb' = Done(d, more)
           \/ cb' = [Done(d, more) EXCEPT ![d].failed = TRUE]
           \/ \E A \in SUBSET Char : cb' = [Done(d, more) EXCEPT ![d].cached = @ \cup A]
           \/ \E A : cb' = [Done(d, more) EXCEPT ![d].notifying = A]
    PROVE  Finishes(d, more)
  <1> DEFINE f == Done(d, more)
  <1>1. cb \in [Device -> [link : {"disconnected", "connecting", "connected", "disconnecting"},
                           dial : BOOLEAN, att : Seq(AttOps), notifying : SUBSET Char,
                           cached : SUBSET Char, failed : BOOLEAN]]
    BY DEF DelegateTypeOK
  <1>2. /\ DOMAIN f = Device
        /\ f[d] = [cb[d] EXCEPT !.att = Tail(cb[d].att) \o more]
        /\ \A q \in Device \ {d} : f[q] = cb[q]
    BY <1>1 DEF Done
  <1> HIDE DEF f
  <1>3. CASE cb' = f
    <2>1. cb'[d] = f[d] /\ \A q \in Device \ {d} : cb'[q] = f[q]
      BY <1>3
    <2> QED BY <1>1, <1>2, <2>1 DEF Finishes, Completes
  <1>4. CASE cb' = [f EXCEPT ![d].failed = TRUE]
    <2>1. cb'[d] = [f[d] EXCEPT !.failed = TRUE] /\ \A q \in Device \ {d} : cb'[q] = f[q]
      BY <1>2, <1>4
    <2> QED BY <1>1, <1>2, <2>1 DEF Finishes, Completes
  <1>5. CASE \E A \in SUBSET Char : cb' = [f EXCEPT ![d].cached = @ \cup A]
    <2>1. PICK A \in SUBSET Char : cb' = [f EXCEPT ![d].cached = @ \cup A]
      BY <1>5
    <2>2. /\ cb'[d] = [f[d] EXCEPT !.cached = f[d].cached \cup A]
          /\ \A q \in Device \ {d} : cb'[q] = f[q]
      BY <1>2, <2>1
    <2> QED BY <1>1, <1>2, <2>2 DEF Finishes, Completes
  <1>6. CASE \E A : cb' = [f EXCEPT ![d].notifying = A]
    <2>1. PICK A : cb' = [f EXCEPT ![d].notifying = A]
      BY <1>6
    <2>2. /\ cb'[d] = [f[d] EXCEPT !.notifying = A]
          /\ \A q \in Device \ {d} : cb'[q] = f[q]
      BY <1>2, <2>1
    <2> QED BY <1>1, <1>2, <2>2 DEF Finishes, Completes
  <1> QED BY <1>3, <1>4, <1>5, <1>6 DEF f

\* What the delegate asks for after a discovery covers what it found.
LEMMA NextLevel ==
    ASSUME NEW d \in Device
    PROVE  /\ \A found \in Seq(Service) :
                 LET next == [i \in 1..(2 * Len(found)) |->
                                IF i % 2 = 1 THEN AttOp("chars", found[(i + 1) \div 2], NoReq)
                                             ELSE AttOp("included", found[i \div 2], NoReq)]
                 IN  /\ next \in Seq(AttOps)
                     /\ \A i \in DOMAIN next : next[i].req = NoReq
                     /\ \A s \in Range(found) : AttOp("chars", s, NoReq) \in Range(next)
           /\ \A found \in Seq(Service) :
                 LET next == [i \in 1..Len(found) |-> AttOp("chars", found[i], NoReq)]
                 IN  /\ next \in Seq(AttOps)
                     /\ \A i \in DOMAIN next : next[i].req = NoReq
           /\ \A found \in Seq(Char) :
                 LET next == [i \in 1..Len(found) |-> AttOp("descs", found[i], NoReq)]
                 IN  /\ next \in Seq(AttOps)
                     /\ \A i \in DOMAIN next : next[i].req = NoReq
                     /\ \A c \in Range(found) : AttOp("descs", c, NoReq) \in Range(next)
  <1>1. ASSUME NEW found \in Seq(Service)
        PROVE  LET next == [i \in 1..(2 * Len(found)) |->
                              IF i % 2 = 1 THEN AttOp("chars", found[(i + 1) \div 2], NoReq)
                                           ELSE AttOp("included", found[i \div 2], NoReq)]
               IN  /\ next \in Seq(AttOps)
                   /\ \A i \in DOMAIN next : next[i].req = NoReq
                   /\ \A s \in Range(found) : AttOp("chars", s, NoReq) \in Range(next)
    <2> DEFINE next == [i \in 1..(2 * Len(found)) |->
                          IF i % 2 = 1 THEN AttOp("chars", found[(i + 1) \div 2], NoReq)
                                       ELSE AttOp("included", found[i \div 2], NoReq)]
    <2>1. ASSUME NEW i \in 1..(2 * Len(found))
          PROVE  next[i] \in AttOps /\ next[i].req = NoReq
      <3>1. CASE i % 2 = 1
        <4>1. (i + 1) \div 2 \in 1..Len(found)
          BY <3>1
        <4>2. next[i] \in AttOps
          BY <3>1, <4>1, AttOpTypes
        <4> QED BY <3>1, <4>2 DEF AttOp
      <3>2. CASE i % 2 # 1
        <4>1. i \div 2 \in 1..Len(found)
          BY <3>2
        <4>2. next[i] \in AttOps
          BY <3>2, <4>1, AttOpTypes
        <4> QED BY <3>2, <4>2 DEF AttOp
      <3> QED BY <3>1, <3>2
    <2>2. ASSUME NEW s \in Range(found)
          PROVE  AttOp("chars", s, NoReq) \in Range(next)
      <3>1. PICK i \in 1..Len(found) : s = found[i]
        BY DEF Range
      <3>2. 2 * i - 1 \in 1..(2 * Len(found)) /\ (2 * i - 1) % 2 = 1 /\ (2 * i - 1 + 1) \div 2 = i
        OBVIOUS
      <3> QED BY <3>1, <3>2 DEF Range
    <2>3. next \in [1..(2 * Len(found)) -> AttOps]
      BY <2>1
    <2>4. 2 * Len(found) \in Nat
      OBVIOUS
    <2>5. next \in Seq(AttOps) /\ \A i \in DOMAIN next : next[i].req = NoReq
      <3> HIDE DEF next
      <3> QED BY <2>1, <2>3, <2>4
    <2> QED BY <2>2, <2>5
  <1>2. ASSUME NEW found \in Seq(Service)
        PROVE  LET next == [i \in 1..Len(found) |-> AttOp("chars", found[i], NoReq)]
               IN  /\ next \in Seq(AttOps)
                   /\ \A i \in DOMAIN next : next[i].req = NoReq
    <2> DEFINE next == [i \in 1..Len(found) |-> AttOp("chars", found[i], NoReq)]
    <2>1. next \in Seq(AttOps)
      BY AttOpTypes
    <2>2. \A i \in DOMAIN next : next[i].req = NoReq
      BY DEF AttOp
    <2> QED BY <2>1, <2>2
  <1>3. ASSUME NEW found \in Seq(Char)
        PROVE  LET next == [i \in 1..Len(found) |-> AttOp("descs", found[i], NoReq)]
               IN  /\ next \in Seq(AttOps)
                   /\ \A i \in DOMAIN next : next[i].req = NoReq
                   /\ \A c \in Range(found) : AttOp("descs", c, NoReq) \in Range(next)
    <2> DEFINE next == [i \in 1..Len(found) |-> AttOp("descs", found[i], NoReq)]
    <2>1. next \in Seq(AttOps)
      BY AttOpTypes
    <2>2. \A i \in DOMAIN next : next[i].req = NoReq
      BY DEF AttOp
    <2>3. \A c \in Range(found) : AttOp("descs", c, NoReq) \in Range(next)
      BY DEF Range
    <2> QED BY <2>1, <2>2, <2>3
  <1> QED BY <1>1, <1>2, <1>3

\* Every callback is one of these steps.
CallbackShapes(d) ==
    \/ Reported(d)
    \/ Silent(d)
    \/ Unasked(d)
    \/ DidConnectPeripheral(d)
    \/ DidFailToConnectPeripheral(d)
    \/ DidDisconnectPeripheral(d)

\* An operation that is over and leads to no other.
LEMMA LastOfAll ==
    ASSUME NEW d \in Device, Finishes(d, <<>>)
    PROVE  /\ \A e \in CentralDelegateEvent :
                 /\ Send(e) /\ Reports(Head(cb[d].att), d, e)
                 /\ Follows(d, e.ev, e.attr) = {}
                 /\ e.ev = "DiscoveredCharacteristicDescriptors" => e.attr \in cb'[d].cached
                 /\ Truly(Head(cb[d].att), e) \/ cb'[d].failed
                 => Reported(d)
           /\ delegate' = delegate /\ cb'[d].failed => Silent(d)
  <1> DEFINE more == <<>>
  <1>1. more \in Seq(AttOps) /\ (\A j \in DOMAIN more : more[j].req = NoReq) /\ Finishes(d, more)
    OBVIOUS
  <1> HIDE DEF more
  <1> QED BY <1>1 DEF Reported, Silent

\* A callback that reports the value, the write or the descriptor of one request.
LEMMA PlainReport ==
    ASSUME DelegateTypeOK, NEW d \in Device, cb' = Done(d, <<>>)
    PROVE  LET Says(ev) == Send(Event(ev, d, Head(cb[d].att).attr, Head(cb[d].att).req))
           IN  /\ Completes(d, {"read"}) /\ Says("CharacteristicNotified") => Reported(d)
               /\ Completes(d, {"write"}) /\ Says("CharacteristicWritten") => Reported(d)
               /\ Completes(d, {"read_descriptor"}) /\ Says("DescriptorNotified") => Reported(d)
               /\ Completes(d, {"write_descriptor"}) /\ Says("DescriptorWritten") => Reported(d)
  <1> DEFINE o == Head(cb[d].att)
  <1>1. ASSUME NEW op \in CharOp \cup DescOp, NEW ev \in CharEvent \cup DescEvent,
               Completes(d, {op}), Send(Event(ev, d, o.attr, o.req)),
               op \in CharOp <=> ev \in CharEvent,
               \/ op = "read" /\ ev = "CharacteristicNotified"
               \/ op = "write" /\ ev = "CharacteristicWritten"
               \/ op = "read_descriptor" /\ ev = "DescriptorNotified"
               \/ op = "write_descriptor" /\ ev = "DescriptorWritten"
        PROVE  Reported(d)
    <2> DEFINE e == Event(ev, d, o.attr, o.req)
    <2>1. o \in AttOps /\ o.op = op
      BY <1>1, CompletedOp
    <2>2. e \in CentralDelegateEvent
      BY <1>1, <2>1, AttOpsByOp, EventTypes DEF CharOp, DescOp, CharEvent, DescEvent
    <2>3. Finishes(d, <<>>)
      BY <1>1, DoneFinishes
    <2>4. Reports(o, d, e) /\ Truly(o, e)
      BY <1>1, <2>1 DEF Reports, Truly, Event, CharOp, DescOp
    <2>5. Follows(d, e.ev, e.attr) = {} /\ e.ev # "DiscoveredCharacteristicDescriptors"
      BY <1>1 DEF Follows, Event
    <2> QED BY <1>1, <2>2, <2>3, <2>4, <2>5, LastOfAll
  <1>2. Completes(d, {"read"}) /\ Send(Event("CharacteristicNotified", d, o.attr, o.req)) => Reported(d)
    <2>1. /\ "read" \in CharOp \cup DescOp /\ "CharacteristicNotified" \in CharEvent \cup DescEvent
          /\ "read" \in CharOp <=> "CharacteristicNotified" \in CharEvent
      BY DEF CharOp, DescOp, CharEvent, DescEvent
    <2> HIDE DEF o
    <2> QED BY <1>1, <2>1
  <1>3. Completes(d, {"write"}) /\ Send(Event("CharacteristicWritten", d, o.attr, o.req)) => Reported(d)
    <2>1. /\ "write" \in CharOp \cup DescOp /\ "CharacteristicWritten" \in CharEvent \cup DescEvent
          /\ "write" \in CharOp <=> "CharacteristicWritten" \in CharEvent
      BY DEF CharOp, DescOp, CharEvent, DescEvent
    <2> HIDE DEF o
    <2> QED BY <1>1, <2>1
  <1>4. Completes(d, {"read_descriptor"}) /\ Send(Event("DescriptorNotified", d, o.attr, o.req)) => Reported(d)
    <2>1. /\ "read_descriptor" \in CharOp \cup DescOp /\ "DescriptorNotified" \in CharEvent \cup DescEvent
          /\ "read_descriptor" \in CharOp <=> "DescriptorNotified" \in CharEvent
      BY DEF CharOp, DescOp, CharEvent, DescEvent
    <2> HIDE DEF o
    <2> QED BY <1>1, <2>1
  <1>5. Completes(d, {"write_descriptor"}) /\ Send(Event("DescriptorWritten", d, o.attr, o.req)) => Reported(d)
    <2>1. /\ "write_descriptor" \in CharOp \cup DescOp /\ "DescriptorWritten" \in CharEvent \cup DescEvent
          /\ "write_descriptor" \in CharOp <=> "DescriptorWritten" \in CharEvent
      BY DEF CharOp, DescOp, CharEvent, DescEvent
    <2> HIDE DEF o
    <2> QED BY <1>1, <2>1
  <1> QED BY <1>2, <1>3, <1>4, <1>5

\* The framework does nothing else.
LEMMA CallbackShape ==
    ASSUME TypeOK, NEW d \in Device, Callback(d)
    PROVE  CallbackShapes(d)
  <1> DEFINE o == Head(cb[d].att)
  <1>0. DelegateTypeOK /\ (AttCallback(d) \/ LinkCallback(d))
    BY DEF TypeOK, Callback
  <1>1. CASE DidDiscoverServices(d)
    <2> DEFINE found == ServicesOf[d]
               next == [i \in 1..(2 * Len(found)) |->
                          IF i % 2 = 1 THEN AttOp("chars", found[(i + 1) \div 2], NoReq)
                                       ELSE AttOp("included", found[i \div 2], NoReq)]
               e == Event("DiscoveredServices", d, NoAttr, NoReq)
    <2>1. Completes(d, {"services"}) /\ cb' = Done(d, next) /\ Send(e)
      BY <1>1 DEF DidDiscoverServices
    <2>2. o \in AttOps /\ o.op = "services"
      BY <1>0, <2>1, CompletedOp
    <2>3. o.attr = NoAttr /\ o.req = NoReq
      BY <2>2 DEF AttOps, CharOp, DescOp
    <2>4. found \in Seq(Service)
      BY DelegateAssumption
    <2>5. /\ next \in Seq(AttOps)
          /\ \A i \in DOMAIN next : next[i].req = NoReq
          /\ \A s \in Range(found) : AttOp("chars", s, NoReq) \in Range(next)
      BY <2>4, NextLevel
    <2> HIDE DEF next
    <2>6. Finishes(d, next)
      BY <1>0, <2>1, DoneFinishes
    <2>7. Follows(d, e.ev, e.attr) \subseteq Range(next)
      BY <2>5 DEF Follows, Event
    <2>8. Reports(o, d, e) /\ Truly(o, e) /\ e.ev = "DiscoveredServices"
      BY <2>2, <2>3 DEF Reports, Truly, Event
    <2>9. e \in CentralDelegateEvent
      BY EventTypes DEF DeviceEvent
    <2>10. Reported(d)
      BY <2>1, <2>5, <2>6, <2>7, <2>8, <2>9 DEF Reported
    <2> QED BY <2>10 DEF CallbackShapes
  <1>2. CASE DidDiscoverIncludedServices(d)
    <2> DEFINE found == Includes[o.attr]
               next == [i \in 1..Len(found) |-> AttOp("chars", found[i], NoReq)]
    <2>1. Completes(d, {"included"}) /\ cb' = Done(d, next) /\ delegate' = delegate
      BY <1>2 DEF DidDiscoverIncludedServices
    <2>2. o \in AttOps /\ o.op = "included" /\ o.attr \in Service
      BY <1>0, <2>1, CompletedOp, AttOpsByOp
    <2>3. found \in Seq(Service)
      BY <2>2, DelegateAssumption
    <2>4. next \in Seq(AttOps) /\ \A i \in DOMAIN next : next[i].req = NoReq
      BY <2>3, NextLevel
    <2> HIDE DEF next
    <2>5. Finishes(d, next)
      BY <1>0, <2>1, DoneFinishes
    <2> QED BY <2>1, <2>2, <2>4, <2>5 DEF Silent, CallbackShapes
  <1>3. CASE DidDiscoverCharacteristics(d)
    <2> DEFINE found == CharsOf[o.attr]
               next == [i \in 1..Len(found) |-> AttOp("descs", found[i], NoReq)]
               e == Event("DiscoveredCharacteristics", d, o.attr, NoReq)
    <2>1. Completes(d, {"chars"}) /\ cb' = Done(d, next) /\ Send(e)
      BY <1>3 DEF DidDiscoverCharacteristics
    <2>2. o \in AttOps /\ o.op = "chars" /\ o.attr \in Service
      BY <1>0, <2>1, CompletedOp, AttOpsByOp
    <2>3. o.req = NoReq
      BY <2>2 DEF AttOps, CharOp, DescOp
    <2>4. found \in Seq(Char) /\ Range(found) = {c \in Char : ServiceOf[c] = o.attr}
      BY <2>2, DelegateAssumption
    <2>5. /\ next \in Seq(AttOps)
          /\ \A i \in DOMAIN next : next[i].req = NoReq
          /\ \A c \in Range(found) : AttOp("descs", c, NoReq) \in Range(next)
      BY <2>4, NextLevel
    <2> HIDE DEF next
    <2>6. Finishes(d, next)
      BY <1>0, <2>1, DoneFinishes
    <2>7. Follows(d, e.ev, e.attr) \subseteq Range(next)
      BY <2>4, <2>5 DEF Follows, Event
    <2>8. Reports(o, d, e) /\ Truly(o, e) /\ e.ev = "DiscoveredCharacteristics"
      BY <2>2, <2>3 DEF Reports, Truly, Event
    <2>9. e \in CentralDelegateEvent
      BY <2>2, EventTypes
    <2>10. Reported(d)
      BY <2>1, <2>5, <2>6, <2>7, <2>8, <2>9 DEF Reported
    <2> QED BY <2>10 DEF CallbackShapes
  <1>4. CASE DidDiscoverDescriptors(d)
    <2> DEFINE e == Event("DiscoveredCharacteristicDescriptors", d, o.attr, NoReq)
    <2>1. Completes(d, {"descs"}) /\ Send(e)
          /\ cb' = [Done(d, <<>>) EXCEPT ![d].cached = @ \cup {o.attr}]
      BY <1>4 DEF DidDiscoverDescriptors
    <2>2. o \in AttOps /\ o.op = "descs" /\ o.attr \in Char
      BY <1>0, <2>1, CompletedOp, AttOpsByOp
    <2>3. o.req = NoReq
      BY <2>2 DEF AttOps, CharOp, DescOp
    <2>4. Finishes(d, <<>>)
      BY <1>0, <2>1, <2>2, DoneFinishes
    <2>5. o.attr \in cb'[d].cached
      <3>1. Done(d, <<>>) \in CbType
        BY <1>0, <2>1, DoneOf, EmptyIsSeq
      <3> DEFINE f == Done(d, <<>>)
      <3>2. cb' = [f EXCEPT ![d].cached = f[d].cached \cup {o.attr}]
        BY <2>1
      <3> HIDE DEF f
      <3>3. cb'[d].cached = f[d].cached \cup {o.attr}
        BY <3>1, <3>2 DEF f, CbType
      <3> QED BY <3>3
    <2>6. Follows(d, e.ev, e.attr) = {}
      BY DEF Follows, Event
    <2>7. Reports(o, d, e) /\ Truly(o, e) /\ e.attr = o.attr
      BY <2>2, <2>3 DEF Reports, Truly, Event
    <2>8. e \in CentralDelegateEvent
      BY <2>2, EventTypes DEF CharEvent
    <2>9. Reported(d)
      BY <2>1, <2>4, <2>5, <2>6, <2>7, <2>8, LastOfAll
    <2> QED BY <2>9 DEF CallbackShapes
  <1>5. CASE DidUpdateValueForCharacteristic(d)
    <2>1. CASE /\ Completes(d, {"read"}) /\ cb' = Done(d, <<>>)
               /\ Send(Event("CharacteristicNotified", d, o.attr, o.req))
      BY <1>0, <2>1, PlainReport DEF CallbackShapes
    <2>2. CASE /\ cb' = cb
               /\ \E c \in cb[d].notifying : Send(Event("CharacteristicNotified", d, c, NoReq))
      <3>1. PICK c \in cb[d].notifying : Send(Event("CharacteristicNotified", d, c, NoReq))
        BY <2>2
      <3>2. c \in Char
        BY <1>0 DEF DelegateTypeOK
      <3>3. Event("CharacteristicNotified", d, c, NoReq) \in CentralDelegateEvent
        BY <3>2, EventTypes DEF CharEvent
      <3> QED BY <2>2, <3>1, <3>3 DEF Unasked, Event, CallbackShapes
    <2> QED BY <1>5, <2>1, <2>2 DEF DidUpdateValueForCharacteristic
  <1>6. CASE DidWriteValueForCharacteristic(d)
    BY <1>0, <1>6, PlainReport DEF DidWriteValueForCharacteristic, CallbackShapes
  <1>7. CASE DidUpdateNotificationState(d)
    <2> DEFINE on == IF o.op = "subscribe" THEN cb[d].notifying \cup {o.attr}
                                           ELSE cb[d].notifying \ {o.attr}
               is(n) == IF o.attr \in n THEN "CharacteristicSubscribed"
                                         ELSE "CharacteristicUnsubscribed"
               e(n) == Event(is(n), d, o.attr, o.req)
    <2>1. Completes(d, {"subscribe", "unsubscribe"})
      BY <1>7 DEF DidUpdateNotificationState
    <2>2. o \in AttOps /\ o.op \in {"subscribe", "unsubscribe"}
      BY <1>0, <2>1, CompletedOp
    <2>3. o.attr \in Char /\ o.req \in Req
      BY <2>2, AttOpsByOp DEF CharOp
    <2>4. ASSUME NEW n
          PROVE  /\ e(n) \in CentralDelegateEvent
                 /\ Reports(o, d, e(n))
                 /\ Follows(d, e(n).ev, e(n).attr) = {}
                 /\ e(n).ev # "DiscoveredCharacteristicDescriptors"
      <3>1. is(n) \in CharEvent
        BY DEF CharEvent
      <3>2. e(n) \in CentralDelegateEvent
        BY <2>3, <3>1, EventTypes
      <3> QED BY <2>2, <3>2 DEF Reports, Follows, Event
    <2>5. CASE cb' = [Done(d, <<>>) EXCEPT ![d].notifying = on] /\ Send(e(on))
      <3>1. Finishes(d, <<>>)
        BY <1>0, <2>1, <2>5, DoneFinishes
      <3>2. Truly(o, e(on))
        BY <2>2 DEF Truly, Event
      <3> HIDE DEF on
      <3>3. PICK n : n = on
        OBVIOUS
      <3>4. Reported(d)
        BY <2>4, <2>5, <3>1, <3>2, <3>3, LastOfAll
      <3> QED BY <3>4 DEF CallbackShapes
    <2>6. CASE cb' = [Done(d, <<>>) EXCEPT ![d].failed = TRUE] /\ Send(e(cb[d].notifying))
      <3>1. Finishes(d, <<>>)
        BY <1>0, <2>1, <2>6, DoneFinishes
      <3>2. cb'[d].failed
        <4> DEFINE f == Done(d, <<>>)
        <4>1. f \in CbType
          BY <1>0, <2>1, DoneOf, EmptyIsSeq
        <4>2. cb' = [f EXCEPT ![d].failed = TRUE]
          BY <2>6
        <4> HIDE DEF f
        <4> QED BY <4>1, <4>2 DEF CbType
      <3>3. Reported(d)
        BY <2>4, <2>6, <3>1, <3>2, LastOfAll
      <3> QED BY <3>3 DEF CallbackShapes
    <2> QED BY <1>7, <2>5, <2>6 DEF DidUpdateNotificationState
  <1>8. CASE DidUpdateValueForDescriptor(d)
    BY <1>0, <1>8, PlainReport DEF DidUpdateValueForDescriptor, CallbackShapes
  <1>9. CASE DidWriteValueForDescriptor(d)
    BY <1>0, <1>9, PlainReport DEF DidWriteValueForDescriptor, CallbackShapes
  <1>10. CASE OperationFails(d)
    <2>1. Completes(d, MayFail \ {"subscribe", "unsubscribe"})
          /\ cb' = [Done(d, <<>>) EXCEPT ![d].failed = TRUE] /\ delegate' = delegate
      BY <1>10 DEF OperationFails
    <2>2. Finishes(d, <<>>)
      BY <1>0, <2>1, DoneFinishes
    <2>3. cb'[d].failed
      <3> DEFINE f == Done(d, <<>>)
      <3>1. f \in CbType
        BY <1>0, <2>1, DoneOf, EmptyIsSeq
      <3>2. cb' = [f EXCEPT ![d].failed = TRUE]
        BY <2>1
      <3> HIDE DEF f
      <3> QED BY <3>1, <3>2 DEF CbType
    <2> QED BY <2>1, <2>2, <2>3, LastOfAll DEF CallbackShapes
  <1>11. CASE DidDiscoverPeripheral(d)
    <2>1. Event("DiscoveredPeripheral", d, NoAttr, NoReq) \in CentralDelegateEvent
      BY EventTypes DEF DeviceEvent
    <2> QED BY <1>11, <2>1 DEF DidDiscoverPeripheral, Unasked, Event, CallbackShapes
  <1> QED BY <1>0, <1>1, <1>2, <1>3, <1>4, <1>5, <1>6, <1>7, <1>8, <1>9, <1>10, <1>11
          DEF AttCallback, LinkCallback, CallbackShapes

----------------------------------------------------------------------------
(* What is still to come stays to come, or can no longer be expected. *)

\* The events when the first one is handled.
LEMMA TailEvents ==
    ASSUME TypeOK, NEW kind, Occurs(kind), Consume
    PROVE  /\ Len(delegate) \in Nat \ {0}
           /\ DOMAIN delegate = 1..Len(delegate)
           /\ DOMAIN delegate' = 1..(Len(delegate) - 1)
           /\ \A i \in DOMAIN delegate' : delegate'[i] = delegate[i + 1]
           /\ Head(delegate) = delegate[1]
  <1>1. delegate \in Seq(CentralDelegateEvent) /\ delegate # <<>>
    BY DEF TypeOK, DelegateTypeOK, Occurs
  <1>2. delegate' = Tail(delegate)
    BY DEF Consume
  <1> QED BY <1>1, <1>2

\* The events when one is sent.
LEMMA SentEvents ==
    ASSUME TypeOK, NEW e \in CentralDelegateEvent, Send(e)
    PROVE  /\ Len(delegate) \in Nat
           /\ DOMAIN delegate = 1..Len(delegate)
           /\ DOMAIN delegate' = 1..(Len(delegate) + 1)
           /\ \A i \in DOMAIN delegate : delegate'[i] = delegate[i]
           /\ delegate'[Len(delegate) + 1] = e
  <1>1. delegate \in Seq(CentralDelegateEvent)
    BY DEF TypeOK, DelegateTypeOK
  <1>2. delegate' = Append(delegate, e)
    BY DEF Send
  <1> QED BY <1>1, <1>2

\* The operations when the oldest is over.
LEMMA RestOfAtt ==
    ASSUME TypeOK, NEW d \in Device, NEW more \in Seq(AttOps), Finishes(d, more)
    PROVE  /\ Len(cb[d].att) \in Nat \ {0}
           /\ DOMAIN cb[d].att = 1..Len(cb[d].att)
           /\ cb[d].att \in Seq(AttOps)
           /\ Head(cb[d].att) = cb[d].att[1]
           /\ Len(more) \in Nat /\ DOMAIN more = 1..Len(more)
           /\ DOMAIN cb'[d].att = 1..(Len(cb[d].att) - 1 + Len(more))
           /\ \A j \in 1..(Len(cb[d].att) - 1) : cb'[d].att[j] = cb[d].att[j + 1]
           /\ \A j \in DOMAIN more : cb'[d].att[Len(cb[d].att) - 1 + j] = more[j]
           /\ \A j \in DOMAIN cb'[d].att :
                 \/ j + 1 \in DOMAIN cb[d].att /\ cb'[d].att[j] = cb[d].att[j + 1]
                 \/ j - (Len(cb[d].att) - 1) \in DOMAIN more
                    /\ cb'[d].att[j] = more[j - (Len(cb[d].att) - 1)]
  <1> DEFINE s == cb[d].att
  <1>1. s \in Seq(AttOps) /\ s # <<>>
    BY DEF TypeOK, DelegateTypeOK, Finishes
  <1>2. cb'[d].att = Tail(s) \o more
    BY DEF Finishes
  <1> HIDE DEF s
  <1>3. /\ Len(s) \in Nat \ {0} /\ DOMAIN s = 1..Len(s) /\ Head(s) = s[1]
        /\ Len(more) \in Nat /\ DOMAIN more = 1..Len(more)
        /\ Tail(s) \in Seq(AttOps) /\ Len(Tail(s)) = Len(s) - 1
        /\ \A j \in 1..(Len(s) - 1) : Tail(s)[j] = s[j + 1]
    BY <1>1
  <1>4. /\ DOMAIN (Tail(s) \o more) = 1..(Len(s) - 1 + Len(more))
        /\ \A j \in 1..(Len(s) - 1) : (Tail(s) \o more)[j] = s[j + 1]
        /\ \A j \in 1..Len(more) : (Tail(s) \o more)[Len(s) - 1 + j] = more[j]
    BY <1>3
  <1>5. ASSUME NEW j \in 1..(Len(s) - 1 + Len(more))
        PROVE  \/ j + 1 \in DOMAIN s /\ (Tail(s) \o more)[j] = s[j + 1]
               \/ j - (Len(s) - 1) \in DOMAIN more
                  /\ (Tail(s) \o more)[j] = more[j - (Len(s) - 1)]
    <2>1. CASE j \in 1..(Len(s) - 1)
      BY <1>3, <1>4, <2>1
    <2>2. CASE j - (Len(s) - 1) \in 1..Len(more)
      <3> DEFINE l == j - (Len(s) - 1)
      <3>1. j = Len(s) - 1 + l
        BY <1>3
      <3> QED BY <1>3, <1>4, <2>2, <3>1
    <2> QED BY <1>3, <2>1, <2>2
  <1> QED BY <1>1, <1>2, <1>3, <1>4, <1>5 DEF s

\* What is in a sequence is in it when something is appended, and so is that.
LEMMA AppendHas ==
    ASSUME NEW T, NEW s \in Seq(T), NEW x \in T, NEW t, t = Append(s, x)
    PROVE  /\ \A o : (\E j \in DOMAIN s : s[j] = o) => \E j \in DOMAIN t : t[j] = o
           /\ \E j \in DOMAIN t : t[j] = x
           /\ \A j \in DOMAIN t : t[j] = x \/ (j \in DOMAIN s /\ t[j] = s[j])
  <1>1. /\ Len(s) \in Nat /\ DOMAIN s = 1..Len(s)
        /\ DOMAIN t = 1..(Len(s) + 1)
        /\ \A j \in 1..Len(s) : t[j] = s[j]
        /\ t[Len(s) + 1] = x
    OBVIOUS
  <1> DEFINE n == Len(s)
  <1>2. n \in Nat /\ n + 1 \in DOMAIN t /\ DOMAIN s \subseteq DOMAIN t
        /\ \A j \in DOMAIN t : j = n + 1 \/ j \in DOMAIN s
    BY <1>1
  <1>3. \A j \in DOMAIN s : t[j] = s[j]
    BY <1>1
  <1>4. t[n + 1] = x /\ \A j \in DOMAIN t : j = n + 1 => t[j] = x
    BY <1>1
  <1> HIDE DEF n
  <1>5. \A o : (\E j \in DOMAIN s : s[j] = o) => \E j \in DOMAIN t : t[j] = o
    BY <1>2, <1>3, Zenon
  <1>6. \E j \in DOMAIN t : t[j] = x
    BY <1>2, <1>4, Zenon
  <1>7. \A j \in DOMAIN t : t[j] = x \/ (j \in DOMAIN s /\ t[j] = s[j])
    <2>1. ASSUME NEW j \in DOMAIN t
          PROVE  t[j] = x \/ (j \in DOMAIN s /\ t[j] = s[j])
      <3>1. CASE j = n + 1
        BY <1>4, <3>1
      <3>2. CASE j \in DOMAIN s
        BY <1>3, <3>2
      <3> QED BY <1>2, <3>1, <3>2
    <2> QED BY <2>1
  <1> QED BY <1>5, <1>6, <1>7, Zenon

\* An event is handled: what it did not report is still to come.
LEMMA LaterTail ==
    ASSUME TypeOK, NEW kind, Occurs(kind), Consume, cb' = cb, NEW d
    PROVE  /\ \A i \in Nat : \A o : Later(i + 1, d, o) => Later(i, d, o)'
           /\ \A o : Later(0, d, o) /\ ~ Reports(o, d, Head(delegate)) => Later(0, d, o)'
           /\ \A i \in Nat : Over(i + 1, d) => Over(i, d)'
           /\ Over(0, d) /\ ~ (kind = "DisconnectedDevice" /\ Head(delegate).dev = d) => Over(0, d)'
  <1> USE TailEvents
  <1>1. ASSUME NEW i \in Nat, NEW o, Later(i + 1, d, o)
        PROVE  Later(i, d, o)'
    <2>1. CASE \E j \in DOMAIN cb[d].att : cb[d].att[j] = o
      BY <2>1 DEF Later
    <2>2. CASE \E j \in DOMAIN delegate : j > i + 1 /\ Reports(o, d, delegate[j])
      <3>1. PICK j \in DOMAIN delegate : j > i + 1 /\ Reports(o, d, delegate[j])
        BY <2>2
      <3>2. j - 1 \in DOMAIN delegate' /\ j - 1 > i /\ delegate'[j - 1] = delegate[j]
        BY <3>1
      <3> QED BY <3>1, <3>2 DEF Later
    <2> QED BY <1>1, <2>1, <2>2 DEF Later
  <1>2. ASSUME NEW o, Later(0, d, o), ~ Reports(o, d, Head(delegate))
        PROVE  Later(0, d, o)'
    <2>1. CASE \E j \in DOMAIN cb[d].att : cb[d].att[j] = o
      BY <2>1 DEF Later
    <2>2. CASE \E j \in DOMAIN delegate : Reports(o, d, delegate[j])
      <3>1. PICK j \in DOMAIN delegate : Reports(o, d, delegate[j])
        BY <2>2
      <3>2. j - 1 \in DOMAIN delegate' /\ j - 1 > 0 /\ delegate'[j - 1] = delegate[j]
        BY <1>2, <3>1
      <3> QED BY <3>1, <3>2 DEF Later
    <2> QED BY <1>2, <2>1, <2>2 DEF Later
  <1>3. ASSUME NEW i \in Nat, Over(i + 1, d)
        PROVE  Over(i, d)'
    <2>1. PICK j \in DOMAIN delegate :
             j > i + 1 /\ delegate[j].dev = d /\ delegate[j].ev = "DisconnectedDevice"
      BY <1>3 DEF Over
    <2>2. j - 1 \in DOMAIN delegate' /\ j - 1 > i /\ delegate'[j - 1] = delegate[j]
      BY <2>1
    <2> QED BY <2>1, <2>2 DEF Over
  <1>4. ASSUME Over(0, d), ~ (kind = "DisconnectedDevice" /\ Head(delegate).dev = d)
        PROVE  Over(0, d)'
    <2>1. PICK j \in DOMAIN delegate :
             j > 0 /\ delegate[j].dev = d /\ delegate[j].ev = "DisconnectedDevice"
      BY <1>4 DEF Over
    <2>2. j # 1
      BY <1>4, <2>1 DEF Occurs
    <2>3. j - 1 \in DOMAIN delegate' /\ j - 1 > 0 /\ delegate'[j - 1] = delegate[j]
      BY <2>1, <2>2
    <2> QED BY <2>1, <2>3 DEF Over
  <1> QED BY <1>1, <1>2, <1>3, <1>4

\* The framework takes a step: what is to come stays to come, until an error or the end of the link.
LEMMA LaterCallback ==
    ASSUME TypeOK, NEW q \in Device, CallbackShapes(q), NEW d \in Device,
           NEW i \in 0..Len(delegate)
    PROVE  /\ \A o : o.op # "included" /\ Later(i, d, o) => Later(i, d, o)' \/ Broken(i, d)'
           /\ Over(i, d) => Over(i, d)'
           /\ Broken(i, d) => Broken(i, d)'
  <1>0. delegate \in Seq(CentralDelegateEvent) /\ Len(delegate) \in Nat /\ i \in Nat
        /\ DOMAIN delegate = 1..Len(delegate)
    BY DEF TypeOK, DelegateTypeOK
  <1>1. ASSUME NEW e \in CentralDelegateEvent, Send(e)
        PROVE  /\ Over(i, d) => Over(i, d)'
               /\ \A o : (\E j \in DOMAIN delegate : j > i /\ Reports(o, d, delegate[j]))
                      => \E j \in DOMAIN delegate' : j > i /\ Reports(o, d, delegate'[j])
    BY <1>0, <1>1, SentEvents DEF Over
  <1>2. CASE Reported(q)
    <2>1. PICK more \in Seq(AttOps), e \in CentralDelegateEvent :
             Finishes(q, more) /\ Send(e) /\ Reports(Head(cb[q].att), q, e)
      BY <1>2 DEF Reported
    <2>2. ASSUME NEW o, o.op # "included", Later(i, d, o)
          PROVE  Later(i, d, o)'
      <3>1. CASE \E j \in DOMAIN delegate : j > i /\ Reports(o, d, delegate[j])
        BY <1>1, <2>1, <3>1 DEF Later
      <3>2. CASE \E j \in DOMAIN cb[d].att : cb[d].att[j] = o
        <4>1. PICK j \in DOMAIN cb[d].att : cb[d].att[j] = o
          BY <3>2
        <4>2. CASE d # q
          BY <2>1, <4>1, <4>2 DEF Later, Finishes
        <4>3. CASE d = q /\ j = 1
          <5>1. Reports(o, d, delegate'[Len(delegate) + 1])
            BY <2>1, <4>1, <4>3, SentEvents, RestOfAtt
          <5> QED BY <1>0, <2>1, <5>1, SentEvents DEF Later
        <4>4. CASE d = q /\ j # 1
          <5> DEFINE n == Len(cb[q].att)
          <5>0. /\ n \in Nat \ {0} /\ DOMAIN cb[q].att = 1..n
                /\ Len(more) \in Nat /\ DOMAIN cb'[q].att = 1..(n - 1 + Len(more))
                /\ \A l \in 1..(n - 1) : cb'[q].att[l] = cb[q].att[l + 1]
            BY <2>1, RestOfAtt
          <5>1. j \in 2..n
            BY <4>1, <4>4, <5>0
          <5> HIDE DEF n
          <5>2. j - 1 \in 1..(n - 1) /\ (j - 1) + 1 = j /\ j - 1 \in DOMAIN cb'[q].att
            <6> DEFINE m == Len(more)
            <6>1. n \in Nat \ {0} /\ m \in Nat /\ j \in 2..n
              BY <5>0, <5>1
            <6> HIDE DEF m
            <6>2. j - 1 \in 1..(n - 1) /\ (j - 1) + 1 = j /\ j - 1 \in 1..(n - 1 + m)
              BY <6>1
            <6> QED BY <5>0, <6>2 DEF m
          <5>3. cb'[q].att[j - 1] = cb[q].att[(j - 1) + 1]
            BY <5>0, <5>2
          <5> QED BY <4>1, <4>4, <5>2, <5>3 DEF Later
        <4> QED BY <4>2, <4>3, <4>4
      <3> QED BY <2>2, <3>1, <3>2 DEF Later
    <2>3. cb[d].failed => cb'[d].failed
      BY <2>1 DEF Finishes
    <2> QED BY <1>1, <2>1, <2>2, <2>3 DEF Broken
  <1>3. CASE Silent(q)
    <2>1. PICK more \in Seq(AttOps) :
             Finishes(q, more) /\ delegate' = delegate
             /\ (Head(cb[q].att).op = "included" \/ cb'[q].failed)
      BY <1>3 DEF Silent
    <2>2. ASSUME NEW o, o.op # "included", Later(i, d, o)
          PROVE  Later(i, d, o)' \/ Broken(i, d)'
      <3>1. CASE \E j \in DOMAIN delegate : j > i /\ Reports(o, d, delegate[j])
        BY <2>1, <3>1 DEF Later
      <3>2. CASE \E j \in DOMAIN cb[d].att : cb[d].att[j] = o
        <4>1. PICK j \in DOMAIN cb[d].att : cb[d].att[j] = o
          BY <3>2
        <4>2. CASE d # q
          BY <2>1, <4>1, <4>2 DEF Later, Finishes
        <4>3. CASE d = q /\ j = 1
          BY <2>1, <2>2, <4>1, <4>3, RestOfAtt DEF Broken
        <4>4. CASE d = q /\ j # 1
          <5> DEFINE n == Len(cb[q].att)
          <5>0. /\ n \in Nat \ {0} /\ DOMAIN cb[q].att = 1..n
                /\ Len(more) \in Nat /\ DOMAIN cb'[q].att = 1..(n - 1 + Len(more))
                /\ \A l \in 1..(n - 1) : cb'[q].att[l] = cb[q].att[l + 1]
            BY <2>1, RestOfAtt
          <5>1. j \in 2..n
            BY <4>1, <4>4, <5>0
          <5> HIDE DEF n
          <5>2. j - 1 \in 1..(n - 1) /\ (j - 1) + 1 = j /\ j - 1 \in DOMAIN cb'[q].att
            <6> DEFINE m == Len(more)
            <6>1. n \in Nat \ {0} /\ m \in Nat /\ j \in 2..n
              BY <5>0, <5>1
            <6> HIDE DEF m
            <6>2. j - 1 \in 1..(n - 1) /\ (j - 1) + 1 = j /\ j - 1 \in 1..(n - 1 + m)
              BY <6>1
            <6> QED BY <5>0, <6>2 DEF m
          <5>3. cb'[q].att[j - 1] = cb[q].att[(j - 1) + 1]
            BY <5>0, <5>2
          <5> QED BY <4>1, <4>4, <5>2, <5>3 DEF Later
        <4> QED BY <4>2, <4>3, <4>4
      <3> QED BY <2>2, <3>1, <3>2 DEF Later
    <2>3. cb[d].failed => cb'[d].failed
      BY <2>1 DEF Finishes
    <2>4. Over(i, d) => Over(i, d)'
      BY <2>1 DEF Over
    <2> QED BY <2>2, <2>3, <2>4 DEF Broken
  <1>4. CASE Unasked(q)
    <2>1. cb' = cb /\ \E e \in CentralDelegateEvent : Send(e)
      BY <1>4 DEF Unasked
    <2> QED BY <1>1, <2>1 DEF Later, Broken
  <1>5. ASSUME NEW v \in DeviceEvent, Send(Event(v, q, NoAttr, NoReq)),
               \A o : (\E j \in DOMAIN cb[d].att : cb[d].att[j] = o)
                      => \E j \in DOMAIN cb'[d].att : cb'[d].att[j] = o,
               cb[d].failed => cb'[d].failed
        PROVE  /\ \A o : Later(i, d, o) => Later(i, d, o)'
               /\ Over(i, d) => Over(i, d)'
               /\ Broken(i, d) => Broken(i, d)'
    <2>1. Event(v, q, NoAttr, NoReq) \in CentralDelegateEvent
      BY EventTypes
    <2> QED BY <1>1, <1>5, <2>1 DEF Later, Broken
  <1>6. CASE DidConnectPeripheral(q)
    <2>1. /\ cb[d].att \in Seq(AttOps) /\ cb \in CbType
          /\ cb'[d].att = cb[d].att \/ cb'[d].att = Append(cb[d].att, AttOp("services", NoAttr, NoReq))
          /\ cb'[d].failed = cb[d].failed
      BY <1>6 DEF DidConnectPeripheral, TypeOK, DelegateTypeOK, CbType
    <2>2. \A o : (\E j \in DOMAIN cb[d].att : cb[d].att[j] = o)
                 => \E j \in DOMAIN cb'[d].att : cb'[d].att[j] = o
      <3> DEFINE x == AttOp("services", NoAttr, NoReq)
      <3>1. x \in AttOps
        BY AttOpTypes
      <3> HIDE DEF x
      <3>2. cb'[d].att = cb[d].att \/ cb'[d].att = Append(cb[d].att, x)
        BY <2>1 DEF x
      <3>3. cb[d].att \in Seq(AttOps)
        BY <2>1
      <3>4. CASE cb'[d].att = Append(cb[d].att, x)
        <4> DEFINE s == cb[d].att
                   t == cb'[d].att
        <4>1. s \in Seq(AttOps) /\ t = Append(s, x)
          BY <3>3, <3>4
        <4> HIDE DEF s, t
        <4>2. \A o : (\E j \in DOMAIN s : s[j] = o) => \E j \in DOMAIN t : t[j] = o
          BY <3>1, <4>1, AppendHas
        <4> QED BY <4>2 DEF s, t
      <3> QED BY <3>2, <3>4
    <2> QED BY <1>5, <1>6, <2>1, <2>2 DEF DidConnectPeripheral, DeviceEvent
  <1>7. CASE DidFailToConnectPeripheral(q)
    <2>1. cb'[d].att = cb[d].att /\ cb'[d].failed = cb[d].failed
      BY <1>7 DEF DidFailToConnectPeripheral, TypeOK, DelegateTypeOK
    <2> QED BY <1>5, <1>7, <2>1 DEF DidFailToConnectPeripheral, DeviceEvent
  <1>8. CASE DidDisconnectPeripheral(q)
    <2> DEFINE e == Event("DisconnectedDevice", q, NoAttr, NoReq)
    <2>1. e \in CentralDelegateEvent /\ Send(e)
      BY <1>8, EventTypes DEF DidDisconnectPeripheral, DeviceEvent
    <2>2. CASE d = q
      <3>1. Over(i, d)'
        BY <1>0, <2>1, <2>2, SentEvents DEF Over, Event
      <3> QED BY <3>1 DEF Broken
    <2>3. CASE d # q
      <3>1. cb'[d] = cb[d]
        BY <1>8, <2>3 DEF DidDisconnectPeripheral, TypeOK, DelegateTypeOK
      <3> QED BY <1>1, <2>1, <3>1 DEF Later, Broken
    <2> QED BY <2>2, <2>3
  <1> QED BY <1>2, <1>3, <1>4, <1>6, <1>7, <1>8 DEF CallbackShapes

\* What the thread asks of the framework for d.
Requests(d) ==
    \/ Connect(d)
    \/ CancelConnection(d)
    \/ \E o, a, r : AttOp(o, a, r) \in AttOps /\ Ask(d, o, a, r)

\* A request takes nothing from the pipeline.
LEMMA LaterRequest ==
    ASSUME TypeOK, NEW q \in Device, Requests(q), delegate' = delegate, NEW d \in Device, NEW i
    PROVE  /\ \A o : Later(i, d, o) => Later(i, d, o)'
           /\ Over(i, d) => Over(i, d)'
           /\ Broken(i, d) => Broken(i, d)'
  <1>1. cb \in CbType /\ cb[d].att \in Seq(AttOps)
    BY DEF TypeOK, DelegateTypeOK, CbType
  <1>2. CASE \E o, a, r : AttOp(o, a, r) \in AttOps /\ Ask(q, o, a, r)
    <2>1. PICK o, a, r : AttOp(o, a, r) \in AttOps /\ Ask(q, o, a, r)
      BY <1>2
    <2>2. /\ cb'[d].failed = cb[d].failed
          /\ cb'[d].att = cb[d].att \/ cb'[d].att = Append(cb[d].att, AttOp(o, a, r))
      BY <1>1, <2>1 DEF Ask, CbType
    <2>3. \A p : (\E j \in DOMAIN cb[d].att : cb[d].att[j] = p)
                 => \E j \in DOMAIN cb'[d].att : cb'[d].att[j] = p
      <3> DEFINE x == AttOp(o, a, r)
      <3>1. x \in AttOps
        BY <2>1
      <3> HIDE DEF x
      <3>2. cb'[d].att = cb[d].att \/ cb'[d].att = Append(cb[d].att, x)
        BY <2>2 DEF x
      <3>3. CASE cb'[d].att = Append(cb[d].att, x)
        <4> DEFINE s == cb[d].att
                   t == cb'[d].att
        <4>1. s \in Seq(AttOps) /\ t = Append(s, x)
          BY <1>1, <3>3
        <4> HIDE DEF s, t
        <4>2. \A p : (\E j \in DOMAIN s : s[j] = p) => \E j \in DOMAIN t : t[j] = p
          BY <3>1, <4>1, AppendHas
        <4> QED BY <4>2 DEF s, t
      <3> QED BY <3>2, <3>3
    <2> QED BY <2>2, <2>3 DEF Later, Over, Broken
  <1>3. CASE Connect(q) \/ CancelConnection(q)
    <2>1. cb'[d].att = cb[d].att /\ cb'[d].failed = cb[d].failed
      BY <1>1, <1>3 DEF Connect, CancelConnection, CbType
    <2> QED BY <2>1 DEF Later, Over, Broken
  <1> QED BY <1>2, <1>3 DEF Requests

----------------------------------------------------------------------------
(* The steps of the thread. *)

\* An event about something the thread does not know, or that nobody waits for.
Unheeded ==
    LET e == Head(delegate)
    IN  /\ Ignore
        /\ \/ e.ev = "ConnectedDevice"
           \/ e.dev \notin known
           \/ /\ e.ev \in (CharEvent \ {"DiscoveredCharacteristicDescriptors"}) \cup DescEvent
              /\ ~ Has(e.dev, e.attr)
           \/ /\ e.ev = "CharacteristicNotified"
              /\ future_state[<<e.dev, "read", e.attr>>] = <<>>

\* The attributes of service s below it, and the tree of d when its characteristics are found.
Below(s) == Range(CharsOf[s]) \cup UNION {Range(DescsOf[c]) : c \in Range(CharsOf[s])}

CharsTree(d, s) ==
    [has |-> (tree[d].has \ Below(s))
               \cup (Range(CharsOf[s])
                       \cup UNION {Range(DescsOf[c]) : c \in Range(CharsOf[s]) \cap cb[d].cached}),
     discovered |-> (tree[d].discovered \ Range(CharsOf[s]))
                       \cup (IF Range(CharsOf[s]) = {} THEN {s} ELSE {})]

\* The last of the characteristics of its service.
LastChar(d, c) == Range(CharsOf[ServiceOf[c]]) \subseteq tree[d].discovered \cup {c}

\* The tree of d when the descriptors of c are found.
DescsTree(d, c) ==
    [has |-> tree[d].has \cup Range(DescsOf[c]),
     discovered |-> IF LastChar(d, c) THEN (tree[d].discovered \cup {c}) \cup {ServiceOf[c]}
                                      ELSE tree[d].discovered \cup {c}]

\* The tree of d becomes t, and connect() is answered if that makes it complete.
Grows(d, t, K, check) ==
    LET all == check /\ Complete(t)
        r   == connected_future_state[d]
    IN  /\ all => r # NoReq
        /\ Consume
        /\ tree' = [tree EXCEPT ![d] = t]
        /\ future_state' = [k \in Slot |-> IF k \in K THEN <<>> ELSE future_state[k]]
        /\ Settle(IF all THEN r ELSE NoReq, Reply("Connected", NoReq, t.has), Held(K))
        /\ connected_future_state' = IF all THEN Take(connected_future_state, d)
                                            ELSE connected_future_state
        /\ UNCHANGED <<cb, scanning, panic, ask, messages, known, hasty, disconnected_future_state>>

FoundServices(d) ==
    /\ Occurs("DiscoveredServices") /\ d = Head(delegate).dev /\ d \in known
    /\ Grows(d, [has |-> Range(ServicesOf[d]), discovered |-> {}], SlotsOf(d, Attr), FALSE)

FoundChars(d, s) ==
    /\ Occurs("DiscoveredCharacteristics")
    /\ d = Head(delegate).dev /\ s = Head(delegate).attr /\ d \in known /\ s \in tree[d].has
    /\ Grows(d, CharsTree(d, s), SlotsOf(d, Below(s)), Range(CharsOf[s]) = {})

FoundDescs(d, c) ==
    /\ Occurs("DiscoveredCharacteristicDescriptors")
    /\ d = Head(delegate).dev /\ c = Head(delegate).attr /\ d \in known
    /\ ServiceOf[c] \in tree[d].has /\ c \in tree[d].has
    /\ Grows(d, DescsTree(d, c), SlotsOf(d, Range(DescsOf[c])), LastChar(d, c))

\* The connect() of d is answered with an error.
ReportsFailure(d) ==
    LET r == connected_future_state[d]
    IN  /\ Occurs("ConnectionFailed") /\ d = Head(delegate).dev /\ d \in known /\ r # NoReq
        /\ Settle(r, Reply("Err", NoReq, {}), {})
        /\ connected_future_state' = Take(connected_future_state, d)
        /\ Consume
        /\ UNCHANGED <<cb, scanning, panic, ask, messages, handles, known, tree,
                       hasty, disconnected_future_state, future_state>>

\* The peripheral d is removed.
Forgets(d) ==
    /\ Occurs("DisconnectedDevice") /\ d = Head(delegate).dev /\ d \in known
    /\ Settle(disconnected_future_state[d], Reply("Ok", NoReq, {}),
              Held(SlotsOf(d, Attr)) \cup Slots({d}))
    /\ known' = known \ {d}
    /\ tree' = [tree EXCEPT ![d] = NoTree]
    /\ connected_future_state' = Take(connected_future_state, d)
    /\ disconnected_future_state' = Take(disconnected_future_state, d)
    /\ future_state' = [k \in Slot |-> IF k \in SlotsOf(d, Attr) THEN <<>> ELSE future_state[k]]
    /\ Consume
    /\ UNCHANGED <<cb, scanning, panic, ask, messages, handles, hasty>>

\* The queue an event is answered from, and the reply.
AnsweredFrom(e, k, kind) ==
    \/ /\ e.ev = "CharacteristicSubscribed"
       /\ k = <<e.dev, "subscribe", e.attr>> /\ kind = "Ok"
    \/ /\ e.ev = "CharacteristicUnsubscribed"
       /\ k = <<e.dev, "unsubscribe", e.attr>> /\ kind = "Ok"
    \/ /\ e.ev = "CharacteristicNotified"
       /\ k = <<e.dev, "read", e.attr>> /\ kind = "ReadResult"
    \/ /\ e.ev = "CharacteristicWritten"
       /\ k = <<e.dev, "write", e.attr>> /\ kind = "Ok"
    \/ /\ e.ev = "DescriptorNotified"
       /\ k = <<e.dev, "read", CharOf[e.attr]>> /\ kind = "ReadResult"
    \/ /\ e.ev = "DescriptorWritten"
       /\ k = <<e.dev, "write_descriptor", e.attr>> /\ kind = "Ok"

\* The oldest future of queue k is answered.
Fulfilled(k, kind) ==
    LET e == Head(delegate)
    IN  /\ Occurs(e.ev) /\ AnsweredFrom(e, k, kind)
        /\ k \in Slot /\ Has(e.dev, e.attr) /\ future_state[k] # <<>>
        /\ Settle(Head(future_state[k]), Reply(kind, e.req, {}), {})
        /\ future_state' = Pop(k)
        /\ Consume
        /\ UNCHANGED <<cb, scanning, panic, ask, messages, handles, known, tree, hasty,
                       connected_future_state, disconnected_future_state>>

LiveForms ==
    \/ delegate # <<>> /\ Unheeded
    \/ OnDiscoveredPeripheral
    \/ \E d \in Device : \/ FoundServices(d)
                         \/ \E s \in Service : FoundChars(d, s)
                         \/ \E c \in Char : FoundDescs(d, c)
                         \/ ReportsFailure(d)
                         \/ Forgets(d)
    \/ \E k \in Slot, kind \in {"Ok", "ReadResult"} : Fulfilled(k, kind)

EventForms == (\E why : Panic(why)) \/ LiveForms

\* The thread dies of the event in front: of a result for something it does not know, or of
\* a future that it should have and has not.
Dying ==
    LET e == Head(delegate)
        r == connected_future_state[e.dev]
    IN  /\ delegate # <<>> /\ e.dev \in known
        /\ \E why \in PanicReason \ {"none"} : Panic(why)
        /\ \/ e.ev = "DiscoveredCharacteristics" /\ (e.attr \notin tree[e.dev].has \/ r = NoReq)
           \/ /\ e.ev = "DiscoveredCharacteristicDescriptors"
              /\ \/ ServiceOf[e.attr] \notin tree[e.dev].has
                 \/ e.attr \notin tree[e.dev].has
                 \/ r = NoReq
           \/ e.ev = "ConnectionFailed" /\ r = NoReq
           \/ /\ e.ev # "CharacteristicNotified"
              /\ \E k \in Slot, kind \in {"Ok", "ReadResult"} :
                    AnsweredFrom(e, k, kind) /\ future_state[k] = <<>>

\* The ways of the thread to die.
LEMMA Deaths ==
    \A why \in {"We should still have a future at this point!",
                "Got characteristics for a service we don't know about",
                "Got descriptors for something we don't know about",
                "connected_future_state.take().unwrap()",
                "future_state.pop_back().unwrap()"} :
        Panic(why) => \E x \in PanicReason \ {"none"} : Panic(x)
BY DEF PanicReason

\* The handlers that answer an attribute operation.
LEMMA FulfilForm ==
    ASSUME TypeOK, NEW k \in Slot, NEW kind \in {"Ok", "ReadResult"},
           Occurs(Head(delegate).ev), AnsweredFrom(Head(delegate), k, kind),
           Fulfil(k, Head(delegate).attr, kind),
           Head(delegate).ev = "CharacteristicNotified"
              => ~ (Has(Head(delegate).dev, Head(delegate).attr) /\ future_state[k] = <<>>)
    PROVE  Dying \/ LiveForms
  <1> DEFINE e == Head(delegate)
  <1>1. CASE ~ Has(e.dev, e.attr)
    <2>1. e.ev \in (CharEvent \ {"DiscoveredCharacteristicDescriptors"}) \cup DescEvent
      BY DEF AnsweredFrom, CharEvent, DescEvent
    <2>2. delegate # <<>> /\ Unheeded
      BY <1>1, <2>1 DEF Fulfil, Unheeded, Occurs
    <2> QED BY <2>2 DEF LiveForms
  <1>2. CASE Has(e.dev, e.attr) /\ future_state[k] = <<>>
    <2>1. Panic("future_state.pop_back().unwrap()")
      BY <1>2 DEF Fulfil
    <2>2. \E x \in PanicReason \ {"none"} : Panic(x)
      BY <2>1, Deaths
    <2>3. e.ev # "CharacteristicNotified" /\ e.dev \in known /\ delegate # <<>>
      BY <1>2 DEF Has, Occurs
    <2> QED BY <1>2, <2>2, <2>3 DEF Dying
  <1>3. CASE Has(e.dev, e.attr) /\ future_state[k] # <<>>
    <2>1. Fulfilled(k, kind)
      BY <1>3 DEF Fulfil, Fulfilled
    <2> QED BY <2>1 DEF LiveForms
  <1> QED BY <1>1, <1>2, <1>3

\* A result of the discovery is taken into the tree, or kills the thread.
LEMMA DiscoveredForm ==
    ASSUME NEW d, NEW t, NEW K, NEW check, Discovered(d, t, K, check)
    PROVE  \/ /\ connected_future_state[d] = NoReq /\ check
              /\ \E why \in PanicReason \ {"none"} : Panic(why)
           \/ Grows(d, t, K, check)
BY Deaths DEF Discovered, Grows

\* Every handler of an event has one of these forms.
LEMMA EventForm ==
    ASSUME TypeOK, HandleEvent
    PROVE  EventForms /\ (Dying \/ LiveForms)
  <1> SUFFICES Dying \/ LiveForms
    BY DEF EventForms, Dying
  <1> DEFINE e == Head(delegate)
             d == e.dev
  <1>1. CASE OnDiscoveredPeripheral
    BY <1>1 DEF LiveForms
  <1>2. CASE OnDiscoveredServices
    <2>1. d \in Device /\ Occurs("DiscoveredServices")
      BY <1>2, EventShape DEF OnDiscoveredServices
    <2>2. CASE d \notin known
      <3>1. delegate # <<>> /\ Unheeded
        BY <1>2, <2>2 DEF OnDiscoveredServices, Unheeded, Occurs
      <3> QED BY <3>1 DEF LiveForms
    <2>3. CASE d \in known
      <3>1. Discovered(d, [has |-> Range(ServicesOf[d]), discovered |-> {}],
                       SlotsOf(d, Attr), FALSE)
        BY <1>2, <2>3 DEF OnDiscoveredServices
      <3>2. FoundServices(d)
        BY <2>1, <2>3, <3>1, DiscoveredForm DEF FoundServices
      <3> QED BY <2>1, <3>2 DEF LiveForms
    <2> QED BY <2>2, <2>3
  <1>3. CASE OnDiscoveredCharacteristics
    <2> DEFINE s == e.attr
    <2>1. d \in Device /\ s \in Service /\ Occurs("DiscoveredCharacteristics")
      BY <1>3, EventShape DEF OnDiscoveredCharacteristics, ServiceEvent
    <2>2. CASE d \notin known
      <3>1. delegate # <<>> /\ Unheeded
        BY <1>3, <2>2 DEF OnDiscoveredCharacteristics, Unheeded, Occurs
      <3> QED BY <3>1 DEF LiveForms
    <2>3. CASE d \in known /\ s \notin tree[d].has
      <3>1. Panic("Got characteristics for a service we don't know about")
        BY <1>3, <2>3 DEF OnDiscoveredCharacteristics
      <3>2. \E x \in PanicReason \ {"none"} : Panic(x)
        BY <3>1, Deaths
      <3> QED BY <2>1, <2>3, <3>2 DEF Dying, Occurs
    <2>4. CASE d \in known /\ s \in tree[d].has
      <3>1. Discovered(d, CharsTree(d, s), SlotsOf(d, Below(s)), Range(CharsOf[s]) = {})
        BY <1>3, <2>4 DEF OnDiscoveredCharacteristics, CharsTree, Below
      <3>2. Dying \/ FoundChars(d, s)
        BY <2>1, <2>4, <3>1, DiscoveredForm DEF FoundChars, Dying, Occurs
      <3> QED BY <2>1, <3>2 DEF LiveForms
    <2> QED BY <2>2, <2>3, <2>4
  <1>4. CASE OnDiscoveredCharacteristicDescriptors
    <2> DEFINE c == e.attr
    <2>1. d \in Device /\ c \in Char /\ Occurs("DiscoveredCharacteristicDescriptors")
      BY <1>4, EventShape DEF OnDiscoveredCharacteristicDescriptors, CharEvent
    <2>2. CASE d \notin known
      <3>1. delegate # <<>> /\ Unheeded
        BY <1>4, <2>2 DEF OnDiscoveredCharacteristicDescriptors, Unheeded, Occurs
      <3> QED BY <3>1 DEF LiveForms
    <2>3. CASE d \in known /\ (ServiceOf[c] \notin tree[d].has \/ c \notin tree[d].has)
      <3>1. Panic("Got descriptors for something we don't know about")
        BY <1>4, <2>3 DEF OnDiscoveredCharacteristicDescriptors
      <3>2. \E x \in PanicReason \ {"none"} : Panic(x)
        BY <3>1, Deaths
      <3> QED BY <2>1, <2>3, <3>2 DEF Dying, Occurs
    <2>4. CASE d \in known /\ ServiceOf[c] \in tree[d].has /\ c \in tree[d].has
      <3>1. Discovered(d, DescsTree(d, c), SlotsOf(d, Range(DescsOf[c])), LastChar(d, c))
        BY <1>4, <2>4 DEF OnDiscoveredCharacteristicDescriptors, DescsTree, LastChar
      <3>2. Dying \/ FoundDescs(d, c)
        BY <2>1, <2>4, <3>1, DiscoveredForm DEF FoundDescs, Dying, Occurs
      <3> QED BY <2>1, <3>2 DEF LiveForms
    <2> QED BY <2>2, <2>3, <2>4
  <1>5. CASE OnPeripheralConnect
    <2>1. delegate # <<>> /\ Unheeded
      BY <1>5 DEF OnPeripheralConnect, Unheeded, Occurs
    <2> QED BY <2>1 DEF LiveForms
  <1>6. CASE OnPeripheralConnectionFailed
    <2>1. d \in Device /\ Occurs("ConnectionFailed")
      BY <1>6, EventShape DEF OnPeripheralConnectionFailed
    <2>2. \/ delegate # <<>> /\ Unheeded
          \/ /\ d \in known /\ connected_future_state[d] = NoReq
             /\ Panic("connected_future_state.take().unwrap()")
          \/ ReportsFailure(d)
      BY <1>6, <2>1 DEF OnPeripheralConnectionFailed, Unheeded, ReportsFailure, Occurs
    <2>3. Panic("connected_future_state.take().unwrap()") => \E x \in PanicReason \ {"none"} : Panic(x)
      BY Deaths
    <2>4. \/ delegate # <<>> /\ Unheeded
          \/ Dying
          \/ ReportsFailure(d)
      BY <2>1, <2>2, <2>3 DEF Dying, Occurs
    <2> QED BY <2>1, <2>4 DEF LiveForms
  <1>7. CASE OnPeripheralDisconnect
    <2>1. d \in Device /\ Occurs("DisconnectedDevice")
      BY <1>7, EventShape DEF OnPeripheralDisconnect
    <2>2. (delegate # <<>> /\ Unheeded) \/ Forgets(d)
      BY <1>7, <2>1 DEF OnPeripheralDisconnect, Unheeded, Forgets, Occurs
    <2> QED BY <2>1, <2>2 DEF LiveForms
  <1>8. CASE OnCharacteristicSubscribed
    <2>1. Occurs(e.ev) /\ e.ev = "CharacteristicSubscribed"
          /\ Fulfil(<<d, "subscribe", e.attr>>, e.attr, "Ok")
      BY <1>8 DEF OnCharacteristicSubscribed, Occurs
    <2>2. <<d, "subscribe", e.attr>> \in Slot
      BY <2>1, EventShape DEF CharEvent, Slot, CharOp
    <2>3. AnsweredFrom(e, <<d, "subscribe", e.attr>>, "Ok")
      BY <2>1 DEF AnsweredFrom
    <2> QED BY <2>1, <2>2, <2>3, FulfilForm
  <1>9. CASE OnCharacteristicUnsubscribed
    <2>1. Occurs(e.ev) /\ e.ev = "CharacteristicUnsubscribed"
          /\ Fulfil(<<d, "unsubscribe", e.attr>>, e.attr, "Ok")
      BY <1>9 DEF OnCharacteristicUnsubscribed, Occurs
    <2>2. <<d, "unsubscribe", e.attr>> \in Slot
      BY <2>1, EventShape DEF CharEvent, Slot, CharOp
    <2>3. AnsweredFrom(e, <<d, "unsubscribe", e.attr>>, "Ok")
      BY <2>1 DEF AnsweredFrom
    <2> QED BY <2>1, <2>2, <2>3, FulfilForm
  <1>10. CASE OnCharacteristicRead
    <2> DEFINE k == <<d, "read", e.attr>>
    <2>1. Occurs(e.ev) /\ e.ev = "CharacteristicNotified"
      BY <1>10 DEF OnCharacteristicRead, Occurs
    <2>2. k \in Slot
      BY <2>1, EventShape DEF CharEvent, Slot, CharOp
    <2>3. CASE Has(d, e.attr) /\ future_state[k] = <<>>
      <3>1. delegate # <<>> /\ Unheeded
        BY <1>10, <2>1, <2>3 DEF OnCharacteristicRead, Unheeded, Occurs
      <3> QED BY <3>1 DEF LiveForms
    <2>4. CASE ~ (Has(d, e.attr) /\ future_state[k] = <<>>)
      <3>1. Fulfil(k, e.attr, "ReadResult")
        BY <1>10, <2>4 DEF OnCharacteristicRead
      <3>2. AnsweredFrom(e, k, "ReadResult")
        BY <2>1 DEF AnsweredFrom
      <3> QED BY <2>1, <2>2, <2>4, <3>1, <3>2, FulfilForm
    <2> QED BY <2>3, <2>4
  <1>11. CASE OnCharacteristicWritten
    <2>1. Occurs(e.ev) /\ e.ev = "CharacteristicWritten"
          /\ Fulfil(<<d, "write", e.attr>>, e.attr, "Ok")
      BY <1>11 DEF OnCharacteristicWritten, Occurs
    <2>2. <<d, "write", e.attr>> \in Slot
      BY <2>1, EventShape DEF CharEvent, Slot, CharOp
    <2>3. AnsweredFrom(e, <<d, "write", e.attr>>, "Ok")
      BY <2>1 DEF AnsweredFrom
    <2> QED BY <2>1, <2>2, <2>3, FulfilForm
  <1>12. CASE OnDescriptorRead
    <2>1. Occurs(e.ev) /\ e.ev = "DescriptorNotified"
          /\ Fulfil(<<d, "read", CharOf[e.attr]>>, e.attr, "ReadResult")
      BY <1>12 DEF OnDescriptorRead, Occurs
    <2>2. <<d, "read", CharOf[e.attr]>> \in Slot
      BY <2>1, EventShape, DelegateAssumption DEF DescEvent, Slot, CharOp
    <2>3. AnsweredFrom(e, <<d, "read", CharOf[e.attr]>>, "ReadResult")
      BY <2>1 DEF AnsweredFrom
    <2> QED BY <2>1, <2>2, <2>3, FulfilForm
  <1>13. CASE OnDescriptorWritten
    <2>1. Occurs(e.ev) /\ e.ev = "DescriptorWritten"
          /\ Fulfil(<<d, "write_descriptor", e.attr>>, e.attr, "Ok")
      BY <1>13 DEF OnDescriptorWritten, Occurs
    <2>2. <<d, "write_descriptor", e.attr>> \in Slot
      BY <2>1, EventShape DEF DescEvent, Slot, DescOp
    <2>3. AnsweredFrom(e, <<d, "write_descriptor", e.attr>>, "Ok")
      BY <2>1 DEF AnsweredFrom
    <2> QED BY <2>1, <2>2, <2>3, FulfilForm
  <1> QED BY <1>1, <1>2, <1>3, <1>4, <1>5, <1>6, <1>7, <1>8, <1>9, <1>10, <1>11, <1>12, <1>13
          DEF HandleEvent

\* The steps that handle a message leave what is known of the devices alone.
LEMMA MessageForm ==
    ASSUME TypeOK, HandleMessage
    PROVE  /\ UNCHANGED <<delegate, panic, ask, known, tree>>
           /\ cb' = cb \/ \E d \in Device : Requests(d)
  <1>1. CASE Scan
    BY <1>1 DEF Scan
  <1>2. CASE \E r \in Req : RequestOnAttribute(r)
    <2>1. PICK r \in Req : RequestOnAttribute(r)
      BY <1>2
    <2>2. OpOf(r) \in CharOp \cup DescOp
      BY <2>1 DEF RequestOnAttribute, Receive
    <2>3. ask[r].dev \in Device /\ AttOp(OpOf(r), ask[r].attr, r) \in AttOps
      BY <2>2, CallShape
    <2>4. cb' = cb \/ Ask(ask[r].dev, OpOf(r), ask[r].attr, r)
      BY <2>1 DEF RequestOnAttribute
    <2> QED BY <2>1, <2>3, <2>4 DEF RequestOnAttribute, Requests
  <1>3. CASE \E r \in Req : WriteWithoutResponse(r) \/ IsConnected(r)
    BY <1>3 DEF WriteWithoutResponse, IsConnected
  <1>4. CASE \E r \in Req : ConnectPeripheral(r)
    BY <1>4, CallShape DEF ConnectPeripheral, Requests
  <1>5. CASE \E r \in Req : DisconnectPeripheral(r)
    BY <1>5, CallShape DEF DisconnectPeripheral, Requests
  <1> QED BY <1>1, <1>2, <1>3, <1>4, <1>5 DEF HandleMessage

\* A step is one of the framework, a message, an event, or none of the three.
LEMMA StepForm ==
    ASSUME TypeOK, [Next]_vars
    PROVE  \/ (\E d \in Device : CallbackShapes(d)) /\ UNCHANGED internalVars
           \/ HandleMessage
           \/ EventForms
           \/ UNCHANGED <<cb, delegate, panic, ask, reply, known, tree, hasty, futureVars>>
  <1>1. CASE Framework
    BY <1>1, CallbackShape DEF Framework
  <1>2. CASE HandleEvent
    BY <1>2, EventForm
  <1>3. CASE ClientScans \/ \E r \in Req : ClientCalls(r)
    BY <1>3 DEF ClientScans, ClientCalls
  <1>4. CASE UNCHANGED vars
    BY <1>4 DEF vars, delegateVars, internalVars
  <1> QED BY <1>1, <1>2, <1>3, <1>4 DEF Next

\* An event is taken off the channel by every handler, and the framework is left alone.
LEMMA HandlerTakes ==
    ASSUME TypeOK, EventForms
    PROVE  /\ cb' = cb /\ ask' = ask
           /\ \/ \E why : Panic(why)
              \/ Occurs(Head(delegate).ev) /\ Consume /\ panic' = panic
  <1>1. CASE \E why : Panic(why)
    BY <1>1 DEF Panic
  <1>2. CASE delegate # <<>> /\ Unheeded
    BY <1>2 DEF Unheeded, Ignore, Occurs
  <1>3. CASE OnDiscoveredPeripheral
    BY <1>3 DEF OnDiscoveredPeripheral, Occurs
  <1>4. ASSUME NEW d, FoundServices(d) \/ (\E s : FoundChars(d, s)) \/ (\E c : FoundDescs(d, c))
        PROVE  cb' = cb /\ ask' = ask /\ Occurs(Head(delegate).ev) /\ Consume /\ panic' = panic
    BY <1>4 DEF FoundServices, FoundChars, FoundDescs, Grows, Occurs
  <1>5. ASSUME NEW d, ReportsFailure(d) \/ Forgets(d)
        PROVE  cb' = cb /\ ask' = ask /\ Occurs(Head(delegate).ev) /\ Consume /\ panic' = panic
    BY <1>5 DEF ReportsFailure, Forgets, Occurs
  <1>6. ASSUME NEW k, NEW kind, Fulfilled(k, kind)
        PROVE  cb' = cb /\ ask' = ask /\ Occurs(Head(delegate).ev) /\ Consume /\ panic' = panic
    BY <1>6 DEF Fulfilled
  <1> QED BY <1>1, <1>2, <1>3, <1>4, <1>5, <1>6 DEF EventForms, LiveForms

----------------------------------------------------------------------------
(* connect() hands out the whole tree. *)

DescsIn(c) == {x \in Desc : CharOf[x] = c}

\* The thread keeps nothing of a device it does not know.
UnknownHoldsNothing ==
    \A d \in Device : d \notin known =>
        /\ tree[d] = NoTree
        /\ connected_future_state[d] = NoReq /\ disconnected_future_state[d] = NoReq

\* The tree of a device holds nothing else, and all of its services or none.
TreeOfDevice ==
    \A d \in Device :
        /\ tree[d].has \subseteq WholeTree(d)
        /\ tree[d].has \cap Service \in {{}, Range(ServicesOf[d])}

\* The framework has the descriptors of a characteristic when it reports them.
CachedWhenSent ==
    \A d \in Device : \A i \in DOMAIN delegate :
        delegate[i].dev = d /\ delegate[i].ev = "DiscoveredCharacteristicDescriptors"
        => delegate[i].attr \in cb[d].cached \/ Over(i, d)

\* A characteristic that is discovered, and every one of a service that is, is in the tree
\* with its descriptors, and the framework has them.
WholeBelow ==
    \A d \in Device : Over(0, d) \/
        \A c \in Char : c \in tree[d].discovered \/ ServiceOf[c] \in tree[d].discovered
            => c \in cb[d].cached /\ c \in tree[d].has /\ DescsIn(c) \subseteq tree[d].has

TreeInv == UnknownHoldsNothing /\ TreeOfDevice /\ CachedWhenSent /\ WholeBelow

\* What the framework has of a link it keeps until the link is over.
LEMMA CachedCallback ==
    ASSUME TypeOK, NEW q \in Device, CallbackShapes(q), NEW d \in Device, NEW i \in 0..Len(delegate)
    PROVE  cb[d].cached \subseteq cb'[d].cached \/ Over(i, d)'
  <1>1. cb \in CbType
    BY DEF TypeOK, DelegateTypeOK, CbType
  <1>2. CASE Reported(q) \/ Silent(q)
    BY <1>2 DEF Reported, Silent, Finishes
  <1>3. CASE Unasked(q)
    BY <1>3 DEF Unasked
  <1>4. CASE DidConnectPeripheral(q) \/ DidFailToConnectPeripheral(q)
    <2>1. CASE DidConnectPeripheral(q)
      BY <2>1 DEF DidConnectPeripheral, TypeOK, DelegateTypeOK
    <2>2. CASE DidFailToConnectPeripheral(q)
      BY <2>2 DEF DidFailToConnectPeripheral, TypeOK, DelegateTypeOK
    <2> QED BY <1>4, <2>1, <2>2
  <1>5. CASE DidDisconnectPeripheral(q)
    <2>1. d # q => cb'[d] = cb[d]
      BY <1>1, <1>5 DEF DidDisconnectPeripheral, CbType
    <2>2. Event("DisconnectedDevice", q, NoAttr, NoReq) \in CentralDelegateEvent
      BY EventTypes DEF DeviceEvent
    <2>3. Over(i, q)'
      BY <1>5, <2>2, SentEvents DEF DidDisconnectPeripheral, Over, Event
    <2> QED BY <2>1, <2>3
  <1> QED BY <1>2, <1>3, <1>4, <1>5 DEF CallbackShapes

\* Nor does a request take anything from it.
LEMMA CachedRequest ==
    ASSUME TypeOK, NEW q \in Device, Requests(q), NEW d \in Device
    PROVE  cb'[d].cached = cb[d].cached
  <1>1. cb \in CbType
    BY DEF TypeOK, DelegateTypeOK, CbType
  <1>2. CASE Connect(q) \/ CancelConnection(q)
    <2>1. CASE Connect(q)
      BY <2>1 DEF Connect, TypeOK, DelegateTypeOK
    <2>2. CASE CancelConnection(q)
      BY <2>2 DEF CancelConnection, TypeOK, DelegateTypeOK
    <2> QED BY <1>2, <2>1, <2>2
  <1>3. CASE \E o, a, r : Ask(q, o, a, r)
    BY <1>1, <1>3 DEF Ask, CbType
  <1> QED BY <1>2, <1>3 DEF Requests

\* What the framework reports it has filled in before, and keeps until the link is over.
LEMMA CachedWhenSentStep ==
    ASSUME TypeOK, CachedWhenSent, [Next]_vars
    PROVE  CachedWhenSent'
  <1> SUFFICES ASSUME NEW d \in Device, NEW i \in DOMAIN delegate',
                      delegate'[i].dev = d,
                      delegate'[i].ev = "DiscoveredCharacteristicDescriptors"
               PROVE  delegate'[i].attr \in cb'[d].cached \/ Over(i, d)'
    BY DEF CachedWhenSent
  <1>0. delegate \in Seq(CentralDelegateEvent) /\ Len(delegate) \in Nat
        /\ DOMAIN delegate = 1..Len(delegate)
    BY DEF TypeOK, DelegateTypeOK
  <1>1. CASE \E q \in Device : CallbackShapes(q)
    <2>1. PICK q \in Device : CallbackShapes(q)
      BY <1>1
    <2>2. CASE i \in DOMAIN delegate /\ delegate'[i] = delegate[i]
      <3>1. delegate[i].attr \in cb[d].cached \/ Over(i, d)
        BY <2>2 DEF CachedWhenSent
      <3>2. i \in 0..Len(delegate)
        BY <1>0, <2>2
      <3> QED BY <2>1, <2>2, <3>1, <3>2, CachedCallback, LaterCallback
    <2>3. CASE Reported(q)
      <3>1. PICK e \in CentralDelegateEvent :
               /\ Send(e)
               /\ e.dev = q
               /\ e.ev = "DiscoveredCharacteristicDescriptors" => e.attr \in cb'[q].cached
        BY <2>3 DEF Reported, Reports
      <3>2. \/ i \in DOMAIN delegate /\ delegate'[i] = delegate[i]
            \/ delegate'[i] = e
        BY <3>1, SentEvents
      <3> QED BY <2>2, <3>1, <3>2
    <2>4. ASSUME NEW e \in CentralDelegateEvent, Send(e),
                 e.ev # "DiscoveredCharacteristicDescriptors"
          PROVE  i \in DOMAIN delegate /\ delegate'[i] = delegate[i]
      <3>1. \/ i \in DOMAIN delegate /\ delegate'[i] = delegate[i]
            \/ delegate'[i] = e
        BY <2>4, SentEvents
      <3> QED BY <2>4, <3>1
    <2>5. CASE Silent(q)
      BY <2>2, <2>5 DEF Silent
    <2>6. CASE Unasked(q)
      BY <2>2, <2>4, <2>6 DEF Unasked
    <2>7. \A v \in DeviceEvent : Event(v, q, NoAttr, NoReq) \in CentralDelegateEvent
                                 /\ Event(v, q, NoAttr, NoReq).ev # "DiscoveredCharacteristicDescriptors"
      BY EventTypes DEF Event, DeviceEvent
    <2>8. CASE DidConnectPeripheral(q) \/ DidFailToConnectPeripheral(q) \/ DidDisconnectPeripheral(q)
      <3>1. \E v \in DeviceEvent : Send(Event(v, q, NoAttr, NoReq))
        BY <2>8 DEF DidConnectPeripheral, DidFailToConnectPeripheral, DidDisconnectPeripheral, DeviceEvent
      <3> QED BY <2>2, <2>4, <2>7, <3>1
    <2> QED BY <2>1, <2>3, <2>5, <2>6, <2>8 DEF CallbackShapes
  <1>2. CASE HandleMessage
    <2>1. delegate' = delegate /\ (cb' = cb \/ \E q \in Device : Requests(q))
      BY <1>2, MessageForm
    <2>2. delegate[i].attr \in cb[d].cached \/ Over(i, d)
      BY <2>1 DEF CachedWhenSent
    <2>3. cb'[d].cached = cb[d].cached
      BY <2>1, CachedRequest
    <2> QED BY <2>1, <2>2, <2>3 DEF Over
  <1>3. CASE EventForms
    <2>1. cb' = cb
      BY <1>3, HandlerTakes
    <2>2. Occurs(Head(delegate).ev) /\ Consume
      <3>1. (\E why : Panic(why)) => delegate' = <<>>
        BY DEF Panic
      <3>2. delegate' # <<>>
        OBVIOUS
      <3> QED BY <1>3, <3>1, <3>2, HandlerTakes
    <2>3. i + 1 \in DOMAIN delegate /\ delegate'[i] = delegate[i + 1] /\ i \in Nat
      BY <2>2, TailEvents
    <2>4. delegate[i + 1].attr \in cb[d].cached \/ Over(i + 1, d)
      BY <2>3 DEF CachedWhenSent
    <2> QED BY <2>1, <2>2, <2>3, <2>4, LaterTail
  <1>4. CASE UNCHANGED <<cb, delegate>>
    BY <1>4 DEF CachedWhenSent, Over
  <1> QED BY <1>1, <1>2, <1>3, <1>4, StepForm

\* What a device has, and what its characteristics have, is what the assumption says.
LEMMA LayoutSets ==
    /\ \A s \in Service : Range(CharsOf[s]) = {c \in Char : ServiceOf[c] = s}
    /\ \A c \in Char : Range(DescsOf[c]) = DescsIn(c) /\ ServiceOf[c] \in Service
    /\ \A s \in Service : \A x : x \in Below(s) <=>
          \/ x \in Char /\ ServiceOf[x] = s
          \/ x \in Desc /\ ServiceOf[CharOf[x]] = s
  <1>1. \A s \in Service : Range(CharsOf[s]) = {c \in Char : ServiceOf[c] = s}
    BY DelegateAssumption
  <1>2. \A c \in Char : Range(DescsOf[c]) = DescsIn(c) /\ ServiceOf[c] \in Service
    BY DelegateAssumption DEF DescsIn
  <1>3. \A x \in Desc : CharOf[x] \in Char
    BY DelegateAssumption
  <1> QED BY <1>1, <1>2, <1>3 DEF Below, DescsIn

\* The trees that the results of the discovery make hold what the device has.
LEMMA TreesOfDevice ==
    ASSUME TypeOK, TreeOfDevice, NEW d \in Device
    PROVE  LET Fits2(t) == /\ t.has \subseteq WholeTree(d)
                           /\ t.has \cap Service \in {{}, Range(ServicesOf[d])}
           IN  /\ Fits2(NoTree)
               /\ Fits2([has |-> Range(ServicesOf[d]), discovered |-> {}])
               /\ \A s \in Service : s \in tree[d].has => Fits2(CharsTree(d, s))
               /\ \A c \in Char : ServiceOf[c] \in tree[d].has => Fits2(DescsTree(d, c))
  <1>1. Range(ServicesOf[d]) \subseteq Service
    BY LayoutTypes
  <1>2. /\ tree[d].has \subseteq WholeTree(d)
        /\ tree[d].has \cap Service \in {{}, Range(ServicesOf[d])}
    BY DEF TreeOfDevice
  <1>3. Service \cap Char = {} /\ Char \cap Desc = {} /\ Desc \cap Service = {}
    BY DelegateAssumption
  <1>4. \A s \in Service : s \in WholeTree(d) => s \in Range(ServicesOf[d])
    BY <1>3 DEF WholeTree
  <1>5. NoTree.has = {}
    BY DEF NoTree
  <1>6. Range(ServicesOf[d]) \subseteq WholeTree(d) /\ Range(ServicesOf[d]) \cap Service = Range(ServicesOf[d])
    BY <1>1 DEF WholeTree
  <1>7. ASSUME NEW s \in Service, s \in tree[d].has
        PROVE  /\ CharsTree(d, s).has \subseteq WholeTree(d)
               /\ CharsTree(d, s).has \cap Service = tree[d].has \cap Service
    <2>1. s \in Range(ServicesOf[d])
      BY <1>2, <1>4, <1>7
    <2>2. \A x \in CharsTree(d, s).has : x \in tree[d].has \/ x \in Below(s)
      BY DEF CharsTree, Below
    <2>3. \A x \in Below(s) : x \in WholeTree(d) /\ x \notin Service
      BY <1>3, <2>1, LayoutSets, DelegateAssumption DEF WholeTree
    <2>4. \A x \in Service : x \in tree[d].has => x \in CharsTree(d, s).has
      BY <2>3 DEF CharsTree
    <2> QED BY <1>2, <2>2, <2>3, <2>4
  <1>8. ASSUME NEW c \in Char, ServiceOf[c] \in tree[d].has
        PROVE  /\ DescsTree(d, c).has \subseteq WholeTree(d)
               /\ DescsTree(d, c).has \cap Service = tree[d].has \cap Service
    <2>1. ServiceOf[c] \in Range(ServicesOf[d])
      BY <1>2, <1>4, <1>8, LayoutSets
    <2>2. DescsTree(d, c).has = tree[d].has \cup DescsIn(c)
      BY LayoutSets DEF DescsTree
    <2>3. \A x \in DescsIn(c) : x \in WholeTree(d) /\ x \notin Service
      BY <1>3, <2>1 DEF WholeTree, DescsIn
    <2> QED BY <1>2, <2>2, <2>3
  <1> QED BY <1>2, <1>5, <1>6, <1>7, <1>8

\* The tree of a device only changes when an event about it is handled.
TreeSteps ==
    \/ UNCHANGED tree
    \/ \E d \in Device : Forgets(d)
    \/ \E d \in Device : FoundServices(d)
    \/ \E d \in Device, s \in Service : FoundChars(d, s)
    \/ \E d \in Device, c \in Char : FoundDescs(d, c)
    \/ \E why : Panic(why)

\* No other step changes a tree.
LEMMA TreeStep ==
    ASSUME TypeOK, [Next]_vars
    PROVE  TreeSteps
  <1>1. CASE HandleMessage
    BY <1>1, MessageForm DEF TreeSteps
  <1>2. CASE EventForms
    <2>1. CASE delegate # <<>> /\ Unheeded
      BY <2>1 DEF Unheeded, Ignore, TreeSteps
    <2>2. CASE OnDiscoveredPeripheral
      BY <2>2 DEF OnDiscoveredPeripheral, TreeSteps
    <2>3. CASE \E d \in Device : ReportsFailure(d)
      BY <2>3 DEF ReportsFailure, TreeSteps
    <2>4. CASE \E k, kind : Fulfilled(k, kind)
      BY <2>4 DEF Fulfilled, TreeSteps
    <2> QED BY <1>2, <2>1, <2>2, <2>3, <2>4 DEF EventForms, LiveForms, TreeSteps
  <1>3. CASE UNCHANGED tree
    BY <1>3 DEF TreeSteps
  <1> QED BY <1>1, <1>2, <1>3, StepForm DEF internalVars

\* The tree of d becomes what the result makes of it, the other trees stay.
LEMMA TreeAfter ==
    ASSUME TypeOK, NEW d \in Device
    PROVE  /\ \A t : tree' = [tree EXCEPT ![d] = t] =>
                 tree'[d] = t /\ \A q \in Device \ {d} : tree'[q] = tree[q]
           /\ FoundServices(d) => tree' = [tree EXCEPT ![d] = [has |-> Range(ServicesOf[d]), discovered |-> {}]]
           /\ \A s : FoundChars(d, s) => tree' = [tree EXCEPT ![d] = CharsTree(d, s)]
           /\ \A c : FoundDescs(d, c) => tree' = [tree EXCEPT ![d] = DescsTree(d, c)]
           /\ Forgets(d) => tree' = [tree EXCEPT ![d] = NoTree]
  <1>1. \A t : tree' = [tree EXCEPT ![d] = t] =>
           tree'[d] = t /\ \A q \in Device \ {d} : tree'[q] = tree[q]
    BY DEF TypeOK
  <1> QED BY <1>1 DEF FoundServices, FoundChars, FoundDescs, Grows, Forgets

\* No result brings anything into a tree that is not of the device, nor some of its services only.
LEMMA TreeOfDeviceStep ==
    ASSUME TypeOK, TreeOfDevice, [Next]_vars
    PROVE  TreeOfDevice'
  <1> DEFINE Fits2(q, t) == /\ t.has \subseteq WholeTree(q)
                            /\ t.has \cap Service \in {{}, Range(ServicesOf[q])}
  <1> SUFFICES ASSUME NEW q \in Device
               PROVE  Fits2(q, tree'[q])
    BY DEF TreeOfDevice
  <1>1. Fits2(q, tree[q])
    BY DEF TreeOfDevice
  <1>2. Fits2(q, NoTree)
    BY TreesOfDevice
  <1>3. CASE \E d \in Device : Forgets(d)
    BY <1>1, <1>2, <1>3, TreeAfter
  <1>4. CASE \E d \in Device : FoundServices(d)
    <2>1. PICK d \in Device : FoundServices(d)
      BY <1>4
    <2>2. Fits2(d, [has |-> Range(ServicesOf[d]), discovered |-> {}])
      BY TreesOfDevice
    <2> QED BY <1>1, <2>1, <2>2, TreeAfter
  <1>5. CASE \E d \in Device, s \in Service : FoundChars(d, s)
    <2>1. PICK d \in Device, s \in Service : FoundChars(d, s)
      BY <1>5
    <2>2. Fits2(d, CharsTree(d, s))
      BY <2>1, TreesOfDevice DEF FoundChars
    <2> QED BY <1>1, <2>1, <2>2, TreeAfter
  <1>6. CASE \E d \in Device, c \in Char : FoundDescs(d, c)
    <2>1. PICK d \in Device, c \in Char : FoundDescs(d, c)
      BY <1>6
    <2>2. Fits2(d, DescsTree(d, c))
      BY <2>1, TreesOfDevice DEF FoundDescs
    <2> QED BY <1>1, <2>1, <2>2, TreeAfter
  <1>7. CASE \E why : Panic(why)
    BY <1>2, <1>7 DEF Panic
  <1>8. CASE UNCHANGED tree
    BY <1>1, <1>8
  <1> QED BY <1>3, <1>4, <1>5, <1>6, <1>7, <1>8, TreeStep DEF TreeSteps

\* The tree and the slots of a device are emptied when the device is removed.
LEMMA UnknownStep ==
    ASSUME IInv, UnknownHoldsNothing, [Next]_vars
    PROVE  UnknownHoldsNothing'
  <1>0. TypeOK
    BY DEF IInv
  <1> DEFINE Nothing(q) == /\ tree'[q] = NoTree
                           /\ connected_future_state'[q] = NoReq
                           /\ disconnected_future_state'[q] = NoReq
  <1> SUFFICES ASSUME NEW q \in Device, q \notin known'
               PROVE  Nothing(q)
    BY DEF UnknownHoldsNothing
  <1>1. ASSUME q \notin known, UNCHANGED <<tree, connected_future_state, disconnected_future_state>>
        PROVE  Nothing(q)
    BY <1>1 DEF UnknownHoldsNothing
  <1>2. CASE HandleMessage
    <2>1. q \notin known /\ tree' = tree
      BY <1>0, <1>2, MessageForm
    <2>2. CASE Scan
      BY <1>1, <2>1, <2>2 DEF Scan, futureVars
    <2>3. CASE \E r \in Req : RequestOnAttribute(r)
      BY <1>1, <2>1, <2>3 DEF RequestOnAttribute
    <2>4. CASE \E r \in Req : WriteWithoutResponse(r) \/ IsConnected(r)
      BY <1>1, <2>1, <2>4 DEF WriteWithoutResponse, IsConnected, futureVars
    <2>5. CASE \E r \in Req : ConnectPeripheral(r)
      <3>1. PICK r \in Req : ConnectPeripheral(r)
        BY <2>5
      <3>2. /\ disconnected_future_state' = disconnected_future_state
            /\ \/ connected_future_state' = connected_future_state
               \/ /\ ask[r].dev \in known
                  /\ connected_future_state' = [connected_future_state EXCEPT ![ask[r].dev] = r]
        BY <3>1 DEF ConnectPeripheral
      <3>3. connected_future_state'[q] = connected_future_state[q]
        BY <1>0, <2>1, <3>2 DEF TypeOK
      <3> QED BY <2>1, <3>2, <3>3 DEF UnknownHoldsNothing
    <2>6. CASE \E r \in Req : DisconnectPeripheral(r)
      <3>1. PICK r \in Req : DisconnectPeripheral(r)
        BY <2>6
      <3>2. /\ connected_future_state' = connected_future_state
            /\ \/ disconnected_future_state' = disconnected_future_state
               \/ /\ ask[r].dev \in known
                  /\ disconnected_future_state' = [disconnected_future_state EXCEPT ![ask[r].dev] = r]
        BY <3>1 DEF DisconnectPeripheral
      <3>3. disconnected_future_state'[q] = disconnected_future_state[q]
        BY <1>0, <2>1, <3>2 DEF TypeOK
      <3> QED BY <2>1, <3>2, <3>3 DEF UnknownHoldsNothing
    <2> QED BY <1>2, <2>2, <2>3, <2>4, <2>5, <2>6 DEF HandleMessage
  <1>3. CASE EventForms
    <2>1. CASE delegate # <<>> /\ Unheeded
      BY <1>1, <2>1 DEF Unheeded, Ignore, futureVars
    <2>2. CASE OnDiscoveredPeripheral
      BY <1>1, <2>2 DEF OnDiscoveredPeripheral, futureVars
    <2>3. CASE \E k, kind : Fulfilled(k, kind)
      BY <1>1, <2>3 DEF Fulfilled
    <2>4. CASE \E why : Panic(why)
      BY <2>4 DEF Panic
    <2>5. ASSUME NEW d \in Device, d \in known, known' = known,
                 NEW t, tree' = tree \/ tree' = [tree EXCEPT ![d] = t],
                 \/ connected_future_state' = Take(connected_future_state, d)
                 \/ connected_future_state' = connected_future_state,
                 disconnected_future_state' = disconnected_future_state
          PROVE  Nothing(q)
      <3>1. q # d
        BY <2>5
      <3>2. tree'[q] = tree[q] /\ connected_future_state'[q] = connected_future_state[q]
        BY <1>0, <2>5, <3>1 DEF Take, TypeOK
      <3> QED BY <2>5, <3>2 DEF UnknownHoldsNothing
    <2>6. CASE \E d \in Device : FoundServices(d)
      BY <2>5, <2>6 DEF FoundServices, Grows
    <2>7. CASE \E d \in Device, s \in Service : FoundChars(d, s)
      BY <2>5, <2>7 DEF FoundChars, Grows
    <2>8. CASE \E d \in Device, c \in Char : FoundDescs(d, c)
      BY <2>5, <2>8 DEF FoundDescs, Grows
    <2>9. CASE \E d \in Device : ReportsFailure(d)
      BY <2>5, <2>9 DEF ReportsFailure
    <2>10. CASE \E d \in Device : Forgets(d)
      <3>1. PICK d \in Device : Forgets(d)
        BY <2>10
      <3>2. /\ known' = known \ {d}
            /\ tree' = [tree EXCEPT ![d] = NoTree]
            /\ connected_future_state' = Take(connected_future_state, d)
            /\ disconnected_future_state' = Take(disconnected_future_state, d)
        BY <3>1 DEF Forgets
      <3>3. CASE q = d
        BY <1>0, <3>2, <3>3 DEF Take, TypeOK
      <3>4. CASE q # d
        <4>1. /\ tree'[q] = tree[q]
              /\ connected_future_state'[q] = connected_future_state[q]
              /\ disconnected_future_state'[q] = disconnected_future_state[q]
          BY <1>0, <3>2, <3>4 DEF Take, TypeOK
        <4> QED BY <3>2, <3>4, <4>1 DEF UnknownHoldsNothing
      <3> QED BY <3>3, <3>4
    <2> QED BY <1>3, <2>1, <2>2, <2>3, <2>4, <2>6, <2>7, <2>8, <2>9, <2>10 DEF EventForms, LiveForms
  <1>4. CASE UNCHANGED <<known, tree, futureVars>>
    BY <1>1, <1>4 DEF futureVars
  <1> QED BY <1>0, <1>2, <1>3, <1>4, StepForm DEF internalVars

\* What WholeBelow says of one characteristic, in a tree.
Whole(d, t, c) ==
    c \in t.discovered \/ ServiceOf[c] \in t.discovered
        => c \in cb[d].cached /\ c \in t.has /\ DescsIn(c) \subseteq t.has

\* A result for the characteristics of a service forgets which of them are discovered, but
\* not the descriptors that the framework has.
LEMMA CharsWhole ==
    ASSUME TypeOK, NEW d \in Device, NEW s \in Service, \A c \in Char : Whole(d, tree[d], c)
    PROVE  \A c \in Char : Whole(d, CharsTree(d, s), c)
  <1> SUFFICES ASSUME NEW c \in Char,
                      \/ c \in CharsTree(d, s).discovered
                      \/ ServiceOf[c] \in CharsTree(d, s).discovered
               PROVE  /\ c \in cb[d].cached
                      /\ c \in CharsTree(d, s).has
                      /\ DescsIn(c) \subseteq CharsTree(d, s).has
    BY DEF Whole
  <1>1. Service \cap Char = {} /\ Char \cap Desc = {} /\ Desc \cap Service = {}
    BY DelegateAssumption
  <1>2. Range(CharsOf[s]) = {x \in Char : ServiceOf[x] = s}
    BY LayoutSets
  <1>3. c \in tree[d].discovered \/ ServiceOf[c] \in tree[d].discovered
    BY <1>1, <1>2, LayoutSets DEF CharsTree
  <1>4. c \in cb[d].cached /\ c \in tree[d].has /\ DescsIn(c) \subseteq tree[d].has
    BY <1>3 DEF Whole
  <1>5. CASE ServiceOf[c] = s
    BY <1>2, <1>4, <1>5, LayoutSets DEF CharsTree
  <1>6. CASE ServiceOf[c] # s
    <2>1. c \notin Below(s) /\ \A x \in DescsIn(c) : x \notin Below(s)
      BY <1>1, <1>6, LayoutSets DEF DescsIn
    <2> QED BY <1>4, <2>1 DEF CharsTree
  <1> QED BY <1>5, <1>6

\* A result for the descriptors of a characteristic makes that one whole, and with the last
\* one its service.
LEMMA DescsWhole ==
    ASSUME TypeOK, NEW d \in Device, NEW a \in Char, \A c \in Char : Whole(d, tree[d], c),
           a \in tree[d].has, a \in cb[d].cached
    PROVE  \A c \in Char : Whole(d, DescsTree(d, a), c)
  <1> SUFFICES ASSUME NEW c \in Char,
                      \/ c \in DescsTree(d, a).discovered
                      \/ ServiceOf[c] \in DescsTree(d, a).discovered
               PROVE  /\ c \in cb[d].cached
                      /\ c \in DescsTree(d, a).has
                      /\ DescsIn(c) \subseteq DescsTree(d, a).has
    BY DEF Whole
  <1>1. Service \cap Char = {}
    BY DelegateAssumption
  <1>2. DescsTree(d, a).has = tree[d].has \cup DescsIn(a)
    BY LayoutSets DEF DescsTree
  <1>3. ServiceOf[c] \in Service /\ ServiceOf[a] \in Service
    BY LayoutSets
  <1>4. \/ c = a
        \/ c \in tree[d].discovered \/ ServiceOf[c] \in tree[d].discovered
        \/ LastChar(d, a) /\ ServiceOf[c] = ServiceOf[a]
    BY <1>1, <1>3 DEF DescsTree
  <1>5. LastChar(d, a) /\ ServiceOf[c] = ServiceOf[a] => c \in tree[d].discovered \cup {a}
    BY <1>3, LayoutSets DEF LastChar
  <1> QED BY <1>2, <1>4, <1>5 DEF Whole

\* A characteristic is marked discovered with its descriptors, and replaced with its mark.
LEMMA WholeBelowStep ==
    ASSUME TypeOK, UnknownHoldsNothing, CachedWhenSent, WholeBelow, [Next]_vars
    PROVE  WholeBelow'
  <1> SUFFICES ASSUME NEW q \in Device, ~ Over(0, q)'
               PROVE  \A c \in Char : c \in tree'[q].discovered \/ ServiceOf[c] \in tree'[q].discovered
                         => c \in cb'[q].cached /\ c \in tree'[q].has /\ DescsIn(c) \subseteq tree'[q].has
    BY DEF WholeBelow
  <1> DEFINE Goal == \A c \in Char : c \in tree'[q].discovered \/ ServiceOf[c] \in tree'[q].discovered
                         => c \in cb'[q].cached /\ c \in tree'[q].has /\ DescsIn(c) \subseteq tree'[q].has
  <1>0. Over(0, q) \/ \A c \in Char : Whole(q, tree[q], c)
    BY DEF WholeBelow, Whole
  <1>1. ASSUME ~ Over(0, q), tree'[q] = tree[q], cb[q].cached \subseteq cb'[q].cached
        PROVE  Goal
    BY <1>0, <1>1 DEF Whole
  <1>2. ASSUME NEW t, tree'[q] = t, t.discovered = {}
        PROVE  Goal
    BY <1>2
  <1>3. NoTree.discovered = {}
    BY DEF NoTree
  <1>4. CASE (\E d \in Device : CallbackShapes(d)) /\ UNCHANGED internalVars
    <2>1. PICK d \in Device : CallbackShapes(d)
      BY <1>4
    <2>2. 0 \in 0..Len(delegate)
      BY DEF TypeOK, DelegateTypeOK
    <2>3. ~ Over(0, q) /\ cb[q].cached \subseteq cb'[q].cached
      BY <2>1, <2>2, CachedCallback, LaterCallback
    <2> QED BY <1>1, <1>4, <2>3 DEF internalVars
  <1>5. CASE HandleMessage
    <2>1. delegate' = delegate /\ tree' = tree /\ cb'[q].cached = cb[q].cached
      BY <1>5, MessageForm, CachedRequest
    <2> QED BY <1>1, <2>1 DEF Over
  <1>6. CASE EventForms
    <2>1. cb' = cb
      BY <1>6, HandlerTakes
    <2>2. CASE \E why : Panic(why)
      <3>1. tree'[q] = NoTree
        BY <2>2 DEF Panic
      <3> QED BY <1>2, <1>3, <3>1
    <2>3. CASE ~ \E why : Panic(why)
      <3> DEFINE e == Head(delegate)
      <3>1. Occurs(e.ev) /\ Consume
        BY <1>6, <2>3, HandlerTakes
      <3>2. e \in CentralDelegateEvent /\ e.dev \in Device
        BY <3>1, EventShape
      <3>3. CASE e.ev = "DisconnectedDevice" /\ e.dev = q
        <4>1. CASE q \notin known
          <5>1. tree'[q] = tree[q]
            BY <1>6, <2>3, <3>3, <4>1
               DEF EventForms, LiveForms, Unheeded, Ignore, OnDiscoveredPeripheral, FoundServices, FoundChars, FoundDescs,
                   ReportsFailure, Forgets, Fulfilled, Has, Occurs
          <5> QED BY <1>2, <1>3, <4>1, <5>1 DEF UnknownHoldsNothing
        <4>2. CASE q \in known
          <5>1. Forgets(q)
            BY <1>6, <2>3, <3>2, <3>3, <4>2
               DEF EventForms, LiveForms, Unheeded, OnDiscoveredPeripheral, FoundServices, FoundChars, FoundDescs,
                   ReportsFailure, Forgets, Fulfilled, AnsweredFrom, Occurs, CharEvent, DescEvent
          <5>2. tree'[q] = NoTree
            BY <5>1, TreeAfter
          <5> QED BY <1>2, <1>3, <5>2
        <4> QED BY <4>1, <4>2
      <3>4. CASE ~ (e.ev = "DisconnectedDevice" /\ e.dev = q)
        <4>1. ~ Over(0, q)
          BY <2>1, <3>1, <3>4, LaterTail
        <4>2. CASE tree'[q] = tree[q]
          BY <1>1, <2>1, <4>1, <4>2
        <4>3. CASE \E s \in Service : FoundChars(q, s)
          <5>1. PICK s \in Service : FoundChars(q, s)
            BY <4>3
          <5>2. tree'[q] = CharsTree(q, s)
            BY <5>1, TreeAfter
          <5>3. \A c \in Char : Whole(q, CharsTree(q, s), c)
            BY <1>0, <4>1, CharsWhole
          <5> QED BY <2>1, <5>2, <5>3 DEF Whole
        <4>4. CASE \E a \in Char : FoundDescs(q, a)
          <5>1. PICK a \in Char : FoundDescs(q, a)
            BY <4>4
          <5>2. tree'[q] = DescsTree(q, a)
            BY <5>1, TreeAfter
          <5>3. a \in cb[q].cached
            <6>1. 1 \in DOMAIN delegate /\ delegate[1] = e
              BY <3>1, TailEvents
            <6>2. a \in cb[q].cached \/ Over(1, q)
              BY <5>1, <6>1 DEF FoundDescs, CachedWhenSent, Occurs
            <6>3. Over(1, q) => Over(0, q)
              BY <3>1, TailEvents DEF Over
            <6> QED BY <4>1, <6>2, <6>3
          <5>4. \A c \in Char : Whole(q, DescsTree(q, a), c)
            BY <1>0, <4>1, <5>1, <5>3, DescsWhole DEF FoundDescs
          <5> QED BY <2>1, <5>2, <5>4 DEF Whole
        <4>5. CASE FoundServices(q)
          <5>1. tree'[q] = [has |-> Range(ServicesOf[q]), discovered |-> {}]
            BY <4>5, TreeAfter
          <5> QED BY <5>1
        <4>6. CASE Forgets(q)
          BY <3>4, <4>6 DEF Forgets, Occurs
        <4>7. ASSUME NEW d \in Device, d # q,
                     FoundServices(d) \/ Forgets(d)
                       \/ (\E s \in Service : FoundChars(d, s)) \/ (\E a \in Char : FoundDescs(d, a))
              PROVE  tree'[q] = tree[q]
          BY <4>7, TreeAfter
        <4> QED BY <2>3, <4>2, <4>3, <4>4, <4>5, <4>6, <4>7, TreeStep DEF TreeSteps
      <3> QED BY <3>3, <3>4
    <2> QED BY <2>2, <2>3
  <1>7. CASE UNCHANGED <<cb, delegate, tree>>
    BY <1>1, <1>7 DEF Over
  <1> QED BY <1>4, <1>5, <1>6, <1>7, StepForm

\* At first there are no trees.
LEMMA TreeInvStart == Init => TreeInv
BY DEF Init, DelegateInit, TreeInv, UnknownHoldsNothing, TreeOfDevice, CachedWhenSent, WholeBelow, NoTree

\* Every step keeps the four parts.
LEMMA TreeInvStep == IInv /\ TreeInv /\ [Next]_vars => TreeInv'
BY UnknownStep, TreeOfDeviceStep, CachedWhenSentStep, WholeBelowStep DEF TreeInv, IInv

\* A tree that is complete, of a link that is not over, is the whole tree of its device.
LEMMA CompleteIsWhole ==
    ASSUME NEW d \in Device, NEW t, Complete(t),
           t.has \subseteq WholeTree(d), t.has \cap Service = Range(ServicesOf[d]),
           \A c \in Char : Whole(d, t, c)
    PROVE  t.has = WholeTree(d)
  <1>1. Range(ServicesOf[d]) \subseteq t.has
    OBVIOUS
  <1>2. ASSUME NEW c \in Char, ServiceOf[c] \in Range(ServicesOf[d])
        PROVE  c \in t.has /\ DescsIn(c) \subseteq t.has
    <2>1. ServiceOf[c] \in t.discovered
      BY <1>2 DEF Complete
    <2> QED BY <2>1 DEF Whole
  <1>3. \A x \in Desc : CharOf[x] \in Char
    BY DelegateAssumption
  <1>4. \A x \in Desc : ServiceOf[CharOf[x]] \in Range(ServicesOf[d]) => x \in t.has
    BY <1>2, <1>3 DEF DescsIn
  <1>5. WholeTree(d) \subseteq t.has
    BY <1>1, <1>2, <1>4 DEF WholeTree
  <1> QED BY <1>5

\* Only a result of the discovery answers a connect().
LEMMA ConnectedStep ==
    ASSUME IInv, [Next]_vars, NEW r \in Req, reply[r].kind # "Connected", reply'[r].kind = "Connected"
    PROVE  \E d \in Device : /\ connected_future_state[d] = r
                             /\ reply'[r].seen = tree'[d].has
                             /\ Complete(tree'[d])
                             /\ \/ \E s \in Service : FoundChars(d, s)
                                \/ \E c \in Char : FoundDescs(d, c)
  <1>0. TypeOK /\ NoReq \notin Req
    BY DelegateAssumption DEF IInv
  <1>1. ASSUME NEW q, NEW kind, NEW src, NEW S, kind # "Connected",
               Settle(q, Reply(kind, src, {}), S) \/ Settle(q, NoReply, S)
        PROVE  FALSE
    <2>1. Twice.kind # "Connected" /\ NoReply.kind # "Connected" /\ Reply(kind, src, {}).kind # "Connected"
      BY <1>1 DEF Twice, NoReply, Reply
    <2>2. reply'[r] \in {reply[r], Twice, NoReply, Reply(kind, src, {})}
      BY <1>1 DEF Settle
    <2> QED BY <2>1, <2>2
  <1>2. CASE UNCHANGED reply
    BY <1>2
  <1>3. CASE HandleMessage
    <2>1. CASE \E q \in Req : WriteWithoutResponse(q)
      BY <1>1, <2>1 DEF WriteWithoutResponse
    <2>2. CASE \E q \in Req : IsConnected(q)
      <3>1. PICK q \in Req : IsConnected(q)
        BY <2>2
      <3>2. \/ Settle(q, Reply("State(Connected)", NoReq, {}), {})
            \/ Settle(q, Reply("State(_)", NoReq, {}), {})
            \/ Settle(NoReq, NoReply, {q})
        BY <3>1 DEF IsConnected
      <3> QED BY <1>1, <3>2
    <2>3. CASE Scan \/ \E q \in Req : RequestOnAttribute(q) \/ ConnectPeripheral(q)
                                      \/ DisconnectPeripheral(q)
      BY <1>2, <2>3 DEF Scan, RequestOnAttribute, ConnectPeripheral, DisconnectPeripheral
    <2> QED BY <1>3, <2>1, <2>2, <2>3 DEF HandleMessage
  <1>4. CASE EventForms
    <2>1. CASE (delegate # <<>> /\ Unheeded) \/ OnDiscoveredPeripheral \/ \E why : Panic(why)
      BY <1>2, <2>1 DEF Unheeded, Ignore, OnDiscoveredPeripheral, Panic
    <2>2. CASE \E d \in Device : ReportsFailure(d)
      BY <1>1, <2>2 DEF ReportsFailure
    <2>3. CASE \E d \in Device : Forgets(d)
      BY <1>1, <2>3 DEF Forgets
    <2>4. CASE \E k \in Slot, kind \in {"Ok", "ReadResult"} : Fulfilled(k, kind)
      BY <1>1, <2>4 DEF Fulfilled
    <2>5. ASSUME NEW d \in Device, NEW t, NEW K, NEW check, Grows(d, t, K, check)
          PROVE  /\ check /\ connected_future_state[d] = r
                 /\ tree'[d] = t /\ Complete(t) /\ reply'[r].seen = t.has
      <3>1. tree'[d] = t
        BY <1>0, <2>5, TreeAfter DEF Grows
      <3>2. check /\ Complete(t) /\ connected_future_state[d] = r
            /\ reply'[r] \in {Twice, Reply("Connected", NoReq, t.has)}
        BY <1>0, <2>5 DEF Grows, Settle
      <3>3. Twice.kind # "Connected" /\ Reply("Connected", NoReq, t.has).seen = t.has
        BY DEF Twice, Reply
      <3> QED BY <3>1, <3>2, <3>3
    <2>6. CASE \E d \in Device : FoundServices(d)
      BY <2>5, <2>6 DEF FoundServices
    <2>7. CASE \E d \in Device, s \in Service : FoundChars(d, s)
      <3>1. PICK d \in Device, s \in Service : FoundChars(d, s)
        BY <2>7
      <3>2. connected_future_state[d] = r /\ tree'[d] = CharsTree(d, s)
            /\ Complete(CharsTree(d, s)) /\ reply'[r].seen = CharsTree(d, s).has
        BY <2>5, <3>1 DEF FoundChars
      <3> QED BY <3>1, <3>2
    <2>8. CASE \E d \in Device, c \in Char : FoundDescs(d, c)
      <3>1. PICK d \in Device, c \in Char : FoundDescs(d, c)
        BY <2>8
      <3>2. connected_future_state[d] = r /\ tree'[d] = DescsTree(d, c)
            /\ Complete(DescsTree(d, c)) /\ reply'[r].seen = DescsTree(d, c).has
        BY <2>5, <3>1 DEF FoundDescs
      <3> QED BY <3>1, <3>2
    <2> QED BY <1>4, <2>1, <2>2, <2>3, <2>4, <2>6, <2>7, <2>8 DEF EventForms, LiveForms
  <1> QED BY <1>0, <1>2, <1>3, <1>4, StepForm DEF internalVars

\* Every connect() that succeeds hands out all services, characteristics and descriptors of
\* the device, for every layout of a device and every order of the results, unless that
\* connection is over already.
THEOREM ConnectGivesWholeTree == Spec => ConnectedMeansDiscovered
  <1> DEFINE A == \A r \in Req :
                    reply[r].kind # "Connected" /\ reply'[r].kind = "Connected"
                    => reply'[r].seen = WholeTree(ask[r].dev) \/ LossQueued(ask[r].dev)
  <1>1. ASSUME IInv, TreeInv, IInv', TreeInv', [Next]_vars
        PROVE  A
    <2> SUFFICES ASSUME NEW r \in Req, reply[r].kind # "Connected", reply'[r].kind = "Connected",
                        ~ LossQueued(ask[r].dev)
                 PROVE  reply'[r].seen = WholeTree(ask[r].dev)
      OBVIOUS
    <2>1. PICK d \in Device : /\ connected_future_state[d] = r
                              /\ reply'[r].seen = tree'[d].has
                              /\ Complete(tree'[d])
                              /\ \/ \E s \in Service : FoundChars(d, s)
                                 \/ \E c \in Char : FoundDescs(d, c)
      BY <1>1, ConnectedStep
    <2>2. ask[r].dev = d
      <3>1. connected_future_state[d] # NoReq
        BY <2>1, DelegateAssumption
      <3>2. ask[connected_future_state[d]].dev = d
        BY <1>1, <3>1, Placed
      <3> QED BY <2>1, <3>2
    <2>3. TypeOK /\ Occurs(Head(delegate).ev) /\ Consume
      BY <1>1, <2>1 DEF IInv, FoundChars, FoundDescs, Grows, Occurs
    <2>4. ~ Over(0, d)'
      <3>1. SUFFICES ASSUME NEW j \in DOMAIN delegate',
                            delegate'[j].dev = d, delegate'[j].ev = "DisconnectedDevice"
                     PROVE  FALSE
        BY DEF Over
      <3>2. j + 1 \in DOMAIN delegate /\ delegate[j + 1] = delegate'[j]
        BY <2>3, TailEvents
      <3> QED BY <2>2, <3>1, <3>2 DEF LossQueued
    <2>5. \A c \in Char : Whole(d, tree'[d], c)
      <3>1. cb' = cb
        BY <2>1 DEF FoundChars, FoundDescs, Grows
      <3> QED BY <1>1, <2>4, <3>1 DEF TreeInv, WholeBelow, Whole
    <2>6. tree'[d].has \subseteq WholeTree(d) /\ tree'[d].has \cap Service \in {{}, Range(ServicesOf[d])}
      BY <1>1 DEF TreeInv, TreeOfDevice
    <2>7. tree'[d].has \cap Service # {}
      <3>1. CASE \E s \in Service : FoundChars(d, s)
        <4>1. PICK s \in Service : FoundChars(d, s)
          BY <3>1
        <4>2. tree'[d].has = CharsTree(d, s).has
          BY <2>3, <4>1, TreeAfter
        <4>3. s \in tree[d].has /\ s \notin Below(s)
          BY <4>1, LayoutSets, DelegateAssumption DEF FoundChars
        <4> QED BY <4>2, <4>3 DEF CharsTree
      <3>2. CASE \E c \in Char : FoundDescs(d, c)
        <4>1. PICK c \in Char : FoundDescs(d, c)
          BY <3>2
        <4>2. tree'[d].has = DescsTree(d, c).has
          BY <2>3, <4>1, TreeAfter
        <4>3. ServiceOf[c] \in tree[d].has /\ ServiceOf[c] \in Service
          BY <4>1, LayoutSets DEF FoundDescs
        <4> QED BY <4>2, <4>3 DEF DescsTree
      <3> QED BY <2>1, <3>1, <3>2
    <2>8. tree'[d].has = WholeTree(d)
      BY <2>1, <2>5, <2>6, <2>7, CompleteIsWhole
    <2> QED BY <2>1, <2>2, <2>8
  <1>2. IInv /\ TreeInv /\ IInv' /\ TreeInv' /\ [Next]_vars => [A]_vars
    BY <1>1
  <1>3. Init => IInv /\ TreeInv
    BY InitPlaces, TreeInvStart
  <1>4. IInv /\ TreeInv /\ [Next]_vars => IInv' /\ TreeInv'
    BY StepPlaces, TreeInvStep
  <1> QED BY <1>2, <1>3, <1>4, PTL DEF Spec, ConnectedMeansDiscovered

----------------------------------------------------------------------------
(* Every acknowledgement is of one call, and answers one call. *)

Consumed(q) == st[q] \notin {"idle", "sent", "refused"}

OwnOp(q) == AttOp(OpOf(q), ask[q].attr, q)

\* An operation that is asked for a call is the one the call names, of its device.
AttTags ==
    \A d \in Device : \A j \in DOMAIN cb[d].att :
        LET o == cb[d].att[j]
        IN  o.req \in Req => o = OwnOp(o.req) /\ ask[o.req].dev = d /\ Consumed(o.req)

\* An event reports the operation of the call it is tagged with, and truly unless there was
\* an error.
EventTags ==
    \A i \in DOMAIN delegate :
        LET e == delegate[i]
        IN  /\ e.req \in Req =>
                  /\ Consumed(e.req)
                  /\ Reports(OwnOp(e.req), ask[e.req].dev, e)
                  /\ Truly(OwnOp(e.req), e) \/ Broken(i, e.dev)
            /\ e.ev = "CharacteristicWritten" => e.req \in Req

\* The operation of x is ahead of the one of y in the pipeline of d.
Before(d, x, y) ==
    \/ \E i, j \in DOMAIN delegate :
          /\ i < j /\ delegate[i].dev = d /\ delegate[j].dev = d
          /\ delegate[i].req = x /\ delegate[j].req = y
    \/ \E i \in DOMAIN delegate : \E j \in DOMAIN cb[d].att :
          delegate[i].dev = d /\ delegate[i].req = x /\ cb[d].att[j].req = y
    \/ \E i, j \in DOMAIN cb[d].att : i < j /\ cb[d].att[i].req = x /\ cb[d].att[j].req = y

\* The operation of x is in the pipeline.
Pending(x) ==
    \/ \E i \in DOMAIN delegate : delegate[i].req = x
    \/ \E d \in Device : \E j \in DOMAIN cb[d].att : cb[d].att[j].req = x

\* No operation is in the pipeline twice.
Once == \A d \in Device, x \in Req : ~ Before(d, x, x)

\* What a reply was made from is over, and no other reply was made from it.
AckOnce ==
    \A r \in Req : reply[r].src \in Req =>
        /\ Consumed(reply[r].src) /\ ~ Pending(reply[r].src)
        /\ \A q \in Req : reply[q].src = reply[r].src => q = r

\* A write that succeeded was acknowledged as a write of its attribute.
AckOfSlot ==
    \A r \in Req : reply[r].kind = "Ok" /\ OpOf(r) \in {"write", "write_descriptor"} =>
        reply[r].src \in Req /\ SlotOf(reply[r].src) = SlotOf(r)

TagInv == AttTags /\ EventTags /\ Once /\ AckOnce /\ AckOfSlot

\* A call stays what it is, and a future that was taken from the channel stays taken.
LEMMA ConsumedStays ==
    ASSUME TypeOK, [Next]_vars
    PROVE  ask' = ask /\ \A q \in Req : Consumed(q) => Consumed(q)'
  <1>1. ASSUME NEW r, NEW rep, NEW S, Settle(r, rep, S)
        PROVE  \A q \in Req : Consumed(q) => Consumed(q)'
    BY <1>1 DEF Settle, Consumed
  <1>2. CASE HandleMessage
    <2>1. CASE Scan
      BY <2>1 DEF Scan, Consumed
    <2>2. ASSUME NEW r \in Req, RequestOnAttribute(r) \/ ConnectPeripheral(r) \/ DisconnectPeripheral(r)
          PROVE  ask' = ask /\ \A q \in Req : Consumed(q) => Consumed(q)'
      <3>1. CASE RequestOnAttribute(r)
        BY <3>1 DEF RequestOnAttribute, Consumed, TypeOK
      <3>2. CASE ConnectPeripheral(r)
        BY <3>2 DEF ConnectPeripheral, Consumed, TypeOK
      <3>3. CASE DisconnectPeripheral(r)
        BY <3>3 DEF DisconnectPeripheral, Consumed, TypeOK
      <3> QED BY <2>2, <3>1, <3>2, <3>3
    <2>3. ASSUME NEW r \in Req, WriteWithoutResponse(r) \/ IsConnected(r)
          PROVE  ask' = ask /\ \A q \in Req : Consumed(q) => Consumed(q)'
      BY <1>1, <2>3 DEF WriteWithoutResponse, IsConnected
    <2> QED BY <1>2, <2>1, <2>2, <2>3 DEF HandleMessage
  <1>3. CASE EventForms
    <2>1. ask' = ask
      BY <1>3, HandlerTakes
    <2>2. ASSUME NEW why, Panic(why)
          PROVE  \A q \in Req : Consumed(q) => Consumed(q)'
      BY <2>2 DEF Panic, Consumed
    <2>3. CASE delegate # <<>> /\ Unheeded
      BY <2>3 DEF Unheeded, Ignore, Consumed
    <2>4. CASE OnDiscoveredPeripheral
      BY <2>4 DEF OnDiscoveredPeripheral, Consumed
    <2>5. ASSUME NEW d, FoundServices(d) \/ (\E s : FoundChars(d, s)) \/ (\E c : FoundDescs(d, c))
          PROVE  \A q \in Req : Consumed(q) => Consumed(q)'
      BY <1>1, <2>5 DEF FoundServices, FoundChars, FoundDescs, Grows
    <2>6. ASSUME NEW d, ReportsFailure(d) \/ Forgets(d)
          PROVE  \A q \in Req : Consumed(q) => Consumed(q)'
      BY <1>1, <2>6 DEF ReportsFailure, Forgets
    <2>7. ASSUME NEW k, NEW kind, Fulfilled(k, kind)
          PROVE  \A q \in Req : Consumed(q) => Consumed(q)'
      BY <1>1, <2>7 DEF Fulfilled
    <2> QED BY <1>3, <2>1, <2>2, <2>3, <2>4, <2>5, <2>6, <2>7 DEF EventForms, LiveForms
  <1>4. CASE HandleEvent
    BY <1>3, <1>4, EventForm
  <1>5. CASE Framework \/ UNCHANGED vars \/ ClientScans
    BY <1>5 DEF Framework, internalVars, vars, ClientScans, Consumed
  <1>6. CASE \E r \in Req : ClientCalls(r)
    BY <1>6 DEF ClientCalls, Consumed, TypeOK
  <1> QED BY <1>2, <1>4, <1>5, <1>6 DEF Next

\* The only operation that a message adds is the one of the request it carries.
LEMMA MessageAdds ==
    ASSUME TypeOK, HandleMessage
    PROVE  /\ delegate' = delegate
           /\ \A d \in Device :
                 \/ cb'[d].att = cb[d].att
                 \/ \E r \in Req : /\ RequestOnAttribute(r) /\ ask[r].dev = d
                                   /\ OwnOp(r) \in AttOps
                                   /\ cb'[d].att = Append(cb[d].att, OwnOp(r))
  <1>1. delegate' = delegate
    BY MessageForm
  <1>2. cb \in CbType
    BY DEF TypeOK, DelegateTypeOK, CbType
  <1> SUFFICES ASSUME NEW d \in Device, cb'[d].att # cb[d].att
               PROVE  \E r \in Req : /\ RequestOnAttribute(r) /\ ask[r].dev = d
                                     /\ OwnOp(r) \in AttOps
                                     /\ cb'[d].att = Append(cb[d].att, OwnOp(r))
    BY <1>1
  <1>3. CASE Scan \/ \E r \in Req : WriteWithoutResponse(r) \/ IsConnected(r)
    BY <1>3 DEF Scan, WriteWithoutResponse, IsConnected
  <1>4. ASSUME NEW r \in Req, ConnectPeripheral(r) \/ DisconnectPeripheral(r)
        PROVE  FALSE
    <2>1. cb' = cb \/ Connect(ask[r].dev) \/ CancelConnection(ask[r].dev)
      BY <1>4 DEF ConnectPeripheral, DisconnectPeripheral
    <2>2. ask[r].dev \in Device
      BY CallShape
    <2>3. ASSUME NEW q \in Device, Connect(q) \/ CancelConnection(q)
          PROVE  cb'[d].att = cb[d].att
      <3>1. CASE Connect(q)
        BY <1>2, <3>1 DEF Connect, CbType
      <3>2. CASE CancelConnection(q)
        BY <1>2, <3>2 DEF CancelConnection, CbType
      <3> QED BY <2>3, <3>1, <3>2
    <2> QED BY <2>1, <2>2, <2>3
  <1>5. ASSUME NEW r \in Req, RequestOnAttribute(r)
        PROVE  /\ ask[r].dev = d /\ OwnOp(r) \in AttOps
               /\ cb'[d].att = Append(cb[d].att, OwnOp(r))
    <2>1. OpOf(r) \in CharOp \cup DescOp
      BY <1>5 DEF RequestOnAttribute, Receive
    <2>2. OwnOp(r) \in AttOps /\ ask[r].dev \in Device
      BY <2>1, CallShape DEF OwnOp
    <2>3. Ask(ask[r].dev, OpOf(r), ask[r].attr, r)
      BY <1>5 DEF RequestOnAttribute
    <2>4. cb' = [cb EXCEPT ![ask[r].dev].att = Append(@, OwnOp(r))]
      BY <2>3 DEF Ask, OwnOp
    <2> QED BY <1>2, <2>2, <2>4 DEF CbType
  <1> QED BY <1>3, <1>4, <1>5 DEF HandleMessage

\* A callback moves the oldest operation of its device behind the events, or takes it away;
\* the other operations and events keep their tags and their order.
LEMMA TagsCallback ==
    ASSUME TypeOK, NEW q \in Device, CallbackShapes(q)
    PROVE  \E n \in {0, 1} :
             /\ \A i \in DOMAIN delegate' :
                   \/ i \in DOMAIN delegate /\ delegate'[i] = delegate[i]
                   \/ /\ i = Len(delegate) + 1 /\ delegate'[i].dev = q
                      /\ \/ delegate'[i].req = NoReq /\ delegate'[i].ev # "CharacteristicWritten"
                         \/ /\ n = 1 /\ cb[q].att # <<>>
                            /\ Reports(Head(cb[q].att), q, delegate'[i])
                            /\ Truly(Head(cb[q].att), delegate'[i]) \/ cb'[q].failed
             /\ \A j \in DOMAIN cb'[q].att :
                   \/ cb'[q].att[j].req = NoReq
                   \/ j + n \in DOMAIN cb[q].att /\ cb'[q].att[j] = cb[q].att[j + n]
             /\ \A d \in Device \ {q} : cb'[d].att = cb[d].att
  <1>0. cb \in CbType /\ cb[q].att \in Seq(AttOps)
    BY DEF TypeOK, DelegateTypeOK, CbType
  <1> DEFINE Kept(n) == \A j \in DOMAIN cb'[q].att :
                           \/ cb'[q].att[j].req = NoReq
                           \/ j + n \in DOMAIN cb[q].att /\ cb'[q].att[j] = cb[q].att[j + n]
             Others == \A d \in Device \ {q} : cb'[d].att = cb[d].att
             New(i, n) == /\ i = Len(delegate) + 1 /\ delegate'[i].dev = q
                          /\ \/ delegate'[i].req = NoReq /\ delegate'[i].ev # "CharacteristicWritten"
                             \/ /\ n = 1 /\ cb[q].att # <<>>
                                /\ Reports(Head(cb[q].att), q, delegate'[i])
                                /\ Truly(Head(cb[q].att), delegate'[i]) \/ cb'[q].failed
             Old(i) == i \in DOMAIN delegate /\ delegate'[i] = delegate[i]
  <1>1. ASSUME NEW e \in CentralDelegateEvent, Send(e), NEW i \in DOMAIN delegate'
        PROVE  Old(i) \/ (i = Len(delegate) + 1 /\ delegate'[i] = e)
    BY <1>1, SentEvents
  <1>2. ASSUME NEW more \in Seq(AttOps), Finishes(q, more), \A j \in DOMAIN more : more[j].req = NoReq
        PROVE  Kept(1) /\ Others
    <2>1. \A j \in DOMAIN cb'[q].att :
             \/ j + 1 \in DOMAIN cb[q].att /\ cb'[q].att[j] = cb[q].att[j + 1]
             \/ j - (Len(cb[q].att) - 1) \in DOMAIN more
                /\ cb'[q].att[j] = more[j - (Len(cb[q].att) - 1)]
      BY <1>2, RestOfAtt
    <2> QED BY <1>2, <2>1 DEF Finishes
  <1>3. ASSUME cb'[q].att = cb[q].att
        PROVE  Kept(0)
    <2>1. DOMAIN cb[q].att \subseteq Nat
      BY <1>0
    <2> QED BY <1>3, <2>1
  <1>4. CASE Reported(q)
    <2>1. PICK more \in Seq(AttOps), e \in CentralDelegateEvent :
             /\ Finishes(q, more)
             /\ Send(e) /\ Reports(Head(cb[q].att), q, e)
             /\ \A j \in DOMAIN more : more[j].req = NoReq
             /\ Truly(Head(cb[q].att), e) \/ cb'[q].failed
      BY <1>4 DEF Reported
    <2>2. Kept(1) /\ Others
      BY <1>2, <2>1
    <2>3. cb[q].att # <<>> /\ e.dev = q
      BY <2>1 DEF Finishes, Reports
    <2>4. ASSUME NEW i \in DOMAIN delegate'
          PROVE  Old(i) \/ New(i, 1)
      BY <1>1, <2>1, <2>3
    <2> HIDE DEF Kept, Others, Old, New
    <2>5. 1 \in {0, 1}
      OBVIOUS
    <2> QED BY <2>2, <2>4, <2>5 DEF Kept, Others, Old, New
  <1>5. CASE Silent(q)
    <2>1. PICK more \in Seq(AttOps) :
             /\ Finishes(q, more) /\ delegate' = delegate
             /\ \A j \in DOMAIN more : more[j].req = NoReq
      BY <1>5 DEF Silent
    <2>2. Kept(1) /\ Others
      BY <1>2, <2>1
    <2>3. \A i \in DOMAIN delegate' : Old(i)
      BY <2>1
    <2> QED BY <2>2, <2>3
  <1>6. CASE Unasked(q)
    <2>1. PICK e \in CentralDelegateEvent :
             Send(e) /\ e.dev = q /\ e.req = NoReq /\ e.ev \in {"DiscoveredPeripheral", "CharacteristicNotified"}
      BY <1>6 DEF Unasked
    <2>2. Kept(0) /\ Others
      BY <1>3, <1>6 DEF Unasked
    <2>3. \A i \in DOMAIN delegate' : Old(i) \/ New(i, 0)
      BY <1>1, <2>1
    <2> QED BY <2>2, <2>3
  <1>7. ASSUME NEW v \in DeviceEvent, Send(Event(v, q, NoAttr, NoReq)), Kept(0), Others
        PROVE  /\ Kept(0) /\ Others
               /\ \A i \in DOMAIN delegate' : Old(i) \/ New(i, 0)
    <2> DEFINE e == Event(v, q, NoAttr, NoReq)
    <2>1. e \in CentralDelegateEvent
      BY EventTypes
    <2>2. e.dev = q /\ e.req = NoReq /\ e.ev # "CharacteristicWritten"
      BY DEF Event, DeviceEvent
    <2> HIDE DEF e
    <2>3. Send(e)
      BY <1>7 DEF e
    <2> QED BY <1>1, <1>7, <2>1, <2>2, <2>3
  <1>8. CASE DidConnectPeripheral(q)
    <2> DEFINE x == AttOp("services", NoAttr, NoReq)
               s == cb[q].att
               t == cb'[q].att
    <2>1. t = Append(s, x) /\ Others
      BY <1>0, <1>8 DEF DidConnectPeripheral, CbType
    <2>2. x \in AttOps /\ x.req = NoReq
      BY AttOpTypes DEF AttOp
    <2>3. s \in Seq(AttOps)
      BY <1>0
    <2> HIDE DEF x, s, t
    <2>4. \A j \in DOMAIN t : t[j] = x \/ (j \in DOMAIN s /\ t[j] = s[j])
      BY <2>1, <2>2, <2>3, AppendHas
    <2>5. DOMAIN s \subseteq Nat
      BY <2>3
    <2>6. Kept(0)
      BY <2>2, <2>4, <2>5 DEF s, t
    <2> QED BY <1>7, <1>8, <2>1, <2>6 DEF DidConnectPeripheral, DeviceEvent
  <1>9. CASE DidFailToConnectPeripheral(q)
    <2>1. \A d \in Device : cb'[d].att = cb[d].att
      BY <1>0, <1>9 DEF DidFailToConnectPeripheral, CbType
    <2> QED BY <1>3, <1>7, <1>9, <2>1 DEF DidFailToConnectPeripheral, DeviceEvent
  <1>10. CASE DidDisconnectPeripheral(q)
    <2>1. cb'[q].att = <<>> /\ Others
      BY <1>0, <1>10 DEF DidDisconnectPeripheral, CbType, Unplugged
    <2>2. Kept(0)
      BY <2>1
    <2> QED BY <1>7, <1>10, <2>1, <2>2 DEF DidDisconnectPeripheral, DeviceEvent
  <1> QED BY <1>4, <1>5, <1>6, <1>7, <1>8, <1>9, <1>10 DEF CallbackShapes

\* A handler takes the first event off the channel, or all of them.
LEMMA EventsTaken ==
    ASSUME TypeOK, EventForms
    PROVE  /\ cb' = cb
           /\ \A i \in DOMAIN delegate' :
                 i \in Nat /\ i + 1 \in DOMAIN delegate /\ delegate'[i] = delegate[i + 1]
  <1>1. cb' = cb
    BY HandlerTakes
  <1>2. CASE \E why : Panic(why)
    <2>1. delegate' = <<>>
      BY <1>2 DEF Panic
    <2> QED BY <1>1, <2>1
  <1>3. CASE Occurs(Head(delegate).ev) /\ Consume
    BY <1>1, <1>3, TailEvents
  <1> QED BY <1>2, <1>3, HandlerTakes

\* Only a new request comes behind what is in the pipeline, and nothing overtakes.
LEMMA BeforeStep ==
    ASSUME TypeOK, [Next]_vars, NEW d \in Device, NEW x \in Req, NEW y \in Req, Before(d, x, y)'
    PROVE  Before(d, x, y) \/ (RequestOnAttribute(y) /\ ask[y].dev = d /\ Pending(x))
  <1>0. /\ cb[d].att \in Seq(AttOps) /\ delegate \in Seq(CentralDelegateEvent)
        /\ DOMAIN cb[d].att = 1..Len(cb[d].att) /\ Len(cb[d].att) \in Nat
        /\ DOMAIN delegate = 1..Len(delegate) /\ Len(delegate) \in Nat
        /\ DOMAIN cb'[d].att \subseteq Nat \ {0} /\ DOMAIN delegate' \subseteq Nat
    <2>1. TypeOK'
      BY StepType
    <2> QED BY <2>1 DEF TypeOK, DelegateTypeOK
  <1>1. CASE \E q \in Device : CallbackShapes(q)
    <2>1. PICK q \in Device : CallbackShapes(q)
      BY <1>1
    <2>2. PICK n \in {0, 1} :
             /\ \A i \in DOMAIN delegate' :
                   \/ i \in DOMAIN delegate /\ delegate'[i] = delegate[i]
                   \/ /\ i = Len(delegate) + 1 /\ delegate'[i].dev = q
                      /\ \/ delegate'[i].req = NoReq
                         \/ /\ n = 1 /\ cb[q].att # <<>>
                            /\ Reports(Head(cb[q].att), q, delegate'[i])
             /\ \A j \in DOMAIN cb'[q].att :
                   \/ cb'[q].att[j].req = NoReq
                   \/ j + n \in DOMAIN cb[q].att /\ cb'[q].att[j] = cb[q].att[j + n]
             /\ \A c \in Device \ {q} : cb'[c].att = cb[c].att
      BY <2>1, TagsCallback
    <2>3. x # NoReq /\ y # NoReq
      BY DelegateAssumption
    <2>4. ASSUME NEW i \in DOMAIN delegate', NEW z \in {x, y},
                 delegate'[i].dev = d, delegate'[i].req = z
          PROVE  \/ i \in DOMAIN delegate /\ delegate'[i] = delegate[i]
                 \/ /\ i = Len(delegate) + 1 /\ d = q /\ n = 1
                    /\ 1 \in DOMAIN cb[d].att /\ cb[d].att[1].req = z
      BY <1>0, <2>2, <2>3, <2>4 DEF Reports
    <2>5. ASSUME NEW j \in DOMAIN cb'[d].att, NEW z \in {x, y}, cb'[d].att[j].req = z
          PROVE  \/ j \in DOMAIN cb[d].att /\ cb[d].att[j].req = z /\ (d # q \/ n = 0)
                 \/ /\ d = q /\ n = 1
                    /\ j + 1 \in DOMAIN cb[d].att /\ cb[d].att[j + 1].req = z
      <3>0. j \in Nat
        BY <1>0
      <3>1. CASE d # q
        BY <2>2, <2>5, <3>1
      <3>2. CASE d = q /\ n = 0
        <4>1. j + 0 = j
          BY <3>0
        <4> QED BY <2>2, <2>3, <2>5, <3>2, <4>1
      <3>3. CASE d = q /\ n = 1
        BY <2>2, <2>3, <2>5, <3>3
      <3> QED BY <3>1, <3>2, <3>3
    <2>6. ASSUME NEW i \in DOMAIN delegate', NEW j \in DOMAIN delegate', i < j,
                 delegate'[i].dev = d, delegate'[j].dev = d,
                 delegate'[i].req = x, delegate'[j].req = y
          PROVE  Before(d, x, y)
      <3>1. i \in DOMAIN delegate /\ delegate'[i] = delegate[i]
        <4>1. j \in DOMAIN delegate \/ j = Len(delegate) + 1
          BY <2>2
        <4>2. i # Len(delegate) + 1
          BY <1>0, <2>6, <4>1
        <4> QED BY <2>4, <2>6, <4>2
      <3>2. CASE j \in DOMAIN delegate /\ delegate'[j] = delegate[j]
        BY <2>6, <3>1, <3>2 DEF Before
      <3>3. CASE 1 \in DOMAIN cb[d].att /\ cb[d].att[1].req = y
        BY <2>6, <3>1, <3>3 DEF Before
      <3> QED BY <2>4, <2>6, <3>2, <3>3
    <2>7. ASSUME NEW i \in DOMAIN delegate', NEW j \in DOMAIN cb'[d].att,
                 delegate'[i].dev = d, delegate'[i].req = x, cb'[d].att[j].req = y
          PROVE  Before(d, x, y)
      <3>1. PICK l \in DOMAIN cb[d].att :
               /\ cb[d].att[l].req = y
               /\ d = q /\ n = 1 => l = j + 1
        BY <2>5, <2>7
      <3>2. CASE i \in DOMAIN delegate /\ delegate'[i] = delegate[i]
        BY <2>7, <3>1, <3>2 DEF Before
      <3>3. CASE d = q /\ n = 1 /\ 1 \in DOMAIN cb[d].att /\ cb[d].att[1].req = x
        <4>1. 1 < l
          BY <1>0, <3>1, <3>3
        <4> QED BY <3>1, <3>3, <4>1 DEF Before
      <3> QED BY <2>4, <2>7, <3>2, <3>3
    <2>8. ASSUME NEW i \in DOMAIN cb'[d].att, NEW j \in DOMAIN cb'[d].att, i < j,
                 cb'[d].att[i].req = x, cb'[d].att[j].req = y
          PROVE  Before(d, x, y)
      <3>1. CASE d # q \/ n = 0
        <4>1. /\ i \in DOMAIN cb[d].att /\ cb[d].att[i].req = x
              /\ j \in DOMAIN cb[d].att /\ cb[d].att[j].req = y
          BY <2>5, <2>8, <3>1
        <4> QED BY <2>8, <4>1 DEF Before
      <3>2. CASE d = q /\ n = 1
        <4>1. /\ i + 1 \in DOMAIN cb[d].att /\ cb[d].att[i + 1].req = x
              /\ j + 1 \in DOMAIN cb[d].att /\ cb[d].att[j + 1].req = y
          BY <2>5, <2>8, <3>2
        <4>2. i + 1 < j + 1
          BY <1>0, <2>8
        <4> QED BY <4>1, <4>2 DEF Before
      <3> QED BY <3>1, <3>2
    <2> QED BY <2>6, <2>7, <2>8 DEF Before
  <1>2. CASE HandleMessage
    <2>0. delegate' = delegate
      BY <1>2, MessageAdds
    <2>1. CASE cb'[d].att = cb[d].att
      BY <2>0, <2>1 DEF Before
    <2>2. ASSUME NEW r \in Req, RequestOnAttribute(r), ask[r].dev = d, OwnOp(r) \in AttOps,
                 cb'[d].att = Append(cb[d].att, OwnOp(r))
          PROVE  Before(d, x, y) \/ (y = r /\ Pending(x))
      <3> DEFINE s == cb[d].att
                 t == cb'[d].att
                 o == OwnOp(r)
                 n == Len(cb[d].att)
      <3>1. s \in Seq(AttOps) /\ o \in AttOps /\ t = Append(s, o) /\ o.req = r
        BY <1>0, <2>2 DEF OwnOp, AttOp
      <3>2. \A j \in DOMAIN t : \/ j = n + 1 /\ t[j] = o
                                \/ j \in DOMAIN s /\ t[j] = s[j]
        BY <3>1
      <3>3. n \in Nat /\ DOMAIN s = 1..n
        BY <1>0
      <3> HIDE DEF s, t, o, n
      <3>4. ASSUME NEW j \in DOMAIN t, t[j].req = y, y # r
            PROVE  j \in DOMAIN s /\ t[j] = s[j]
        BY <3>1, <3>2, <3>4
      <3>5. ASSUME NEW i \in DOMAIN t, NEW j \in DOMAIN t, i < j
            PROVE  i \in DOMAIN s /\ t[i] = s[i]
        BY <3>2, <3>3, <3>5
      <3>6. CASE y # r
        BY <2>0, <3>4, <3>5, <3>6 DEF Before, s, t
      <3>7. CASE y = r
        BY <2>0, <3>5, <3>7 DEF Before, Pending, s, t
      <3> QED BY <3>6, <3>7
    <2> QED BY <1>2, <2>1, <2>2, MessageAdds
  <1>3. CASE EventForms
    <2>1. /\ cb' = cb
          /\ \A i \in DOMAIN delegate' :
                i \in Nat /\ i + 1 \in DOMAIN delegate /\ delegate'[i] = delegate[i + 1]
      BY <1>3, EventsTaken
    <2>2. \A i, j \in DOMAIN delegate' : i < j => i + 1 < j + 1
      BY <2>1
    <2> QED BY <2>1, <2>2 DEF Before
  <1>4. CASE UNCHANGED <<cb, delegate>>
    BY <1>4 DEF Before
  <1> QED BY <1>1, <1>2, <1>3, <1>4, StepForm

\* Nor does anything else enter the pipeline.
LEMMA PendingStep ==
    ASSUME TypeOK, [Next]_vars, NEW x \in Req, Pending(x)'
    PROVE  Pending(x) \/ RequestOnAttribute(x)
  <1>0. x # NoReq
    BY DelegateAssumption
  <1>1. CASE \E q \in Device : CallbackShapes(q)
    <2>1. PICK q \in Device : CallbackShapes(q)
      BY <1>1
    <2>2. PICK n \in {0, 1} :
             /\ \A i \in DOMAIN delegate' :
                   \/ i \in DOMAIN delegate /\ delegate'[i] = delegate[i]
                   \/ delegate'[i].req = NoReq
                   \/ cb[q].att # <<>> /\ Reports(Head(cb[q].att), q, delegate'[i])
             /\ \A j \in DOMAIN cb'[q].att :
                   \/ cb'[q].att[j].req = NoReq
                   \/ j + n \in DOMAIN cb[q].att /\ cb'[q].att[j] = cb[q].att[j + n]
             /\ \A c \in Device \ {q} : cb'[c].att = cb[c].att
      BY <2>1, TagsCallback
    <2>3. cb[q].att # <<>> => 1 \in DOMAIN cb[q].att /\ Head(cb[q].att) = cb[q].att[1]
      BY DEF TypeOK, DelegateTypeOK
    <2>4. ASSUME NEW i \in DOMAIN delegate', delegate'[i].req = x
          PROVE  Pending(x)
      BY <1>0, <2>2, <2>3, <2>4 DEF Pending, Reports
    <2>5. ASSUME NEW d \in Device, NEW j \in DOMAIN cb'[d].att, cb'[d].att[j].req = x
          PROVE  Pending(x)
      BY <1>0, <2>2, <2>5 DEF Pending
    <2> QED BY <2>4, <2>5 DEF Pending
  <1>2. CASE HandleMessage
    <2>1. delegate' = delegate
      BY <1>2, MessageAdds
    <2>2. ASSUME NEW d \in Device, NEW j \in DOMAIN cb'[d].att, cb'[d].att[j].req = x
          PROVE  Pending(x) \/ RequestOnAttribute(x)
      <3>1. CASE cb'[d].att = cb[d].att
        BY <2>2, <3>1 DEF Pending
      <3>2. ASSUME NEW r \in Req, RequestOnAttribute(r), OwnOp(r) \in AttOps,
                   cb'[d].att = Append(cb[d].att, OwnOp(r))
            PROVE  Pending(x) \/ r = x
        <4> DEFINE s == cb[d].att
                   t == cb'[d].att
                   o == OwnOp(r)
        <4>1. s \in Seq(AttOps) /\ o \in AttOps /\ t = Append(s, o) /\ o.req = r
          BY <3>2 DEF OwnOp, AttOp, TypeOK, DelegateTypeOK
        <4>2. j \in DOMAIN t /\ t[j].req = x
          BY <2>2
        <4> HIDE DEF s, t, o
        <4>3. t[j] = o \/ (j \in DOMAIN s /\ t[j] = s[j])
          BY <4>1, <4>2, AppendHas
        <4> QED BY <4>1, <4>2, <4>3 DEF Pending, s
      <3> QED BY <1>2, <3>1, <3>2, MessageAdds
    <2> QED BY <2>1, <2>2 DEF Pending
  <1>3. CASE EventForms
    BY <1>3, EventsTaken DEF Pending
  <1>4. CASE UNCHANGED <<cb, delegate>>
    BY <1>4 DEF Pending
  <1> QED BY <1>1, <1>2, <1>3, <1>4, StepForm

\* What is in the pipeline has been taken from the channel.
LEMMA PendingConsumed ==
    ASSUME TypeOK, AttTags, EventTags, NEW x \in Req, Pending(x)
    PROVE  Consumed(x)
BY DEF AttTags, EventTags, Pending

\* A request is in the channel when it is handled, and not in the pipeline.
LEMMA RequestIsNew ==
    ASSUME IInv, AttTags, EventTags, NEW x \in Req,
           RequestOnAttribute(x) \/ WriteWithoutResponse(x)
    PROVE  st[x] = "sent" /\ ~ Consumed(x) /\ ~ Pending(x)
  <1>1. st[x] = "sent"
    BY Received DEF RequestOnAttribute, WriteWithoutResponse
  <1> QED BY <1>1, PendingConsumed DEF IInv, Consumed

\* The tags of the framework's operations are right.
LEMMA AttTagsStep ==
    ASSUME IInv, AttTags, [Next]_vars
    PROVE  AttTags'
  <1>0. TypeOK /\ ask' = ask /\ \A q \in Req : Consumed(q) => Consumed(q)'
    BY ConsumedStays DEF IInv
  <1> SUFFICES ASSUME NEW d \in Device, NEW j \in DOMAIN cb'[d].att, NEW x \in Req,
                      cb'[d].att[j].req = x
               PROVE  cb'[d].att[j] = OwnOp(x) /\ ask[x].dev = d /\ Consumed(x)'
    BY <1>0 DEF AttTags, Consumed, OwnOp, OpOf
  <1>2. ASSUME NEW l \in DOMAIN cb[d].att, cb[d].att[l] = cb'[d].att[j]
        PROVE  cb'[d].att[j] = OwnOp(x) /\ ask[x].dev = d /\ Consumed(x)'
    <2>1. cb[d].att[l] = OwnOp(x) /\ ask[x].dev = d /\ Consumed(x)
      BY <1>2 DEF AttTags
    <2> QED BY <1>0, <1>2, <2>1
  <1>3. CASE \E q \in Device : CallbackShapes(q)
    <2>1. PICK q \in Device : CallbackShapes(q)
      BY <1>3
    <2>2. PICK n \in {0, 1} :
             /\ \A l \in DOMAIN cb'[q].att :
                   \/ cb'[q].att[l].req = NoReq
                   \/ l + n \in DOMAIN cb[q].att /\ cb'[q].att[l] = cb[q].att[l + n]
             /\ \A c \in Device \ {q} : cb'[c].att = cb[c].att
      BY <1>0, <2>1, TagsCallback
    <2>3. \E l \in DOMAIN cb[d].att : cb[d].att[l] = cb'[d].att[j]
      <3>1. cb'[d].att[j].req # NoReq
        BY DelegateAssumption
      <3>2. CASE d = q
        <4>1. j + n \in DOMAIN cb[d].att /\ cb'[d].att[j] = cb[d].att[j + n]
          BY <2>2, <3>1, <3>2
        <4> QED BY <4>1
      <3>3. CASE d # q
        BY <2>2, <3>3
      <3> QED BY <3>2, <3>3
    <2> QED BY <1>2, <2>3
  <1>4. CASE HandleMessage
    <2>1. CASE cb'[d].att = cb[d].att
      BY <1>2, <2>1
    <2>2. ASSUME NEW r \in Req, RequestOnAttribute(r), ask[r].dev = d, OwnOp(r) \in AttOps,
                 cb'[d].att = Append(cb[d].att, OwnOp(r))
          PROVE  cb'[d].att[j] = OwnOp(x) /\ ask[x].dev = d /\ Consumed(x)'
      <3>1. Consumed(r)'
        BY <1>0, <2>2 DEF RequestOnAttribute, Consumed, TypeOK
      <3> DEFINE s == cb[d].att
                 t == cb'[d].att
                 o == OwnOp(r)
      <3>2. s \in Seq(AttOps) /\ o \in AttOps /\ t = Append(s, o)
        BY <1>0, <2>2 DEF TypeOK, DelegateTypeOK
      <3>3. j \in DOMAIN t
        OBVIOUS
      <3> HIDE DEF s, t, o
      <3>4. t[j] = o \/ (j \in DOMAIN s /\ t[j] = s[j])
        BY <3>2, <3>3, AppendHas
      <3>5. CASE t[j] = o
        <4>1. cb'[d].att[j] = OwnOp(r) /\ OwnOp(r).req = r
          BY <3>5 DEF t, o, OwnOp, AttOp
        <4> QED BY <2>2, <3>1, <4>1
      <3>6. CASE j \in DOMAIN s /\ t[j] = s[j]
        BY <1>2, <3>6 DEF s, t
      <3> QED BY <3>4, <3>5, <3>6
    <2> QED BY <1>0, <1>4, <2>1, <2>2, MessageAdds
  <1>5. CASE EventForms
    BY <1>0, <1>2, <1>5, EventsTaken
  <1>6. CASE UNCHANGED <<cb, delegate>>
    BY <1>2, <1>6
  <1> QED BY <1>0, <1>3, <1>4, <1>5, <1>6, StepForm

\* The tags of the events are right, and so is what they say unless something went wrong.
LEMMA EventTagsStep ==
    ASSUME IInv, AttTags, EventTags, [Next]_vars
    PROVE  EventTags'
  <1>0. TypeOK /\ ask' = ask /\ \A q \in Req : Consumed(q) => Consumed(q)'
    BY ConsumedStays DEF IInv
  <1> SUFFICES ASSUME NEW i \in DOMAIN delegate', NEW e, e = delegate'[i], NEW c \in Device, c = e.dev
               PROVE  /\ e.req \in Req =>
                            /\ Consumed(e.req)'
                            /\ Reports(OwnOp(e.req), ask[e.req].dev, e)
                            /\ Truly(OwnOp(e.req), e) \/ Broken(i, c)'
                      /\ e.ev = "CharacteristicWritten" => e.req \in Req
    <2>1. \A l \in DOMAIN delegate' : delegate'[l].dev \in Device
      <3>1. TypeOK'
        BY <1>0, StepType
      <3> QED BY <3>1 DEF TypeOK, DelegateTypeOK, CentralDelegateEvent
    <2> QED BY <1>0, <2>1 DEF EventTags, Consumed, Broken, Over, OwnOp, OpOf
  <1> DEFINE Right == /\ e.req \in Req =>
                            /\ Consumed(e.req)'
                            /\ Reports(OwnOp(e.req), ask[e.req].dev, e)
                            /\ Truly(OwnOp(e.req), e) \/ Broken(i, c)'
                      /\ e.ev = "CharacteristicWritten" => e.req \in Req
  <1>3. /\ delegate \in Seq(CentralDelegateEvent) /\ Len(delegate) \in Nat
        /\ DOMAIN delegate = 1..Len(delegate)
    BY <1>0 DEF TypeOK, DelegateTypeOK
  <1>4. ASSUME NEW l \in DOMAIN delegate, delegate[l] = e, Broken(l, c) => Broken(i, c)'
        PROVE  Right
    <2>1. /\ e.req \in Req =>
                /\ Consumed(e.req)
                /\ Reports(OwnOp(e.req), ask[e.req].dev, e)
                /\ Truly(OwnOp(e.req), e) \/ Broken(l, c)
          /\ e.ev = "CharacteristicWritten" => e.req \in Req
      BY <1>4 DEF EventTags
    <2> QED BY <1>0, <1>4, <2>1
  <1>5. CASE \E q \in Device : CallbackShapes(q)
    <2>1. PICK q \in Device : CallbackShapes(q)
      BY <1>5
    <2>2. \/ i \in DOMAIN delegate /\ delegate'[i] = delegate[i]
          \/ /\ i = Len(delegate) + 1 /\ delegate'[i].dev = q
             /\ \/ delegate'[i].req = NoReq /\ delegate'[i].ev # "CharacteristicWritten"
                \/ /\ cb[q].att # <<>>
                   /\ Reports(Head(cb[q].att), q, delegate'[i])
                   /\ Truly(Head(cb[q].att), delegate'[i]) \/ cb'[q].failed
      BY <1>0, <2>1, TagsCallback
    <2>3. CASE i \in DOMAIN delegate /\ delegate'[i] = delegate[i]
      <3>1. i \in 0..Len(delegate)
        BY <1>3, <2>3
      <3>2. Broken(i, c) => Broken(i, c)'
        BY <1>0, <2>1, <3>1, LaterCallback
      <3> QED BY <1>4, <2>3, <3>2
    <2>4. CASE delegate'[i].req = NoReq /\ delegate'[i].ev # "CharacteristicWritten"
      BY <2>4, DelegateAssumption
    <2>5. CASE /\ cb[q].att # <<>> /\ delegate'[i].dev = q
               /\ Reports(Head(cb[q].att), q, delegate'[i])
               /\ Truly(Head(cb[q].att), delegate'[i]) \/ cb'[q].failed
      <3> DEFINE o == Head(cb[q].att)
      <3>1. o \in AttOps /\ 1 \in DOMAIN cb[q].att /\ o = cb[q].att[1]
        BY <1>0, <2>5 DEF TypeOK, DelegateTypeOK
      <3>2. o.req \in Req => o = OwnOp(o.req) /\ ask[o.req].dev = q /\ Consumed(o.req)
        BY <3>1 DEF AttTags
      <3>3. e.req = o.req /\ Reports(o, q, e) /\ (Truly(o, e) \/ cb'[q].failed)
        BY <2>5 DEF Reports
      <3>4. e.ev = "CharacteristicWritten" => o.req \in Req
        <4>1. e.ev = "CharacteristicWritten" => o.op = "write"
          BY <3>3 DEF Reports
        <4> QED BY <3>1, <4>1, AttOpsByOp DEF CharOp
      <3>5. c = q /\ (cb'[q].failed => Broken(i, c)')
        BY <2>5 DEF Broken
      <3> HIDE DEF o
      <3> QED BY <1>0, <3>2, <3>3, <3>4, <3>5
    <2> QED BY <2>2, <2>3, <2>4, <2>5
  <1>6. CASE HandleMessage
    <2>1. delegate' = delegate /\ (cb' = cb \/ \E q \in Device : Requests(q))
      BY <1>0, <1>6, MessageForm
    <2>2. i \in DOMAIN delegate /\ delegate[i] = e
      BY <2>1
    <2>3. Broken(i, c) => Broken(i, c)'
      <3>1. CASE cb' = cb
        BY <2>1, <3>1 DEF Broken, Over
      <3>2. CASE \E q \in Device : Requests(q)
        BY <1>0, <2>1, <2>2, <3>2, LaterRequest
      <3> QED BY <2>1, <3>1, <3>2
    <2> QED BY <1>4, <2>2, <2>3
  <1>7. CASE EventForms
    <2>1. /\ cb' = cb /\ i \in Nat /\ i + 1 \in DOMAIN delegate
          /\ e = delegate[i + 1]
      BY <1>0, <1>7, EventsTaken
    <2>2. Occurs(Head(delegate).ev) /\ Consume
      <3>1. (\E why : Panic(why)) => delegate' = <<>>
        BY DEF Panic
      <3> QED BY <1>0, <1>7, <3>1, HandlerTakes
    <2>3. Broken(i + 1, c) => Broken(i, c)'
      BY <1>0, <2>1, <2>2, LaterTail DEF Broken
    <2> QED BY <1>4, <2>1, <2>3
  <1>8. CASE UNCHANGED <<cb, delegate>>
    <2>1. Broken(i, c) => Broken(i, c)'
      BY <1>8 DEF Broken, Over
    <2> QED BY <1>4, <1>8, <2>1
  <1> QED BY <1>0, <1>5, <1>6, <1>7, <1>8, StepForm

\* No operation is in the pipeline twice.
LEMMA OnceStep ==
    ASSUME IInv, AttTags, EventTags, Once, [Next]_vars
    PROVE  Once'
  <1> SUFFICES ASSUME NEW d \in Device, NEW x \in Req, Before(d, x, x)'
               PROVE  FALSE
    BY DEF Once
  <1>1. RequestOnAttribute(x) /\ Pending(x)
    BY BeforeStep DEF Once, IInv
  <1> QED BY <1>1, RequestIsNew

\* What a step may make of the reply of a call.
LEMMA ReplyStep ==
    ASSUME IInv, [Next]_vars, NEW r \in Req
    PROVE  \/ reply'[r] = reply[r]
           \/ reply'[r].src = NoReq /\ (reply'[r].kind = "Ok" => OpOf(r) = "disconnect")
           \/ /\ WriteWithoutResponse(r) /\ OpOf(r) = "write_without_response"
              /\ st'[r] = "answered" /\ reply'[r].src = r
           \/ \E k \in Slot, kind \in {"Ok", "ReadResult"} :
                 /\ Fulfilled(k, kind) /\ r = Head(future_state[k])
                 /\ reply'[r].src = Head(delegate).req /\ reply'[r].kind = kind
  <1>0. TypeOK /\ NoReq \notin Req
    BY DelegateAssumption DEF IInv
  <1>1. ASSUME NEW q, NEW rep, NEW S, Settle(q, rep, S)
        PROVE  /\ r # q => reply'[r] = reply[r]
               /\ r = q => st'[r] = "answered" /\ reply'[r] \in {rep, Twice}
    BY <1>1 DEF Settle
  <1>2. Twice.src = NoReq /\ Twice.kind # "Ok"
    BY DEF Twice, Reply
  <1>3. \A v \in {"State(Connected)", "State(_)"} : Reply(v, NoReq, {}).src = NoReq /\ Reply(v, NoReq, {}).kind # "Ok"
    BY DEF Reply
  <1>4. CASE HandleMessage
    <2>1. CASE Scan
      BY <2>1 DEF Scan
    <2>2. ASSUME NEW q \in Req, RequestOnAttribute(q) \/ ConnectPeripheral(q) \/ DisconnectPeripheral(q)
          PROVE  reply' = reply
      BY <2>2 DEF RequestOnAttribute, ConnectPeripheral, DisconnectPeripheral
    <2>3. ASSUME NEW q \in Req, WriteWithoutResponse(q)
          PROVE  \/ reply'[r] = reply[r]
                 \/ /\ WriteWithoutResponse(r) /\ OpOf(r) = "write_without_response"
                    /\ st'[r] = "answered" /\ reply'[r].src = r
      <3>1. CASE Settle(NoReq, NoReply, {q})
        BY <1>0, <1>1, <3>1
      <3>2. CASE Settle(q, Reply("Ok", q, {}), {})
        <4>1. CASE r # q
          BY <1>1, <3>2, <4>1
        <4>2. CASE r = q
          <5>1. reply[q] = NoReply /\ OpOf(q) = "write_without_response"
            BY <2>3, Received DEF WriteWithoutResponse
          <5>2. st'[r] = "answered" /\ reply'[r] = Reply("Ok", q, {})
            BY <3>2, <4>2, <5>1 DEF Settle
          <5> QED BY <2>3, <4>2, <5>1, <5>2 DEF Reply
        <4> QED BY <4>1, <4>2
      <3> QED BY <2>3, <3>1, <3>2 DEF WriteWithoutResponse
    <2>4. ASSUME NEW q \in Req, IsConnected(q)
          PROVE  \/ reply'[r] = reply[r]
                 \/ reply'[r].src = NoReq /\ reply'[r].kind # "Ok"
      <3>1. \/ Settle(NoReq, NoReply, {q})
            \/ \E v \in {"State(Connected)", "State(_)"} : Settle(q, Reply(v, NoReq, {}), {})
        BY <2>4 DEF IsConnected
      <3> QED BY <1>0, <1>1, <1>2, <1>3, <3>1
    <2> QED BY <1>4, <2>1, <2>2, <2>3, <2>4 DEF HandleMessage
  <1>5. CASE EventForms
    <2>1. CASE (\E why : Panic(why)) \/ (delegate # <<>> /\ Unheeded) \/ OnDiscoveredPeripheral
      BY <2>1 DEF Panic, Unheeded, Ignore, OnDiscoveredPeripheral
    <2>2. ASSUME NEW d, NEW t, NEW K, NEW check, Grows(d, t, K, check)
          PROVE  \/ reply'[r] = reply[r]
                 \/ reply'[r].src = NoReq /\ reply'[r].kind # "Ok"
      <3>1. \E q : Settle(q, Reply("Connected", NoReq, t.has), Held(K))
        BY <2>2 DEF Grows
      <3>2. LET rep == Reply("Connected", NoReq, t.has)
            IN  rep.src = NoReq /\ rep.kind # "Ok"
        BY DEF Reply
      <3> QED BY <1>1, <1>2, <3>1, <3>2
    <2>3. ASSUME NEW d, FoundServices(d) \/ (\E s : FoundChars(d, s)) \/ (\E c : FoundDescs(d, c))
          PROVE  \/ reply'[r] = reply[r]
                 \/ reply'[r].src = NoReq /\ reply'[r].kind # "Ok"
      BY <2>2, <2>3 DEF FoundServices, FoundChars, FoundDescs
    <2>4. ASSUME NEW d, ReportsFailure(d)
          PROVE  \/ reply'[r] = reply[r]
                 \/ reply'[r].src = NoReq /\ reply'[r].kind # "Ok"
      <3>1. \E q : Settle(q, Reply("Err", NoReq, {}), {})
        BY <2>4 DEF ReportsFailure
      <3>2. Reply("Err", NoReq, {}).src = NoReq /\ Reply("Err", NoReq, {}).kind # "Ok"
        BY DEF Reply
      <3> QED BY <1>1, <1>2, <3>1, <3>2
    <2>5. ASSUME NEW d \in Device, Forgets(d)
          PROVE  \/ reply'[r] = reply[r]
                 \/ reply'[r].src = NoReq /\ OpOf(r) = "disconnect"
      <3> DEFINE q == disconnected_future_state[d]
      <3>1. Settle(q, Reply("Ok", NoReq, {}), Held(SlotsOf(d, Attr)) \cup Slots({d}))
        BY <2>5 DEF Forgets
      <3>2. Reply("Ok", NoReq, {}).src = NoReq
        BY DEF Reply
      <3>3. r = q => OpOf(r) = "disconnect"
        BY <1>0, Placed
      <3> HIDE DEF q
      <3> QED BY <1>1, <1>2, <3>1, <3>2, <3>3
    <2>6. ASSUME NEW k \in Slot, NEW kind \in {"Ok", "ReadResult"}, Fulfilled(k, kind)
          PROVE  \/ reply'[r] = reply[r]
                 \/ /\ r = Head(future_state[k])
                    /\ reply'[r].src = Head(delegate).req /\ reply'[r].kind = kind
      <3> DEFINE q == Head(future_state[k])
                 rep == Reply(kind, Head(delegate).req, {})
      <3>1. Settle(q, rep, {}) /\ future_state[k] # <<>>
        BY <2>6 DEF Fulfilled
      <3>2. q \in Req /\ reply[q] = NoReply
        <4>1. q \in Range(future_state[k])
          BY <1>0, <3>1, TailRange DEF TypeOK
        <4>2. q \in Req /\ st[q] = "held"
          BY <4>1, Placed
        <4> HIDE DEF q
        <4> QED BY <4>2 DEF IInv, ReplyFits
      <3>3. rep.src = Head(delegate).req /\ rep.kind = kind
        BY DEF Reply
      <3> HIDE DEF q, rep
      <3>4. r # q => reply'[r] = reply[r]
        BY <1>1, <3>1
      <3>5. r = q => reply'[r] = rep
        BY <3>1, <3>2 DEF Settle
      <3> QED BY <3>3, <3>4, <3>5 DEF q
    <2> QED BY <1>5, <2>1, <2>3, <2>4, <2>5, <2>6 DEF EventForms, LiveForms
  <1>6. CASE reply' = reply
    BY <1>6
  <1> QED BY <1>0, <1>4, <1>5, <1>6, StepForm DEF internalVars

\* An event answers from one queue.
LEMMA OneQueue ==
    ASSUME NEW k1, NEW k2, NEW v1, NEW v2, Fulfilled(k1, v1), Fulfilled(k2, v2)
    PROVE  k1 = k2
BY DEF Fulfilled, AnsweredFrom

\* The tag of an event that answers a call is no longer in the pipeline.
LEMMA AckLeaves ==
    ASSUME IInv, AttTags, EventTags, Once, NEW k, NEW kind, Fulfilled(k, kind),
           NEW x \in Req, Head(delegate).req = x
    PROVE  Pending(x) /\ Consumed(x) /\ ~ Pending(x)'
  <1>1. TypeOK /\ Occurs(Head(delegate).ev) /\ Consume /\ cb' = cb
    BY DEF IInv, Fulfilled
  <1>2. /\ Len(delegate) \in Nat \ {0} /\ DOMAIN delegate = 1..Len(delegate)
        /\ DOMAIN delegate' = 1..(Len(delegate) - 1)
        /\ \A i \in DOMAIN delegate' : delegate'[i] = delegate[i + 1]
        /\ Head(delegate) = delegate[1]
    BY <1>1, TailEvents
  <1>3. 1 \in DOMAIN delegate /\ delegate[1].req = x
    BY <1>2
  <1>4. Pending(x) /\ Consumed(x)
    BY <1>1, <1>3, PendingConsumed DEF Pending
  <1>5. \A i \in DOMAIN delegate : delegate[i].req = x => delegate[i].dev = ask[x].dev
    BY DEF EventTags, Reports
  <1>6. ask[x].dev \in Device
    BY <1>1, CallShape
  <1>7. ASSUME NEW i \in DOMAIN delegate', delegate'[i].req = x
        PROVE  FALSE
    <2>1. i + 1 \in DOMAIN delegate /\ 1 < i + 1 /\ delegate[i + 1].req = x
      BY <1>2, <1>7
    <2>2. Before(ask[x].dev, x, x)
      BY <1>3, <1>5, <2>1 DEF Before
    <2> QED BY <1>6, <2>2 DEF Once
  <1>8. ASSUME NEW d \in Device, NEW j \in DOMAIN cb[d].att, cb[d].att[j].req = x
        PROVE  FALSE
    <2>1. ask[x].dev = d
      BY <1>8 DEF AttTags
    <2>2. Before(d, x, x)
      BY <1>3, <1>5, <1>8, <2>1 DEF Before
    <2> QED BY <2>2 DEF Once
  <1> QED BY <1>1, <1>4, <1>7, <1>8 DEF Pending

\* What a reply was made from is over, and made no other reply.
LEMMA AckOnceStep ==
    ASSUME IInv, TagInv, [Next]_vars
    PROVE  AckOnce'
  <1>0. TypeOK /\ AttTags /\ EventTags /\ Once /\ AckOnce
        /\ \A q \in Req : Consumed(q) => Consumed(q)'
    BY ConsumedStays DEF IInv, TagInv
  <1> SUFFICES ASSUME NEW r \in Req, NEW x \in Req, reply'[r].src = x
               PROVE  /\ Consumed(x)' /\ ~ Pending(x)'
                      /\ \A q \in Req : reply'[q].src = x => q = r
    BY DEF AckOnce, Consumed, Pending
  <1>1. ASSUME NEW q \in Req, reply'[q].src = x
        PROVE  \/ reply[q].src = x
               \/ WriteWithoutResponse(q) /\ q = x /\ OpOf(q) = "write_without_response" /\ st'[q] = "answered"
               \/ \E k \in Slot, kind \in {"Ok", "ReadResult"} :
                     Fulfilled(k, kind) /\ q = Head(future_state[k]) /\ Head(delegate).req = x
    <2>1. reply'[q].src # NoReq
      BY <1>1, DelegateAssumption
    <2>2. \/ reply'[q] = reply[q]
          \/ WriteWithoutResponse(q) /\ OpOf(q) = "write_without_response" /\ st'[q] = "answered" /\ reply'[q].src = q
          \/ \E k \in Slot, kind \in {"Ok", "ReadResult"} :
                Fulfilled(k, kind) /\ q = Head(future_state[k]) /\ reply'[q].src = Head(delegate).req
      BY <2>1, ReplyStep
    <2> QED BY <1>1, <2>2
  <1>2. ASSUME NEW q \in Req, reply[q].src = x
        PROVE  Consumed(x) /\ ~ Pending(x) /\ \A p \in Req : reply[p].src = x => p = q
    BY <1>0, <1>2 DEF AckOnce
  <1>3. ASSUME WriteWithoutResponse(x)
        PROVE  ~ Consumed(x) /\ ~ Pending(x)
    BY <1>0, <1>3, RequestIsNew
  <1>4. ASSUME NEW k, NEW kind, Fulfilled(k, kind), Head(delegate).req = x
        PROVE  Pending(x) /\ Consumed(x) /\ ~ Pending(x)'
    BY <1>0, <1>4, AckLeaves
  <1>5. ~ Pending(x) /\ Pending(x)' => RequestOnAttribute(x)
    BY <1>0, PendingStep
  <1>6. RequestOnAttribute(x) => ~ Consumed(x) /\ OpOf(x) # "write_without_response"
    BY <1>0, RequestIsNew, OpsDiffer DEF RequestOnAttribute, Receive
  <1>7. CASE reply[r].src = x
    BY <1>0, <1>1, <1>2, <1>3, <1>4, <1>5, <1>6, <1>7
  <1>8. CASE WriteWithoutResponse(r) /\ r = x /\ OpOf(r) = "write_without_response" /\ st'[r] = "answered"
    <2>1. Consumed(x)'
      BY <1>8 DEF Consumed
    <2> QED BY <1>1, <1>2, <1>3, <1>4, <1>5, <1>6, <1>8, <2>1
  <1>9. CASE \E k \in Slot, kind \in {"Ok", "ReadResult"} :
                Fulfilled(k, kind) /\ r = Head(future_state[k]) /\ Head(delegate).req = x
    <2>1. PICK k \in Slot, kind \in {"Ok", "ReadResult"} :
             Fulfilled(k, kind) /\ r = Head(future_state[k]) /\ Head(delegate).req = x
      BY <1>9
    <2>2. Pending(x) /\ Consumed(x) /\ ~ Pending(x)'
      BY <1>4, <2>1
    <2> QED BY <1>0, <1>1, <1>2, <1>3, <2>1, <2>2, OneQueue
  <1> QED BY <1>1, <1>7, <1>8, <1>9

\* A write is acknowledged as one of its own queue.
LEMMA AckOfSlotStep ==
    ASSUME IInv, TagInv, [Next]_vars
    PROVE  AckOfSlot'
  <1>0. TypeOK /\ EventTags /\ AckOfSlot /\ ask' = ask
    BY ConsumedStays DEF IInv, TagInv
  <1>1. \A q : OpOf(q)' = OpOf(q) /\ SlotOf(q)' = SlotOf(q)
    BY <1>0 DEF OpOf, SlotOf
  <1> SUFFICES ASSUME NEW r \in Req, reply'[r].kind = "Ok", OpOf(r) \in {"write", "write_descriptor"}
               PROVE  \E x \in Req : reply'[r].src = x /\ SlotOf(x) = SlotOf(r)
    BY <1>0 DEF AckOfSlot, OpOf, SlotOf
  <1>2. CASE reply'[r] = reply[r]
    BY <1>0, <1>2 DEF AckOfSlot
  <1>3. ASSUME NEW k \in Slot, NEW kind \in {"Ok", "ReadResult"}, Fulfilled(k, kind),
               r = Head(future_state[k]), reply'[r].src = Head(delegate).req, kind = "Ok"
        PROVE  \E x \in Req : reply'[r].src = x /\ SlotOf(x) = SlotOf(r)
    <2> DEFINE e == Head(delegate)
               x == Head(delegate).req
    <2>1. Occurs(e.ev) /\ AnsweredFrom(e, k, "Ok") /\ future_state[k] # <<>>
      BY <1>3 DEF Fulfilled
    <2>2. SlotOf(r) = k
      <3>1. r \in Range(future_state[k])
        BY <1>0, <1>3, <2>1, TailRange DEF TypeOK
      <3> QED BY <3>1, Placed
    <2>3. OpOf(r) = k[2] /\ e \in CentralDelegateEvent /\ e = delegate[1] /\ 1 \in DOMAIN delegate
      BY <1>0, <2>1, <2>2, EventShape DEF SlotOf, Occurs, TypeOK, DelegateTypeOK
    <2>4. \/ e.ev = "CharacteristicWritten" /\ k = <<e.dev, "write", e.attr>>
          \/ e.ev = "DescriptorWritten" /\ k = <<e.dev, "write_descriptor", e.attr>>
      BY <2>1, <2>3 DEF AnsweredFrom
    <2>5. x \in Req
      <3>1. CASE e.ev = "CharacteristicWritten"
        BY <1>0, <2>3, <3>1 DEF EventTags
      <3>2. CASE e.ev = "DescriptorWritten"
        BY <2>3, <3>2 DEF CentralDelegateEvent, DeviceEvent, ServiceEvent, CharEvent, DescEvent
      <3> QED BY <2>4, <3>1, <3>2
    <2>6. Reports(OwnOp(x), ask[x].dev, e)
      BY <1>0, <2>3, <2>5 DEF EventTags
    <2>7. /\ e.dev = ask[x].dev /\ e.attr = ask[x].attr
          /\ e.ev = "CharacteristicWritten" => OpOf(x) = "write"
          /\ e.ev = "DescriptorWritten" => OpOf(x) = "write_descriptor"
      BY <2>6 DEF Reports, OwnOp, AttOp
    <2>8. SlotOf(x) = k
      BY <2>4, <2>7 DEF SlotOf
    <2> QED BY <1>3, <2>2, <2>5, <2>8
  <1> QED BY <1>2, <1>3, ReplyStep

\* At first nothing has a tag.
LEMMA TagInvStart == Init => TagInv
  <1> SUFFICES ASSUME Init
               PROVE  TagInv
    OBVIOUS
  <1>1. delegate = <<>> /\ \A d \in Device : cb[d].att = <<>>
    BY DEF Init, DelegateInit, Unplugged
  <1>2. \A r \in Req : reply[r].src = NoReq /\ reply[r].kind = "None"
    BY DEF Init, NoReply, Reply
  <1>3. AttTags /\ EventTags
    BY <1>1 DEF AttTags, EventTags
  <1>4. Once
    BY <1>1 DEF Once, Before
  <1>5. AckOnce /\ AckOfSlot
    BY <1>2, DelegateAssumption DEF AckOnce, AckOfSlot
  <1> QED BY <1>3, <1>4, <1>5 DEF TagInv

\* Every step keeps the tags right.
LEMMA TagInvStep == IInv /\ TagInv /\ [Next]_vars => TagInv'
BY AttTagsStep, EventTagsStep, OnceStep, AckOnceStep, AckOfSlotStep DEF TagInv

\* The invariant of the pipeline's tags.
THEOREM TagsRight == Spec => [](IInv /\ TagInv)
  <1>1. Init => IInv /\ TagInv
    BY InitPlaces, TagInvStart
  <1>2. IInv /\ TagInv /\ [Next]_vars => IInv' /\ TagInv'
    BY StepPlaces, TagInvStep
  <1> QED BY <1>1, <1>2, PTL DEF Spec

\* No two calls of a client live off one acknowledgement of a device, and a write that
\* succeeds has the acknowledgement of a write to the same attribute.
THEOREM EachItsAck == Spec => []OwnAck
  <1>1. IInv /\ TagInv => OwnAck
    <2> SUFFICES ASSUME IInv, TagInv
                 PROVE  OwnAck
      OBVIOUS
    <2>1. \A r \in Req : reply[r].src \in Req \cup {NoReq}
      BY DEF IInv, TypeOK
    <2> QED BY <2>1 DEF OwnAck, TagInv, AckOnce, AckOfSlot
  <1> QED BY <1>1, TagsRight, PTL

----------------------------------------------------------------------------
(* No other quiet deadlock. *)

\* A future is only queued at an attribute the thread knows.
QueueHas == \A k \in Slot : future_state[k] # <<>> => Has(k[1], k[3])

\* The link of d is up, or it is over and the thread will hear of it behind the i-th event.
LinkUp(i, d) == cb[d].link \in {"connected", "disconnecting"} \/ Over(i, d)

\* What was discovered was discovered on a link.
UpInv ==
    \A d \in Device :
        /\ tree[d].has # {} => LinkUp(0, d)
        /\ \A i \in DOMAIN delegate :
              delegate[i].dev = d /\ delegate[i].ev = "DiscoveredServices" => LinkUp(i, d)

\* The thread holds nothing of d.
Emptied(d) ==
    /\ tree[d] = NoTree /\ connected_future_state[d] = NoReq
    /\ \A k \in Slot : k[1] = d => future_state[k] = <<>>

\* What a step may make of a queue.
LEMMA QueueStep ==
    ASSUME TypeOK, [Next]_vars, NEW k \in Slot
    PROVE  \/ future_state'[k] = future_state[k] \/ future_state'[k] = <<>>
           \/ \E kind \in {"Ok", "ReadResult"} :
                 Fulfilled(k, kind) /\ future_state'[k] = Tail(future_state[k])
           \/ \E r \in Req :
                 /\ RequestOnAttribute(r) /\ SlotOf(r) = k /\ Has(k[1], k[3])
                 /\ future_state'[k] = Append(future_state[k], r)
  <1>0. future_state \in [Slot -> Seq(Req)]
    BY DEF TypeOK
  <1>1. CASE HandleMessage
    <2>1. CASE Scan
      BY <2>1 DEF Scan, futureVars
    <2>2. ASSUME NEW r \in Req, RequestOnAttribute(r)
          PROVE  \/ future_state'[k] = future_state[k]
                 \/ /\ SlotOf(r) = k /\ Has(k[1], k[3])
                    /\ future_state'[k] = Append(future_state[k], r)
      <3>1. CASE ~ Has(ask[r].dev, ask[r].attr)
        BY <2>2, <3>1 DEF RequestOnAttribute
      <3>2. CASE Has(ask[r].dev, ask[r].attr)
        <4>1. future_state' = [future_state EXCEPT ![SlotOf(r)] = Push(@, r)]
          BY <2>2, <3>2 DEF RequestOnAttribute
        <4>2. SlotOf(r)[1] = ask[r].dev /\ SlotOf(r)[3] = ask[r].attr
          BY DEF SlotOf
        <4> QED BY <1>0, <3>2, <4>1, <4>2 DEF Push
      <3> QED BY <3>1, <3>2
    <2>3. ASSUME NEW r \in Req, WriteWithoutResponse(r) \/ IsConnected(r)
                                \/ ConnectPeripheral(r) \/ DisconnectPeripheral(r)
          PROVE  future_state' = future_state
      BY <2>3 DEF WriteWithoutResponse, IsConnected, ConnectPeripheral, DisconnectPeripheral, futureVars
    <2> QED BY <1>1, <2>1, <2>2, <2>3 DEF HandleMessage
  <1>2. CASE EventForms
    <2>1. ASSUME NEW why, Panic(why)
          PROVE  future_state'[k] = <<>>
      BY <2>1 DEF Panic
    <2>2. CASE (delegate # <<>> /\ Unheeded) \/ OnDiscoveredPeripheral \/ \E d : ReportsFailure(d)
      BY <2>2 DEF Unheeded, Ignore, OnDiscoveredPeripheral, ReportsFailure, futureVars
    <2>3. ASSUME NEW d, FoundServices(d) \/ (\E s : FoundChars(d, s)) \/ (\E c : FoundDescs(d, c)) \/ Forgets(d)
          PROVE  future_state'[k] = future_state[k] \/ future_state'[k] = <<>>
      BY <2>3 DEF FoundServices, FoundChars, FoundDescs, Grows, Forgets
    <2>4. ASSUME NEW l \in Slot, NEW kind \in {"Ok", "ReadResult"}, Fulfilled(l, kind)
          PROVE  \/ future_state'[k] = future_state[k]
                 \/ Fulfilled(k, kind) /\ future_state'[k] = Tail(future_state[k])
      <3>1. future_state' = [future_state EXCEPT ![l] = Tail(@)]
        BY <2>4 DEF Fulfilled, Pop
      <3> QED BY <1>0, <2>4, <3>1
    <2> QED BY <1>2, <2>1, <2>2, <2>3, <2>4 DEF EventForms, LiveForms
  <1>3. CASE UNCHANGED futureVars
    BY <1>3 DEF futureVars
  <1> QED BY <1>1, <1>2, <1>3, StepForm DEF internalVars

\* An attribute that leaves the tree takes its queues with it.
LEMMA HasStays ==
    ASSUME TypeOK, [Next]_vars, NEW k \in Slot, Has(k[1], k[3])
    PROVE  Has(k[1], k[3])' \/ future_state'[k] = <<>>
  <1>1. k[1] \in Device /\ k[3] \in Attr
    BY DEF Slot, Attr
  <1>2. CASE HandleMessage
    BY <1>2, MessageForm DEF Has
  <1>3. CASE EventForms
    <2>1. ASSUME NEW why, Panic(why)
          PROVE  future_state'[k] = <<>>
      BY <2>1 DEF Panic
    <2>2. CASE (delegate # <<>> /\ Unheeded) \/ OnDiscoveredPeripheral \/ \E d : ReportsFailure(d)
      BY <2>2 DEF Unheeded, Ignore, OnDiscoveredPeripheral, ReportsFailure, Has
    <2>3. ASSUME NEW l, NEW kind, Fulfilled(l, kind)
          PROVE  Has(k[1], k[3])'
      BY <2>3 DEF Fulfilled, Has
    <2>4. ASSUME NEW d \in Device, Forgets(d)
          PROVE  Has(k[1], k[3])' \/ future_state'[k] = <<>>
      <3>1. CASE k[1] = d
        BY <1>1, <2>4, <3>1 DEF Forgets, SlotsOf
      <3>2. CASE k[1] # d
        <4>1. tree'[k[1]] = tree[k[1]] /\ k[1] \in known'
          BY <1>1, <2>4, <3>2, TreeAfter DEF Forgets, Has
        <4> QED BY <4>1 DEF Has
      <3> QED BY <3>1, <3>2
    <2>5. ASSUME NEW d \in Device, NEW t, NEW K, NEW check, Grows(d, t, K, check),
                 k[1] = d /\ k[3] \in tree[d].has /\ k[3] \notin t.has => k \in K
          PROVE  Has(k[1], k[3])' \/ future_state'[k] = <<>>
      <3>1. k[1] \in known' /\ (k[1] # d => tree'[k[1]] = tree[k[1]]) /\ tree'[d] = t
        BY <1>1, <2>5, TreeAfter DEF Grows, Has
      <3>2. k \in K => future_state'[k] = <<>>
        BY <2>5 DEF Grows
      <3> QED BY <2>5, <3>1, <3>2 DEF Has
    <2>6. ASSUME NEW d \in Device, FoundServices(d)
          PROVE  Has(k[1], k[3])' \/ future_state'[k] = <<>>
      <3>1. k[1] = d => k \in SlotsOf(d, Attr)
        BY <1>1 DEF SlotsOf
      <3> QED BY <2>5, <2>6, <3>1 DEF FoundServices
    <2>7. ASSUME NEW d \in Device, NEW s \in Service, FoundChars(d, s)
          PROVE  Has(k[1], k[3])' \/ future_state'[k] = <<>>
      <3>1. k[3] \in tree[d].has /\ k[3] \notin CharsTree(d, s).has => k[3] \in Below(s)
        BY DEF CharsTree
      <3>2. k[1] = d /\ k[3] \in Below(s) => k \in SlotsOf(d, Below(s))
        BY DEF SlotsOf
      <3> QED BY <2>5, <2>7, <3>1, <3>2 DEF FoundChars
    <2>8. ASSUME NEW d \in Device, NEW c \in Char, FoundDescs(d, c)
          PROVE  Has(k[1], k[3])' \/ future_state'[k] = <<>>
      <3>1. k[3] \in tree[d].has => k[3] \in DescsTree(d, c).has
        BY DEF DescsTree
      <3> QED BY <2>5, <2>8, <3>1 DEF FoundDescs
    <2> QED BY <1>3, <2>1, <2>2, <2>3, <2>4, <2>6, <2>7, <2>8 DEF EventForms, LiveForms
  <1>4. CASE UNCHANGED <<known, tree>>
    BY <1>4 DEF Has
  <1> QED BY <1>2, <1>3, <1>4, StepForm DEF internalVars

\* A queue is never filled for something unknown.
LEMMA QueueHasStep ==
    ASSUME TypeOK, QueueHas, [Next]_vars
    PROVE  QueueHas'
  <1> SUFFICES ASSUME NEW k \in Slot, future_state'[k] # <<>>
               PROVE  Has(k[1], k[3])'
    BY DEF QueueHas, Has
  <1>1. future_state[k] # <<>> \/ Has(k[1], k[3])
    BY QueueStep DEF Fulfilled
  <1>2. Has(k[1], k[3])
    BY <1>1 DEF QueueHas
  <1> QED BY <1>2, HasStays

\* When the end of a link is handled, the thread forgets the device; an error is remembered.
LEMMA BrokenTaken ==
    ASSUME TypeOK, UnknownHoldsNothing, QueueHas, EventForms, NEW d \in Device
    PROVE  /\ Over(0, d) => Over(0, d)' \/ Emptied(d)'
           /\ Broken(0, d) => Broken(0, d)' \/ Emptied(d)'
  <1>1. cb' = cb
    BY EventsTaken
  <1>2. ASSUME Over(0, d)
        PROVE  Over(0, d)' \/ Emptied(d)'
    <2>1. ASSUME NEW why, Panic(why)
          PROVE  Emptied(d)'
      BY <2>1 DEF Panic, Emptied
    <2>2. CASE Forgets(d)
      <3>1. tree'[d] = NoTree
        BY <2>2, TreeAfter
      <3>2. connected_future_state'[d] = NoReq
        BY <2>2 DEF Forgets, Take, TypeOK
      <3>3. \A k \in Slot : k[1] = d => k \in SlotsOf(d, Attr)
        BY DEF SlotsOf, Slot, Attr
      <3>4. \A k \in Slot : k[1] = d => future_state'[k] = <<>>
        BY <2>2, <3>3 DEF Forgets
      <3> QED BY <3>1, <3>2, <3>4 DEF Emptied
    <2>3. CASE delegate # <<>> /\ Unheeded /\ d \notin known
      <3>1. UNCHANGED <<tree, futureVars>>
        BY <2>3 DEF Unheeded, Ignore
      <3>2. tree[d] = NoTree /\ connected_future_state[d] = NoReq
        BY <2>3 DEF UnknownHoldsNothing
      <3>3. \A k \in Slot : k[1] = d => future_state[k] = <<>>
        BY <2>3 DEF QueueHas, Has
      <3> QED BY <3>1, <3>2, <3>3 DEF Emptied, futureVars
    <2>4. CASE Occurs(Head(delegate).ev) /\ Consume /\ ~ (Head(delegate).ev = "DisconnectedDevice" /\ Head(delegate).dev = d)
      BY <1>1, <1>2, <2>4, LaterTail
    <2>5. ASSUME Occurs("DisconnectedDevice"), Head(delegate).dev = d, ~ \E why : Panic(why)
          PROVE  Forgets(d) \/ (delegate # <<>> /\ Unheeded /\ d \notin known)
      <3>1. Head(delegate).ev = "DisconnectedDevice"
        BY <2>5 DEF Occurs
      <3>2. ~ OnDiscoveredPeripheral
        BY <3>1 DEF OnDiscoveredPeripheral, Occurs
      <3>3. \A q : ~ FoundServices(q) /\ ~ ReportsFailure(q)
        BY <3>1 DEF FoundServices, ReportsFailure, Occurs
      <3>4. \A q, x : ~ FoundChars(q, x) /\ ~ FoundDescs(q, x)
        BY <3>1 DEF FoundChars, FoundDescs, Occurs
      <3>5. \A k, kind : ~ Fulfilled(k, kind)
        BY <3>1 DEF Fulfilled, AnsweredFrom
      <3>6. \A q : Forgets(q) => q = d
        BY <2>5 DEF Forgets
      <3>7. delegate # <<>> /\ Unheeded => d \notin known
        BY <2>5, <3>1 DEF Unheeded, CharEvent, DescEvent
      <3> QED BY <2>5, <3>2, <3>3, <3>4, <3>5, <3>6, <3>7 DEF EventForms, LiveForms
    <2> QED BY <2>1, <2>2, <2>3, <2>4, <2>5, HandlerTakes DEF Occurs
  <1> QED BY <1>1, <1>2 DEF Broken

\* A device that is forgotten or not, what was discovered was discovered on a link.
LEMMA UpStep ==
    ASSUME TypeOK, UnknownHoldsNothing, QueueHas, UpInv, [Next]_vars
    PROVE  UpInv'
  <1> SUFFICES ASSUME NEW d \in Device
               PROVE  /\ tree'[d].has # {} => LinkUp(0, d)'
                      /\ \A i \in DOMAIN delegate' :
                            delegate'[i].dev = d /\ delegate'[i].ev = "DiscoveredServices" => LinkUp(i, d)'
    BY DEF UpInv, LinkUp, Over
  <1>0. /\ delegate \in Seq(CentralDelegateEvent) /\ Len(delegate) \in Nat
        /\ DOMAIN delegate = 1..Len(delegate) /\ cb \in CbType
    BY DEF TypeOK, DelegateTypeOK, CbType
  <1>1. /\ tree[d].has # {} => LinkUp(0, d)
        /\ \A i \in DOMAIN delegate :
              delegate[i].dev = d /\ delegate[i].ev = "DiscoveredServices" => LinkUp(i, d)
    BY DEF UpInv
  <1>2. ASSUME NEW q \in Device, CallbackShapes(q), UNCHANGED internalVars
        PROVE  /\ tree'[d].has # {} => LinkUp(0, d)'
               /\ \A i \in DOMAIN delegate' :
                     delegate'[i].dev = d /\ delegate'[i].ev = "DiscoveredServices" => LinkUp(i, d)'
    <2>1. ASSUME NEW i \in 0..Len(delegate), LinkUp(i, d)
          PROVE  LinkUp(i, d)'
      <3>1. Over(i, d) => Over(i, d)'
        BY <1>2, LaterCallback
      <3>2. cb[d].link \in {"connected", "disconnecting"}
               => \/ cb'[d].link \in {"connected", "disconnecting"}
                  \/ DidDisconnectPeripheral(q) /\ d = q
        <4>1. CASE Reported(q) \/ Silent(q)
          BY <4>1 DEF Reported, Silent, Finishes
        <4>2. CASE Unasked(q)
          BY <4>2 DEF Unasked
        <4>3. CASE DidConnectPeripheral(q)
          BY <1>0, <4>3 DEF DidConnectPeripheral, CbType
        <4>4. CASE DidFailToConnectPeripheral(q)
          BY <1>0, <4>4 DEF DidFailToConnectPeripheral, CbType
        <4>5. CASE DidDisconnectPeripheral(q)
          BY <1>0, <4>5 DEF DidDisconnectPeripheral, CbType
        <4> QED BY <1>2, <4>1, <4>2, <4>3, <4>4, <4>5 DEF CallbackShapes
      <3>3. DidDisconnectPeripheral(q) /\ d = q => Over(i, d)'
        <4>1. Event("DisconnectedDevice", q, NoAttr, NoReq) \in CentralDelegateEvent
          BY EventTypes DEF DeviceEvent
        <4> QED BY <1>0, <4>1, SentEvents DEF DidDisconnectPeripheral, Over, Event
      <3> QED BY <2>1, <3>1, <3>2, <3>3 DEF LinkUp
    <2>2. ASSUME NEW i \in DOMAIN delegate', delegate'[i].dev = d, delegate'[i].ev = "DiscoveredServices"
          PROVE  LinkUp(i, d)'
      <3>1. CASE i \in DOMAIN delegate /\ delegate'[i] = delegate[i]
        BY <1>0, <1>1, <2>1, <2>2, <3>1
      <3>2. CASE Reported(q) /\ d = q
        BY <3>2 DEF Reported, Finishes, LinkUp
      <3>3. (i \in DOMAIN delegate /\ delegate'[i] = delegate[i]) \/ (Reported(q) /\ d = q)
        <4>1. ASSUME NEW e \in CentralDelegateEvent, Send(e)
              PROVE  (i \in DOMAIN delegate /\ delegate'[i] = delegate[i]) \/ delegate'[i] = e
          BY <4>1, SentEvents
        <4>2. CASE Reported(q)
          <5>1. PICK e \in CentralDelegateEvent : Send(e) /\ e.dev = q
            BY <4>2 DEF Reported, Reports
          <5> QED BY <2>2, <4>1, <4>2, <5>1
        <4>3. CASE Silent(q)
          BY <4>3 DEF Silent
        <4>4. CASE Unasked(q)
          BY <2>2, <4>1, <4>4 DEF Unasked
        <4>5. CASE DidConnectPeripheral(q) \/ DidFailToConnectPeripheral(q) \/ DidDisconnectPeripheral(q)
          <5>1. PICK v \in DeviceEvent : v # "DiscoveredServices" /\ Send(Event(v, q, NoAttr, NoReq))
            BY <4>5 DEF DidConnectPeripheral, DidFailToConnectPeripheral, DidDisconnectPeripheral, DeviceEvent
          <5>2. Event(v, q, NoAttr, NoReq) \in CentralDelegateEvent /\ Event(v, q, NoAttr, NoReq).ev # "DiscoveredServices"
            BY <5>1, EventTypes DEF Event
          <5> QED BY <2>2, <4>1, <5>1, <5>2
        <4> QED BY <1>2, <4>2, <4>3, <4>4, <4>5 DEF CallbackShapes
      <3> QED BY <3>1, <3>2, <3>3
    <2> QED BY <1>0, <1>1, <1>2, <2>1, <2>2 DEF internalVars
  <1>3. CASE HandleMessage
    <2>1. UNCHANGED <<delegate, tree>> /\ (cb' = cb \/ \E q \in Device : Requests(q))
      BY <1>3, MessageForm
    <2>2. cb[d].link \in {"connected", "disconnecting"} => cb'[d].link \in {"connected", "disconnecting"}
      <3>1. ASSUME NEW q \in Device, Connect(q)
            PROVE  cb[d].link \in {"connected", "disconnecting"} => cb'[d].link \in {"connected", "disconnecting"}
        BY <1>0, <3>1 DEF Connect, CbType
      <3>2. ASSUME NEW q \in Device, CancelConnection(q)
            PROVE  cb[d].link \in {"connected", "disconnecting"} => cb'[d].link \in {"connected", "disconnecting"}
        BY <1>0, <3>2 DEF CancelConnection, CbType
      <3>3. ASSUME NEW q \in Device, NEW o, NEW a, NEW r, Ask(q, o, a, r)
            PROVE  cb'[d].link = cb[d].link
        BY <1>0, <3>3 DEF Ask, CbType
      <3> QED BY <2>1, <3>1, <3>2, <3>3 DEF Requests
    <2> QED BY <1>1, <2>1, <2>2 DEF LinkUp, Over
  <1>4. CASE EventForms
    <2>1. cb' = cb
      BY <1>4, EventsTaken
    <2>2. ASSUME NEW i \in DOMAIN delegate', delegate'[i].dev = d, delegate'[i].ev = "DiscoveredServices"
          PROVE  LinkUp(i, d)'
      <3>1. i \in Nat /\ i + 1 \in DOMAIN delegate /\ delegate'[i] = delegate[i + 1]
        BY <1>4, EventsTaken
      <3>2. Occurs(Head(delegate).ev) /\ Consume
        <4>1. (\E why : Panic(why)) => delegate' = <<>>
          BY DEF Panic
        <4> QED BY <1>4, <4>1, HandlerTakes
      <3>3. LinkUp(i + 1, d)
        BY <1>1, <2>2, <3>1
      <3> QED BY <2>1, <3>1, <3>2, <3>3, LaterTail DEF LinkUp
    <2>3. ASSUME tree'[d].has # {}
          PROVE  LinkUp(0, d)'
      <3>1. CASE tree[d].has # {}
        <4>1. ~ Emptied(d)'
          BY <2>3 DEF Emptied, NoTree
        <4> QED BY <1>1, <1>4, <2>1, <3>1, <4>1, BrokenTaken DEF LinkUp
      <3>2. CASE FoundServices(d)
        <4>1. Occurs("DiscoveredServices") /\ Head(delegate).dev = d /\ Consume
          BY <3>2 DEF FoundServices, Grows
        <4>2. 1 \in DOMAIN delegate /\ Head(delegate) = delegate[1]
          BY <4>1, TailEvents
        <4>3. LinkUp(0 + 1, d)
          BY <1>1, <4>1, <4>2 DEF Occurs
        <4> QED BY <2>1, <4>1, <4>3, LaterTail DEF LinkUp
      <3>3. tree[d].has # {} \/ FoundServices(d)
        <4>1. ASSUME NEW q \in Device, FoundServices(q), q # d
              PROVE  tree'[d] = tree[d]
          BY <4>1, TreeAfter
        <4>2. ASSUME NEW q \in Device, NEW s \in Service, FoundChars(q, s)
              PROVE  tree[d].has # {}
          <5>1. CASE q # d
            BY <2>3, <4>2, <5>1, TreeAfter
          <5>2. CASE q = d
            BY <4>2, <5>2 DEF FoundChars
          <5> QED BY <5>1, <5>2
        <4>3. ASSUME NEW q \in Device, NEW c \in Char, FoundDescs(q, c)
              PROVE  tree[d].has # {}
          <5>1. CASE q # d
            BY <2>3, <4>3, <5>1, TreeAfter
          <5>2. CASE q = d
            BY <4>3, <5>2 DEF FoundDescs
          <5> QED BY <5>1, <5>2
        <4>4. ASSUME NEW q \in Device, Forgets(q)
              PROVE  tree[d].has # {}
          <5>1. CASE q # d
            BY <2>3, <4>4, <5>1, TreeAfter
          <5>2. CASE q = d
            BY <2>3, <4>4, <5>2, TreeAfter DEF NoTree
          <5> QED BY <5>1, <5>2
        <4>5. ASSUME NEW why, Panic(why)
              PROVE  FALSE
          BY <2>3, <4>5 DEF Panic, NoTree
        <4> QED BY <2>3, <4>1, <4>2, <4>3, <4>4, <4>5, TreeStep DEF TreeSteps
      <3> QED BY <3>1, <3>2, <3>3
    <2> QED BY <2>2, <2>3
  <1>5. CASE UNCHANGED <<cb, delegate, tree>>
    BY <1>1, <1>5 DEF LinkUp, Over
  <1> QED BY <1>2, <1>3, <1>4, <1>5, StepForm

CharsIn(s) == {c \in Char : ServiceOf[c] = s}

\* What the delegate has asked for with an event is still to come behind it.
FollowInv ==
    \A i \in DOMAIN delegate :
        LET e == delegate[i]
        IN  \A o \in Follows(e.dev, e.ev, e.attr) : Later(i, e.dev, o) \/ Broken(i, e.dev)

\* Service s of d is discovered, or its characteristics are still to come, or they are there
\* and the descriptors of one of them are still to come.
ServiceFollowed(d, s) ==
    \/ s \in tree[d].discovered
    \/ Later(0, d, AttOp("chars", s, NoReq))
    \/ /\ \A c \in CharsIn(s) : c \in tree[d].discovered \/ Later(0, d, AttOp("descs", c, NoReq))
       /\ \E c \in CharsIn(s) : c \notin tree[d].discovered

\* No service is left half discovered on a link without an error.
Undisc ==
    \A d \in Device :
        Broken(0, d) \/ \A s \in Service : s \in tree[d].has => ServiceFollowed(d, s)

\* A connect() that waits has something to wait for.
Awaits(d) ==
    \/ cb[d].dial
    \/ cb[d].link = "disconnecting"
    \/ Broken(0, d)
    \/ \E i \in DOMAIN delegate : delegate[i].ev = "ConnectionFailed" /\ delegate[i].dev = d
    \/ Later(0, d, AttOp("services", NoAttr, NoReq))
    \/ ServicesOf[d] = <<>>
    \/ ~ Complete(tree[d])

ConnectInv == \A d \in Device : connected_future_state[d] # NoReq => Awaits(d)

\* The discovery asks for characteristics and descriptors.
LEMMA FollowsOps ==
    ASSUME NEW d, NEW ev, NEW a, NEW o \in Follows(d, ev, a)
    PROVE  o.op # "included" /\ ev \in {"DiscoveredServices", "DiscoveredCharacteristics"}
BY DEF Follows, AttOp

\* What was asked for with an event stays to come behind it.
LEMMA FollowStep ==
    ASSUME TypeOK, FollowInv, [Next]_vars
    PROVE  FollowInv'
  <1> SUFFICES ASSUME NEW i \in DOMAIN delegate', NEW e, e = delegate'[i], NEW c \in Device, c = e.dev,
                      NEW o \in Follows(c, e.ev, e.attr)
               PROVE  Later(i, c, o)' \/ Broken(i, c)'
    <2>1. \A l \in DOMAIN delegate' : delegate'[l].dev \in Device
      <3>1. TypeOK'
        BY StepType
      <3> QED BY <3>1 DEF TypeOK, DelegateTypeOK, CentralDelegateEvent
    <2> QED BY <2>1 DEF FollowInv, Later, Broken, Over
  <1>0. /\ delegate \in Seq(CentralDelegateEvent) /\ Len(delegate) \in Nat
        /\ DOMAIN delegate = 1..Len(delegate)
    BY DEF TypeOK, DelegateTypeOK
  <1>1. ASSUME NEW l \in DOMAIN delegate, delegate[l] = e
        PROVE  Later(l, c, o) \/ Broken(l, c)
    BY <1>1 DEF FollowInv
  <1>2. o.op # "included" /\ e.ev \in {"DiscoveredServices", "DiscoveredCharacteristics"}
    BY FollowsOps
  <1>3. ASSUME NEW q \in Device, CallbackShapes(q)
        PROVE  Later(i, c, o)' \/ Broken(i, c)'
    <2>1. CASE i \in DOMAIN delegate /\ delegate[i] = e
      <3>1. i \in 0..Len(delegate)
        BY <1>0, <2>1
      <3> QED BY <1>1, <1>2, <1>3, <2>1, <3>1, LaterCallback
    <2>2. ASSUME NEW x \in CentralDelegateEvent, Send(x)
          PROVE  (i \in DOMAIN delegate /\ delegate[i] = e) \/ e = x
      BY <2>2, SentEvents
    <2>3. CASE Reported(q)
      <3>1. PICK more \in Seq(AttOps), x \in CentralDelegateEvent :
               /\ Finishes(q, more) /\ Send(x) /\ x.dev = q
               /\ Follows(q, x.ev, x.attr) \subseteq Range(more)
        BY <2>3 DEF Reported, Reports
      <3>2. CASE e = x
        <4>1. PICK j \in DOMAIN more : more[j] = o /\ c = q
          BY <3>1, <3>2 DEF Range
        <4> DEFINE n == Len(cb[q].att) - 1 + j
        <4>2. n \in DOMAIN cb'[q].att /\ cb'[q].att[n] = more[j]
          BY <3>1, <4>1, RestOfAtt
        <4> HIDE DEF n
        <4>3. cb'[c].att[n] = o /\ n \in DOMAIN cb'[c].att
          BY <4>1, <4>2
        <4> QED BY <4>3 DEF Later
      <3> QED BY <2>1, <2>2, <3>1, <3>2
    <2>4. CASE Silent(q)
      BY <2>1, <2>4 DEF Silent
    <2>5. CASE Unasked(q)
      BY <1>2, <2>1, <2>2, <2>5 DEF Unasked
    <2>6. CASE DidConnectPeripheral(q) \/ DidFailToConnectPeripheral(q) \/ DidDisconnectPeripheral(q)
      <3>1. PICK v \in DeviceEvent : v # "DiscoveredServices" /\ Send(Event(v, q, NoAttr, NoReq))
        BY <2>6 DEF DidConnectPeripheral, DidFailToConnectPeripheral, DidDisconnectPeripheral, DeviceEvent
      <3>2. Event(v, q, NoAttr, NoReq) \in CentralDelegateEvent /\ Event(v, q, NoAttr, NoReq).ev = v
        BY EventTypes DEF Event
      <3>3. v # "DiscoveredCharacteristics"
        BY DEF DeviceEvent
      <3> QED BY <1>2, <2>1, <2>2, <3>1, <3>2, <3>3
    <2> QED BY <1>3, <2>3, <2>4, <2>5, <2>6 DEF CallbackShapes
  <1>4. CASE HandleMessage
    <2>1. delegate' = delegate /\ (cb' = cb \/ \E q \in Device : Requests(q))
      BY <1>4, MessageForm
    <2>2. CASE cb' = cb
      BY <1>1, <2>1, <2>2 DEF Later, Broken, Over
    <2>3. ASSUME NEW q \in Device, Requests(q)
          PROVE  Later(i, c, o)' \/ Broken(i, c)'
      BY <1>1, <2>1, <2>3, LaterRequest
    <2> QED BY <2>1, <2>2, <2>3
  <1>5. CASE EventForms
    <2>1. cb' = cb /\ i \in Nat /\ i + 1 \in DOMAIN delegate /\ delegate[i + 1] = e
      BY <1>5, EventsTaken
    <2>2. Occurs(Head(delegate).ev) /\ Consume
      <3>1. (\E why : Panic(why)) => delegate' = <<>>
        BY DEF Panic
      <3> QED BY <1>5, <3>1, HandlerTakes
    <2>3. Later(i + 1, c, o) \/ Broken(i + 1, c)
      BY <1>1, <2>1
    <2> QED BY <2>1, <2>2, <2>3, LaterTail DEF Broken
  <1>6. CASE UNCHANGED <<cb, delegate>>
    BY <1>1, <1>6 DEF Later, Broken, Over
  <1> QED BY <1>3, <1>4, <1>5, <1>6, StepForm

\* What handling an event may do to the tree and the connect() of d.
LEMMA TreeEvent ==
    ASSUME TypeOK, UnknownHoldsNothing, QueueHas, EventForms, NEW d \in Device
    PROVE  \/ Emptied(d)'
           \/ FoundServices(d)
           \/ \E s \in Service : FoundChars(d, s)
           \/ \E c \in Char : FoundDescs(d, c)
           \/ /\ tree'[d] = tree[d]
              /\ Occurs(Head(delegate).ev) /\ Consume
              /\ Head(delegate).dev = d =>
                    /\ Head(delegate).ev \notin {"DiscoveredServices", "DiscoveredCharacteristics",
                                                 "DiscoveredCharacteristicDescriptors"}
                    /\ Head(delegate).ev = "ConnectionFailed" => connected_future_state'[d] = NoReq
  <1> DEFINE e == Head(delegate)
             Other == /\ e.dev = d =>
                            /\ e.ev \notin {"DiscoveredServices", "DiscoveredCharacteristics",
                                            "DiscoveredCharacteristicDescriptors"}
                            /\ e.ev = "ConnectionFailed" => connected_future_state'[d] = NoReq
  <1>0. Consume /\ delegate # <<>> => Occurs(e.ev) /\ Consume
    BY DEF Occurs
  <1>1. ASSUME NEW why, Panic(why)
        PROVE  Emptied(d)'
    BY <1>1 DEF Panic, Emptied
  <1>2. CASE delegate # <<>> /\ Unheeded
    <2>1. UNCHANGED <<tree, futureVars>> /\ Consume
      BY <1>2 DEF Unheeded, Ignore
    <2>2. CASE d \notin known
      <3>1. tree[d] = NoTree /\ connected_future_state[d] = NoReq
        BY <2>2 DEF UnknownHoldsNothing
      <3>2. \A k \in Slot : k[1] = d => future_state[k] = <<>>
        BY <2>2 DEF QueueHas, Has
      <3> QED BY <2>1, <3>1, <3>2 DEF Emptied, futureVars
    <2>3. CASE d \in known
      <3>1. Other
        BY <1>2, <2>3 DEF Unheeded, CharEvent, DescEvent
      <3> QED BY <1>0, <1>2, <2>1, <3>1
    <2> QED BY <2>2, <2>3
  <1>3. CASE OnDiscoveredPeripheral
    <2>1. tree' = tree /\ Consume /\ delegate # <<>> /\ e.ev = "DiscoveredPeripheral"
      BY <1>3 DEF OnDiscoveredPeripheral, Occurs
    <2> QED BY <1>0, <2>1
  <1>4. ASSUME NEW q \in Device, FoundServices(q) \/ (\E s \in Service : FoundChars(q, s))
                                 \/ (\E c \in Char : FoundDescs(q, c)) \/ Forgets(q), q # d
        PROVE  tree'[d] = tree[d] /\ Occurs(e.ev) /\ Consume /\ Other
    <2>1. tree'[d] = tree[d]
      BY <1>4, TreeAfter
    <2>2. e.dev = q /\ Consume /\ delegate # <<>>
      BY <1>4 DEF FoundServices, FoundChars, FoundDescs, Forgets, Grows, Occurs
    <2> QED BY <1>0, <1>4, <2>1, <2>2
  <1>5. CASE Forgets(d)
    <2>1. tree'[d] = NoTree
      BY <1>5, TreeAfter
    <2>2. connected_future_state'[d] = NoReq
      BY <1>5 DEF Forgets, Take, TypeOK
    <2>3. \A k \in Slot : k[1] = d => k \in SlotsOf(d, Attr)
      BY DEF SlotsOf, Slot, Attr
    <2>4. \A k \in Slot : k[1] = d => future_state'[k] = <<>>
      BY <1>5, <2>3 DEF Forgets
    <2> QED BY <2>1, <2>2, <2>4 DEF Emptied
  <1>6. ASSUME NEW q \in Device, ReportsFailure(q)
        PROVE  tree'[d] = tree[d] /\ Occurs(e.ev) /\ Consume /\ Other
    <2>1. /\ tree' = tree /\ Consume /\ delegate # <<>> /\ e.ev = "ConnectionFailed" /\ e.dev = q
          /\ connected_future_state' = Take(connected_future_state, q)
      BY <1>6 DEF ReportsFailure, Occurs
    <2>2. q = d => connected_future_state'[d] = NoReq
      BY <2>1 DEF Take, TypeOK
    <2> QED BY <1>0, <2>1, <2>2
  <1>7. ASSUME NEW k, NEW kind, Fulfilled(k, kind)
        PROVE  tree'[d] = tree[d] /\ Occurs(e.ev) /\ Consume /\ Other
    BY <1>7 DEF Fulfilled, AnsweredFrom
  <1> QED BY <1>1, <1>2, <1>3, <1>4, <1>5, <1>6, <1>7 DEF EventForms, LiveForms

\* The operations of the discovery are told apart by what they are reported as.
LEMMA DiscoveryReports ==
    ASSUME NEW d, NEW e
    PROVE  /\ \A s : Reports(AttOp("chars", s, NoReq), d, e) =>
                 e.dev = d /\ e.ev = "DiscoveredCharacteristics" /\ e.attr = s
           /\ \A c : Reports(AttOp("descs", c, NoReq), d, e) =>
                 e.dev = d /\ e.ev = "DiscoveredCharacteristicDescriptors" /\ e.attr = c
           /\ Reports(AttOp("services", NoAttr, NoReq), d, e) =>
                 e.dev = d /\ e.ev = "DiscoveredServices"
           /\ \A o : Reports(o, d, e) => e.ev \notin {"ConnectedDevice", "ConnectionFailed",
                                                      "DisconnectedDevice", "DiscoveredPeripheral"}
           /\ AttOp("services", NoAttr, NoReq).op # "included"
           /\ \A x : AttOp("chars", x, NoReq).op # "included" /\ AttOp("descs", x, NoReq).op # "included"
BY DEF Reports, AttOp

\* While no result about d is handled its services stay followed.
LEMMA FollowedStays ==
    ASSUME NEW d \in Device, NEW s \in Service, tree'[d] = tree[d], ServiceFollowed(d, s),
           \A x \in Service : Later(0, d, AttOp("chars", x, NoReq)) => Later(0, d, AttOp("chars", x, NoReq))',
           \A c \in Char : Later(0, d, AttOp("descs", c, NoReq)) => Later(0, d, AttOp("descs", c, NoReq))'
    PROVE  ServiceFollowed(d, s)'
BY DEF ServiceFollowed, CharsIn

\* No service is left half discovered.
LEMMA UndiscStep ==
    ASSUME IInv, UnknownHoldsNothing, QueueHas, FollowInv, Undisc, [Next]_vars
    PROVE  Undisc'
  <1> SUFFICES ASSUME NEW d \in Device, ~ Broken(0, d)', NEW s \in Service, s \in tree'[d].has
               PROVE  ServiceFollowed(d, s)'
    BY DEF Undisc, ServiceFollowed, Broken, Over, Later
  <1>0. TypeOK
    BY DEF IInv
  <1>1. /\ delegate \in Seq(CentralDelegateEvent) /\ Len(delegate) \in Nat
        /\ 0 \in 0..Len(delegate) /\ DOMAIN delegate = 1..Len(delegate)
    BY <1>0 DEF TypeOK, DelegateTypeOK
  <1>2. ASSUME ~ Broken(0, d), s \in tree[d].has
        PROVE  ServiceFollowed(d, s)
    BY <1>2 DEF Undisc
  <1>3. CASE \E q \in Device : CallbackShapes(q) /\ UNCHANGED internalVars
    <2>1. PICK q \in Device : CallbackShapes(q) /\ UNCHANGED internalVars
      BY <1>3
    <2>2. ~ Broken(0, d) /\ \A o : o.op # "included" /\ Later(0, d, o) => Later(0, d, o)'
      BY <1>0, <1>1, <2>1, LaterCallback
    <2>3. /\ \A x \in Service : Later(0, d, AttOp("chars", x, NoReq)) => Later(0, d, AttOp("chars", x, NoReq))'
          /\ \A c \in Char : Later(0, d, AttOp("descs", c, NoReq)) => Later(0, d, AttOp("descs", c, NoReq))'
      BY <2>2, DiscoveryReports
    <2>4. tree' = tree
      BY <2>1 DEF internalVars
    <2> QED BY <1>2, <2>2, <2>3, <2>4, FollowedStays
  <1>4. CASE HandleMessage
    <2>1. UNCHANGED <<delegate, tree>> /\ (cb' = cb \/ \E q \in Device : Requests(q))
      BY <1>0, <1>4, MessageForm
    <2>2. ~ Broken(0, d) /\ \A o : Later(0, d, o) => Later(0, d, o)'
      <3>1. CASE cb' = cb
        BY <2>1, <3>1 DEF Later, Broken, Over
      <3>2. CASE \E q \in Device : Requests(q)
        BY <1>0, <2>1, <3>2, LaterRequest
      <3> QED BY <2>1, <3>1, <3>2
    <2> QED BY <1>2, <2>1, <2>2, FollowedStays
  <1>5. CASE EventForms
    <2> DEFINE e == Head(delegate)
    <2>0. ~ Emptied(d)'
      BY DEF Emptied, NoTree
    <2>1. ~ Broken(0, d)
      BY <1>0, <1>5, <2>0, BrokenTaken
    <2>2. Occurs(e.ev) /\ Consume /\ cb' = cb
      <3>1. (\E why : Panic(why)) => tree'[d] = NoTree
        BY DEF Panic
      <3> QED BY <1>0, <1>5, <3>1, HandlerTakes DEF NoTree
    <2>3. /\ \A o : Later(0, d, o) /\ ~ Reports(o, d, e) => Later(0, d, o)'
          /\ \A o : Later(0 + 1, d, o) => Later(0, d, o)'
          /\ Broken(0 + 1, d) => Broken(0, d)'
      BY <1>0, <2>2, LaterTail DEF Broken
    <2>4. 1 \in DOMAIN delegate /\ delegate[1] = e
      BY <1>0, <2>2, TailEvents
    <2>5. ASSUME e.dev = d, NEW o \in Follows(e.dev, e.ev, e.attr)
          PROVE  Later(0, d, o)'
      <3>1. Later(1, d, o) \/ Broken(1, d)
        BY <2>4, <2>5 DEF FollowInv
      <3> QED BY <2>3, <3>1
    <2>6. CASE FoundServices(d)
      <3>1. e.dev = d /\ e.ev = "DiscoveredServices"
        BY <2>6 DEF FoundServices, Occurs
      <3>2. tree'[d].has = Range(ServicesOf[d])
        BY <1>0, <2>6, TreeAfter
      <3>3. AttOp("chars", s, NoReq) \in Follows(e.dev, e.ev, e.attr)
        BY <3>1, <3>2 DEF Follows
      <3>4. Later(0, d, AttOp("chars", s, NoReq))'
        BY <2>5, <3>1, <3>3
      <3> QED BY <3>4 DEF ServiceFollowed
    <2>7. ASSUME NEW x \in Service, FoundChars(d, x)
          PROVE  ServiceFollowed(d, s)'
      <3>1. e.dev = d /\ e.ev = "DiscoveredCharacteristics" /\ e.attr = x
        BY <2>7 DEF FoundChars, Occurs
      <3>2. tree'[d] = CharsTree(d, x)
        BY <1>0, <2>7, TreeAfter
      <3>3. Range(CharsOf[x]) = CharsIn(x)
        BY LayoutSets DEF CharsIn
      <3>4. /\ s \in tree[d].has
            /\ \A y \in Service : y \in tree[d].discovered => y \in tree'[d].discovered
            /\ \A c \in Char \ CharsIn(x) : c \in tree'[d].discovered <=> c \in tree[d].discovered
            /\ \A c \in CharsIn(x) : c \notin tree'[d].discovered
            /\ CharsIn(x) = {} => x \in tree'[d].discovered
        <4>1. /\ CharsIn(x) \subseteq Char /\ Service \cap Char = {}
              /\ \A y \in Below(x) : y \in Char \cup Desc
              /\ Service \cap Desc = {}
          BY LayoutSets, DelegateAssumption DEF CharsIn
        <4>2. s \notin Range(CharsOf[x]) /\ s \notin UNION {Range(DescsOf[c]) : c \in Range(CharsOf[x]) \cap cb[d].cached}
          BY <3>3, <4>1, LayoutTypes DEF CharsIn
        <4>3. s \in tree[d].has
          BY <3>2, <4>2 DEF CharsTree
        <4>4. tree'[d].discovered = (tree[d].discovered \ CharsIn(x)) \cup (IF CharsIn(x) = {} THEN {x} ELSE {})
          BY <3>2, <3>3 DEF CharsTree
        <4> QED BY <4>1, <4>3, <4>4
      <3>5. ServiceFollowed(d, s)
        BY <1>2, <2>1, <3>4
      <3>6. \A c \in Char : Later(0, d, AttOp("descs", c, NoReq)) => Later(0, d, AttOp("descs", c, NoReq))'
        BY <2>3, <3>1, DiscoveryReports
      <3>7. CASE s = x
        <4>1. ASSUME NEW c \in CharsIn(x)
              PROVE  Later(0, d, AttOp("descs", c, NoReq))'
          <5>1. AttOp("descs", c, NoReq) \in Follows(e.dev, e.ev, e.attr)
            BY <3>1 DEF Follows, CharsIn
          <5> QED BY <2>5, <3>1, <5>1
        <4>2. CASE CharsIn(x) = {}
          BY <3>4, <3>7, <4>2 DEF ServiceFollowed
        <4>3. CASE CharsIn(x) # {}
          BY <3>4, <3>7, <4>1, <4>3 DEF ServiceFollowed, CharsIn
        <4> QED BY <4>2, <4>3
      <3>8. CASE s # x
        <4>1. Later(0, d, AttOp("chars", s, NoReq)) => Later(0, d, AttOp("chars", s, NoReq))'
          <5>1. ~ Reports(AttOp("chars", s, NoReq), d, e)
            BY <3>1, <3>8, DiscoveryReports
          <5> HIDE DEF e
          <5> QED BY <2>3, <5>1
        <4>2. \A c \in CharsIn(s) : c \in Char \ CharsIn(x)
          BY <3>8 DEF CharsIn
        <4> QED BY <3>4, <3>5, <3>6, <4>1, <4>2 DEF ServiceFollowed, CharsIn
      <3> QED BY <3>7, <3>8
    <2>8. ASSUME NEW c \in Char, FoundDescs(d, c)
          PROVE  ServiceFollowed(d, s)'
      <3>1. e.dev = d /\ e.ev = "DiscoveredCharacteristicDescriptors" /\ e.attr = c
        BY <2>8 DEF FoundDescs, Occurs
      <3>2. tree'[d] = DescsTree(d, c)
        BY <1>0, <2>8, TreeAfter
      <3>3. CharsIn(ServiceOf[c]) = Range(CharsOf[ServiceOf[c]])
        BY LayoutSets DEF CharsIn
      <3>4. /\ s \in tree[d].has
            /\ tree[d].discovered \cup {c} \subseteq tree'[d].discovered
            /\ \A y \in Char : y \in tree'[d].discovered <=> y \in tree[d].discovered \/ y = c
            /\ CharsIn(ServiceOf[c]) \subseteq tree[d].discovered \cup {c}
                  => ServiceOf[c] \in tree'[d].discovered
        <4>1. s \notin Range(DescsOf[c]) /\ ServiceOf[c] \notin Char
          BY LayoutTypes, LayoutSets, DelegateAssumption
        <4> QED BY <3>2, <3>3, <4>1 DEF DescsTree, LastChar
      <3>5. ServiceFollowed(d, s)
        BY <1>2, <2>1, <3>4
      <3>6. ASSUME NEW y \in Char \ {c}, Later(0, d, AttOp("descs", y, NoReq))
            PROVE  Later(0, d, AttOp("descs", y, NoReq))'
        <4>1. ~ Reports(AttOp("descs", y, NoReq), d, e)
          BY <3>1, DiscoveryReports
        <4> HIDE DEF e
        <4> QED BY <2>3, <3>6, <4>1
      <3>7. Later(0, d, AttOp("chars", s, NoReq)) => Later(0, d, AttOp("chars", s, NoReq))'
        BY <2>3, <3>1, DiscoveryReports
      <3>8. CASE s \in tree[d].discovered \/ Later(0, d, AttOp("chars", s, NoReq))
        BY <3>4, <3>7, <3>8 DEF ServiceFollowed
      <3>9. CASE /\ \A y \in CharsIn(s) : y \in tree[d].discovered \/ Later(0, d, AttOp("descs", y, NoReq))
                 /\ \E y \in CharsIn(s) : y \notin tree[d].discovered
        <4>1. \A y \in CharsIn(s) : y \in Char
          BY DEF CharsIn
        <4>2. \A y \in CharsIn(s) : y \in tree'[d].discovered \/ Later(0, d, AttOp("descs", y, NoReq))'
          BY <3>4, <3>6, <3>9, <4>1
        <4>3. CASE CharsIn(s) \subseteq tree[d].discovered \cup {c}
          <5>1. c \in CharsIn(s)
            BY <3>9, <4>3
          <5>2. s = ServiceOf[c]
            BY <5>1 DEF CharsIn
          <5> QED BY <3>4, <4>3, <5>2 DEF ServiceFollowed
        <4>4. CASE \E y \in CharsIn(s) : y \notin tree[d].discovered \cup {c}
          <5>1. \E y \in CharsIn(s) : y \notin tree'[d].discovered
            BY <3>4, <4>1, <4>4
          <5> QED BY <4>2, <5>1 DEF ServiceFollowed, CharsIn
        <4> QED BY <4>3, <4>4
      <3> QED BY <3>5, <3>8, <3>9 DEF ServiceFollowed
    <2>9. CASE /\ tree'[d] = tree[d]
               /\ e.dev = d => e.ev \notin {"DiscoveredServices", "DiscoveredCharacteristics",
                                            "DiscoveredCharacteristicDescriptors"}
      <3>1. /\ \A x \in Service : Later(0, d, AttOp("chars", x, NoReq)) => Later(0, d, AttOp("chars", x, NoReq))'
            /\ \A c \in Char : Later(0, d, AttOp("descs", c, NoReq)) => Later(0, d, AttOp("descs", c, NoReq))'
        BY <2>3, <2>9, DiscoveryReports
      <3> QED BY <1>2, <2>1, <2>9, <3>1, FollowedStays
    <2> QED BY <1>0, <1>5, <2>0, <2>6, <2>7, <2>8, <2>9, TreeEvent
  <1>6. CASE UNCHANGED <<cb, delegate, tree>>
    <2>1. ServiceFollowed(d, s) => ServiceFollowed(d, s)'
      BY <1>6 DEF ServiceFollowed, Later, CharsIn
    <2> QED BY <1>2, <1>6, <2>1 DEF Broken, Over
  <1> QED BY <1>0, <1>3, <1>4, <1>5, <1>6, StepForm

\* What a callback makes of the link of a device, and what it tells the thread.
LEMMA LinkSteps ==
    ASSUME TypeOK, NEW q \in Device, CallbackShapes(q), NEW d \in Device
    PROVE  /\ \/ cb'[d].link = cb[d].link /\ cb'[d].dial = cb[d].dial
              \/ DidConnectPeripheral(d) /\ Later(0, d, AttOp("services", NoAttr, NoReq))'
              \/ /\ DidFailToConnectPeripheral(d)
                 /\ \E i \in DOMAIN delegate' :
                       delegate'[i].ev = "ConnectionFailed" /\ delegate'[i].dev = d
              \/ DidDisconnectPeripheral(d) /\ Over(0, d)'
           /\ \A i \in DOMAIN delegate : i \in DOMAIN delegate' /\ delegate'[i] = delegate[i]
  <1>0. cb \in [Device -> [link : {"disconnected", "connecting", "connected", "disconnecting"},
                           dial : BOOLEAN, att : Seq(AttOps), notifying : SUBSET Char,
                           cached : SUBSET Char, failed : BOOLEAN]]
        /\ Len(delegate) \in Nat /\ DOMAIN delegate = 1..Len(delegate)
    BY DEF TypeOK, DelegateTypeOK
  <1>1. ASSUME NEW e \in CentralDelegateEvent, Send(e)
        PROVE  /\ \A i \in DOMAIN delegate : i \in DOMAIN delegate' /\ delegate'[i] = delegate[i]
               /\ Len(delegate) + 1 \in DOMAIN delegate' /\ delegate'[Len(delegate) + 1] = e
               /\ Len(delegate) + 1 > 0
    <2>1. /\ DOMAIN delegate' = 1..(Len(delegate) + 1)
          /\ \A i \in DOMAIN delegate : delegate'[i] = delegate[i]
          /\ delegate'[Len(delegate) + 1] = e
      BY <1>1, SentEvents
    <2>2. DOMAIN delegate \subseteq DOMAIN delegate' /\ Len(delegate) + 1 \in DOMAIN delegate'
          /\ Len(delegate) + 1 > 0
      <3> HIDE DEF Send
      <3>1. \A n \in Nat : 1..n \subseteq 1..(n + 1) /\ n + 1 \in 1..(n + 1) /\ n + 1 > 0
        OBVIOUS
      <3> QED BY <1>0, <2>1, <3>1
    <2> QED BY <2>1, <2>2
  <1>2. CASE Reported(q)
    <2>1. PICK more \in Seq(AttOps), e \in CentralDelegateEvent : Finishes(q, more) /\ Send(e)
      BY <1>2 DEF Reported
    <2>2. cb'[d].link = cb[d].link /\ cb'[d].dial = cb[d].dial
      BY <2>1 DEF Finishes
    <2> QED BY <1>1, <2>1, <2>2
  <1>3. CASE Silent(q)
    <2>1. PICK more \in Seq(AttOps) : Finishes(q, more) /\ delegate' = delegate
      BY <1>3 DEF Silent
    <2>2. cb'[d].link = cb[d].link /\ cb'[d].dial = cb[d].dial
      BY <2>1 DEF Finishes
    <2> QED BY <2>1, <2>2
  <1>4. CASE Unasked(q)
    BY <1>1, <1>4 DEF Unasked
  <1>5. ASSUME NEW v \in DeviceEvent
        PROVE  /\ Event(v, q, NoAttr, NoReq) \in CentralDelegateEvent
               /\ Event(v, q, NoAttr, NoReq).dev = q /\ Event(v, q, NoAttr, NoReq).ev = v
    BY EventTypes DEF Event
  <1>6. CASE DidConnectPeripheral(q)
    <2>1. "ConnectedDevice" \in DeviceEvent /\ Send(Event("ConnectedDevice", q, NoAttr, NoReq))
      BY <1>6 DEF DidConnectPeripheral, DeviceEvent
    <2>2. CASE q # d
      BY <1>0, <1>1, <1>5, <1>6, <2>1, <2>2 DEF DidConnectPeripheral
    <2>3. CASE q = d
      <3>1. AttOp("services", NoAttr, NoReq) \in AttOps /\ cb[d].att \in Seq(AttOps)
        BY <1>0 DEF AttOp, AttOps
      <3>2. cb'[d].att = Append(cb[d].att, AttOp("services", NoAttr, NoReq))
        BY <1>0, <1>6, <2>3 DEF DidConnectPeripheral
      <3> HIDE DEF DidConnectPeripheral
      <3>3. \E j \in DOMAIN cb'[d].att : cb'[d].att[j] = AttOp("services", NoAttr, NoReq)
        BY <3>1, <3>2, AppendHas
      <3>4. Later(0, d, AttOp("services", NoAttr, NoReq))'
        BY <3>3 DEF Later
      <3> QED BY <1>1, <1>5, <1>6, <2>1, <2>3, <3>4
    <2> QED BY <2>2, <2>3
  <1>7. CASE DidFailToConnectPeripheral(q)
    <2>1. "ConnectionFailed" \in DeviceEvent /\ Send(Event("ConnectionFailed", q, NoAttr, NoReq))
      BY <1>7 DEF DidFailToConnectPeripheral, DeviceEvent
    <2>2. CASE q # d
      BY <1>0, <1>1, <1>5, <1>7, <2>1, <2>2 DEF DidFailToConnectPeripheral
    <2> QED BY <1>1, <1>5, <1>7, <2>1, <2>2
  <1>8. CASE DidDisconnectPeripheral(q)
    <2>1. "DisconnectedDevice" \in DeviceEvent /\ Send(Event("DisconnectedDevice", q, NoAttr, NoReq))
      BY <1>8 DEF DidDisconnectPeripheral, DeviceEvent
    <2>2. CASE q # d
      BY <1>0, <1>1, <1>5, <1>8, <2>1, <2>2 DEF DidDisconnectPeripheral
    <2>3. CASE q = d
      <3>1. Over(0, d)'
        BY <1>1, <1>5, <2>1, <2>3 DEF Over
      <3> QED BY <1>1, <1>5, <1>8, <2>1, <2>3, <3>1
    <2> QED BY <2>2, <2>3
  <1> QED BY <1>2, <1>3, <1>4, <1>6, <1>7, <1>8 DEF CallbackShapes

\* A connect() comes with its message, or was there before.
LEMMA SlotStep ==
    ASSUME TypeOK, [Next]_vars, NEW d \in Device
    PROVE  \/ connected_future_state'[d] = connected_future_state[d]
           \/ connected_future_state'[d] = NoReq
           \/ \E r \in Req : ConnectPeripheral(r) /\ ask[r].dev = d /\ Connect(d)
  <1>0. connected_future_state \in [Device -> Req \cup {NoReq}]
    BY DEF TypeOK
  <1>1. CASE HandleMessage
    <2>1. CASE Scan
      BY <2>1 DEF Scan, futureVars
    <2>2. ASSUME NEW r \in Req, ConnectPeripheral(r)
          PROVE  \/ connected_future_state'[d] = connected_future_state[d]
                 \/ ask[r].dev = d /\ Connect(d)
      <3>1. CASE ask[r].dev \in known
        BY <1>0, <2>2, <3>1 DEF ConnectPeripheral
      <3>2. CASE ask[r].dev \notin known
        BY <2>2, <3>2 DEF ConnectPeripheral
      <3> QED BY <3>1, <3>2
    <2>3. ASSUME NEW r \in Req, WriteWithoutResponse(r) \/ IsConnected(r)
                                \/ RequestOnAttribute(r) \/ DisconnectPeripheral(r)
          PROVE  connected_future_state' = connected_future_state
      BY <2>3 DEF WriteWithoutResponse, IsConnected, RequestOnAttribute, DisconnectPeripheral, futureVars
    <2> QED BY <1>1, <2>1, <2>2, <2>3 DEF HandleMessage
  <1>2. CASE EventForms
    <2>1. ASSUME NEW why, Panic(why)
          PROVE  connected_future_state'[d] = NoReq
      BY <2>1 DEF Panic
    <2>2. CASE (delegate # <<>> /\ Unheeded) \/ OnDiscoveredPeripheral \/ \E k, kind : Fulfilled(k, kind)
      BY <2>2 DEF Unheeded, Ignore, OnDiscoveredPeripheral, Fulfilled, futureVars
    <2>3. ASSUME NEW q, connected_future_state' = Take(connected_future_state, q)
          PROVE  connected_future_state'[d] \in {NoReq, connected_future_state[d]}
      BY <1>0, <2>3 DEF Take
    <2>4. ASSUME NEW q, NEW t, NEW K, NEW check, Grows(q, t, K, check)
          PROVE  connected_future_state'[d] \in {NoReq, connected_future_state[d]}
      BY <2>3, <2>4 DEF Grows
    <2>5. CASE \E q \in Device : \/ FoundServices(q)
                                 \/ \E s \in Service : FoundChars(q, s)
                                 \/ \E c \in Char : FoundDescs(q, c)
      BY <2>4, <2>5 DEF FoundServices, FoundChars, FoundDescs
    <2>6. CASE \E q \in Device : ReportsFailure(q) \/ Forgets(q)
      BY <2>3, <2>6 DEF ReportsFailure, Forgets
    <2> QED BY <1>2, <2>1, <2>2, <2>5, <2>6 DEF EventForms, LiveForms
  <1>3. CASE UNCHANGED futureVars
    BY <1>3 DEF futureVars
  <1> QED BY <1>1, <1>2, <1>3, StepForm DEF internalVars

\* A connect() that waits has something to wait for.
LEMMA AwaitStep ==
    ASSUME IInv, UnknownHoldsNothing, QueueHas, ConnectInv, [Next]_vars
    PROVE  ConnectInv'
  <1> DEFINE Srv == AttOp("services", NoAttr, NoReq)
             Failed(d) == \E i \in DOMAIN delegate :
                             delegate[i].ev = "ConnectionFailed" /\ delegate[i].dev = d
  <1> SUFFICES ASSUME NEW d \in Device, connected_future_state'[d] # NoReq
               PROVE  Awaits(d)'
    BY DEF ConnectInv, Awaits, Broken, Over, Later
  <1>0. TypeOK /\ cb \in [Device -> [link : {"disconnected", "connecting", "connected", "disconnecting"},
                           dial : BOOLEAN, att : Seq(AttOps), notifying : SUBSET Char,
                           cached : SUBSET Char, failed : BOOLEAN]]
        /\ Len(delegate) \in Nat /\ 0 \in 0..Len(delegate) /\ DOMAIN delegate = 1..Len(delegate)
    BY DEF IInv, TypeOK, DelegateTypeOK
  <1>1. CASE \E r \in Req : ConnectPeripheral(r) /\ ask[r].dev = d /\ Connect(d)
    <2>1. cb'[d].dial
      BY <1>0, <1>1 DEF Connect
    <2> QED BY <2>1 DEF Awaits
  <1>2. connected_future_state'[d] = connected_future_state[d] => Awaits(d)
    BY DEF ConnectInv
  <1> HIDE DEF Srv, Failed
  <1>3. ASSUME Awaits(d),
               cb[d].dial => Awaits(d)',
               cb[d].link = "disconnecting" => Awaits(d)',
               Failed(d) => Failed(d)',
               ~ Complete(tree[d]) => ~ Complete(tree'[d]),
               Broken(0, d) => Broken(0, d)',
               Later(0, d, Srv) => Later(0, d, Srv)' \/ Broken(0, d)'
        PROVE  Awaits(d)'
    BY <1>3 DEF Awaits, Srv, Failed
  <1>4. CASE (\E q \in Device : CallbackShapes(q)) /\ UNCHANGED internalVars
    <2>1. PICK q \in Device : CallbackShapes(q)
      BY <1>4
    <2>2. connected_future_state' = connected_future_state /\ tree' = tree
      BY <1>4 DEF internalVars, futureVars
    <2>3. /\ Broken(0, d) => Broken(0, d)'
          /\ Later(0, d, Srv) => Later(0, d, Srv)' \/ Broken(0, d)'
      <3>1. Srv.op # "included"
        BY DEF Srv, AttOp
      <3> QED BY <1>0, <2>1, <3>1, LaterCallback
    <2>4. Failed(d) => Failed(d)'
      BY <1>0, <2>1, LinkSteps DEF Failed
    <2>5. cb[d].dial \/ cb[d].link = "disconnecting" => Awaits(d)'
      <3>1. CASE cb'[d].link = cb[d].link /\ cb'[d].dial = cb[d].dial
        BY <3>1 DEF Awaits
      <3>2. CASE Later(0, d, AttOp("services", NoAttr, NoReq))'
        BY <3>2 DEF Awaits
      <3>3. CASE \E i \in DOMAIN delegate' : delegate'[i].ev = "ConnectionFailed" /\ delegate'[i].dev = d
        BY <3>3 DEF Awaits
      <3>4. CASE Over(0, d)'
        BY <3>4 DEF Awaits, Broken
      <3> QED BY <1>0, <2>1, <3>1, <3>2, <3>3, <3>4, LinkSteps
    <2> QED BY <1>2, <1>3, <2>2, <2>3, <2>4, <2>5
  <1>5. CASE HandleMessage
    <2>1. UNCHANGED <<delegate, tree>> /\ (cb' = cb \/ \E q \in Device : Requests(q))
      BY <1>0, <1>5, MessageForm
    <2>2. CASE ~ \E r \in Req : ConnectPeripheral(r) /\ ask[r].dev = d /\ Connect(d)
      <3>1. Awaits(d)
        BY <1>0, <1>2, <2>2, SlotStep
      <3>2. /\ Broken(0, d) => Broken(0, d)'
            /\ Later(0, d, Srv) => Later(0, d, Srv)'
        BY <1>0, <2>1, LaterRequest DEF Later, Broken, Over
      <3>3. Failed(d) => Failed(d)'
        BY <2>1 DEF Failed
      <3>4. ASSUME NEW q \in Device, Requests(q), cb[d].dial \/ cb[d].link = "disconnecting"
            PROVE  cb'[d].dial \/ cb'[d].link = "disconnecting"
        <4>1. CASE Connect(q)
          BY <1>0, <3>4, <4>1 DEF Connect
        <4>2. CASE CancelConnection(q)
          BY <1>0, <3>4, <4>2 DEF CancelConnection
        <4>3. CASE \E o, a, r : Ask(q, o, a, r)
          BY <1>0, <3>4, <4>3 DEF Ask
        <4> QED BY <3>4, <4>1, <4>2, <4>3 DEF Requests
      <3>5. cb[d].dial \/ cb[d].link = "disconnecting" => Awaits(d)'
        BY <2>1, <3>4 DEF Awaits
      <3> QED BY <1>3, <2>1, <3>1, <3>2, <3>3, <3>5
    <2> QED BY <1>1, <2>2
  <1>6. CASE EventForms
    <2> DEFINE e == Head(delegate)
    <2>1. Awaits(d) \/ Awaits(d)'
      BY <1>0, <1>1, <1>2, SlotStep
    <2>2. ~ Emptied(d)'
      BY DEF Emptied
    <2>3. Broken(0, d) => Broken(0, d)'
      BY <1>0, <1>6, <2>2, BrokenTaken
    <2>4. Occurs(e.ev) /\ Consume /\ cb' = cb
      <3>1. (\E why : Panic(why)) => connected_future_state'[d] = NoReq
        BY DEF Panic
      <3> QED BY <1>0, <1>6, <3>1, HandlerTakes
    <2>5. ASSUME Awaits(d), ~ Complete(tree[d]) => ~ Complete(tree'[d]),
                 e.dev = d => e.ev \notin {"DiscoveredServices", "ConnectionFailed"}
          PROVE  Awaits(d)'
      <3>1. Later(0, d, Srv) => Later(0, d, Srv)'
        <4>1. ~ Reports(Srv, d, e)
          BY <2>5, DiscoveryReports DEF Srv
        <4> HIDE DEF e
        <4>2. Later(0, d, Srv) /\ ~ Reports(Srv, d, Head(delegate)) => Later(0, d, Srv)'
          BY <1>0, <2>4, LaterTail
        <4> QED BY <4>1, <4>2 DEF e
      <3>2. Failed(d) => Failed(d)'
        <4>1. SUFFICES ASSUME NEW i \in DOMAIN delegate,
                              delegate[i].ev = "ConnectionFailed", delegate[i].dev = d
                       PROVE  \E j \in DOMAIN delegate' : delegate'[j] = delegate[i]
          BY <4>1 DEF Failed
        <4>2. i # 1
          BY <1>0, <2>4, <2>5, <4>1, TailEvents
        <4>3. i - 1 \in DOMAIN delegate' /\ delegate'[i - 1] = delegate[i]
          BY <1>0, <2>4, <4>2, TailEvents
        <4> QED BY <4>3
      <3> QED BY <1>3, <2>3, <2>4, <2>5, <3>1, <3>2 DEF Awaits
    <2>6. CASE FoundServices(d)
      <3>1. tree'[d] = [has |-> Range(ServicesOf[d]), discovered |-> {}]
        <4>1. tree' = [tree EXCEPT ![d] = [has |-> Range(ServicesOf[d]), discovered |-> {}]]
          BY <1>0, <2>6, TreeAfter
        <4> QED BY <1>0, <4>1, TreeAfter
      <3>2. ServicesOf[d] \in Seq(Service)
        BY DelegateAssumption
      <3>3. CASE ServicesOf[d] = <<>>
        BY <3>3 DEF Awaits
      <3>4. CASE ServicesOf[d] # <<>>
        <4>1. ServicesOf[d][1] \in Range(ServicesOf[d]) \cap Service
          BY <3>2, <3>4 DEF Range
        <4>2. ~ Complete(tree'[d])
          BY <3>1, <4>1 DEF Complete
        <4> QED BY <4>2 DEF Awaits
      <3> QED BY <3>3, <3>4
    <2>7. ASSUME NEW t, NEW K, NEW check, Grows(d, t, K, check),
                 e.dev = d => e.ev \notin {"DiscoveredServices", "ConnectionFailed"},
                 check \/ (Complete(t) => Complete(tree[d]))
          PROVE  Awaits(d)'
      <3>1. tree'[d] = t
        BY <1>0, <2>7, TreeAfter DEF Grows
      <3>2. CASE check /\ Complete(t)
        BY <1>0, <2>7, <3>2 DEF Grows, Take, TypeOK
      <3>3. CASE check /\ ~ Complete(t)
        BY <3>1, <3>3 DEF Awaits
      <3>4. CASE ~ check
        BY <2>1, <2>5, <2>7, <3>1, <3>4
      <3> QED BY <3>2, <3>3, <3>4
    <2>8. ASSUME NEW s \in Service, FoundChars(d, s)
          PROVE  Awaits(d)'
      <3>1. Grows(d, CharsTree(d, s), SlotsOf(d, Below(s)), Range(CharsOf[s]) = {})
        BY <2>8 DEF FoundChars
      <3>2. e.ev = "DiscoveredCharacteristics"
        BY <2>8 DEF FoundChars, Occurs
      <3>3. Range(CharsOf[s]) = {} \/ (Complete(CharsTree(d, s)) => Complete(tree[d]))
        <4>1. /\ Range(CharsOf[s]) \cap Service = {}
              /\ Below(s) \cap Service = {}
          BY LayoutSets, DelegateAssumption
        <4> QED BY <4>1 DEF CharsTree, Complete
      <3> QED BY <2>7, <3>1, <3>2, <3>3
    <2>9. ASSUME NEW c \in Char, FoundDescs(d, c)
          PROVE  Awaits(d)'
      <3>1. Grows(d, DescsTree(d, c), SlotsOf(d, Range(DescsOf[c])), LastChar(d, c))
        BY <2>9 DEF FoundDescs
      <3>2. e.ev = "DiscoveredCharacteristicDescriptors"
        BY <2>9 DEF FoundDescs, Occurs
      <3>3. LastChar(d, c) \/ (Complete(DescsTree(d, c)) => Complete(tree[d]))
        <4>1. c \notin Service
          BY DelegateAssumption
        <4> QED BY <4>1 DEF DescsTree, Complete
      <3> QED BY <2>7, <3>1, <3>2, <3>3
    <2>10. CASE /\ tree'[d] = tree[d]
                /\ e.dev = d => e.ev \notin {"DiscoveredServices", "ConnectionFailed"}
      BY <2>1, <2>5, <2>10
    <2> QED BY <1>0, <1>6, <2>2, <2>6, <2>8, <2>9, <2>10, TreeEvent
  <1>7. CASE UNCHANGED <<cb, delegate, tree, futureVars>>
    BY <1>2, <1>7 DEF futureVars, Awaits, Later, Broken, Over
  <1> QED BY <1>0, <1>4, <1>5, <1>6, <1>7, StepForm

\* A queue is in the order of the pipeline.
OrderInv ==
    \A k \in Slot : \A i, j \in DOMAIN future_state[k] :
        Before(k[1], future_state[k][i], future_state[k][j]) => i < j

\* Every call that is queued is still to come, unless its link is going down or had an error.
HeldInv ==
    \A k \in Slot : k[2] # "read_descriptor" =>
        \/ Broken(0, k[1])
        \/ cb[k[1]].link = "disconnecting"
        \/ \A q \in Range(future_state[k]) : Later(0, k[1], AttOp(k[2], k[3], q))

\* Both calls of an order are in the pipeline.
LEMMA BeforePending ==
    ASSUME NEW d \in Device, NEW x, NEW y, Before(d, x, y)
    PROVE  Pending(x) /\ Pending(y)
BY DEF Before, Pending

\* A queue is filled in the order in which the framework is asked.
LEMMA OrderStep ==
    ASSUME IInv, AttTags, EventTags, OrderInv, [Next]_vars
    PROVE  OrderInv'
  <1> SUFFICES ASSUME NEW k \in Slot, NEW i \in DOMAIN future_state'[k], NEW j \in DOMAIN future_state'[k],
                      NEW x, x = future_state'[k][i], NEW y, y = future_state'[k][j],
                      NEW d, d = k[1], Before(d, x, y)'
               PROVE  i < j
    BY DEF OrderInv, Before
  <1>0. /\ TypeOK /\ TypeOK' /\ d \in Device /\ future_state[k] \in Seq(Req)
        /\ future_state'[k] \in Seq(Req)
    <2>1. TypeOK'
      BY StepType DEF IInv
    <2>2. k[1] \in Device
      BY DEF Slot
    <2> QED BY <2>1, <2>2 DEF IInv, TypeOK
  <1>1. x \in Req /\ y \in Req
    BY <1>0
  <1>2. Before(d, x, y) \/ (RequestOnAttribute(y) /\ Pending(x))
    BY <1>0, <1>1, BeforeStep
  <1>3. ASSUME NEW z, RequestOnAttribute(z), z \in Req
        PROVE  ~ Pending(z) /\ \A l \in DOMAIN future_state[k] : future_state[k][l] # z
    <2>1. st[z] = "sent" /\ ~ Pending(z)
      BY <1>3, RequestIsNew
    <2>2. \A q \in Range(future_state[k]) : st[q] = "held"
      BY DEF IInv, FutureInOnePlace, QueuesHold
    <2> QED BY <2>1, <2>2 DEF Range
  <1>4. ASSUME NEW l \in DOMAIN future_state[k], NEW m \in DOMAIN future_state[k],
               x = future_state[k][l], y = future_state[k][m]
        PROVE  l < m
    <2>1. Before(d, x, y)
      BY <1>1, <1>2, <1>3, <1>4
    <2> QED BY <1>4, <2>1 DEF OrderInv
  <1>5. CASE future_state'[k] = future_state[k]
    BY <1>4, <1>5
  <1>6. CASE future_state'[k] = <<>>
    BY <1>6
  <1>7. CASE \E kind : Fulfilled(k, kind) /\ future_state'[k] = Tail(future_state[k])
    <2>1. future_state[k] # <<>>
      BY <1>7 DEF Fulfilled
    <2>2. /\ i \in Nat /\ j \in Nat
          /\ i + 1 \in DOMAIN future_state[k] /\ j + 1 \in DOMAIN future_state[k]
          /\ x = future_state[k][i + 1] /\ y = future_state[k][j + 1]
      BY <1>0, <1>7, <2>1
    <2>3. i + 1 < j + 1
      BY <1>4, <2>2
    <2> QED BY <2>2, <2>3
  <1>8. ASSUME NEW r \in Req, RequestOnAttribute(r), future_state'[k] = Append(future_state[k], r)
        PROVE  i < j
    <2>1. /\ Len(future_state[k]) \in Nat
          /\ \A l \in DOMAIN future_state'[k] :
               \/ l = Len(future_state[k]) + 1 /\ future_state'[k][l] = r
               \/ l \in DOMAIN future_state[k] /\ l \leq Len(future_state[k])
                  /\ future_state'[k][l] = future_state[k][l]
      BY <1>0, <1>8
    <2>2. Pending(x)
      BY <1>0, <1>2, BeforePending
    <2>3. x # r
      BY <1>3, <1>8, <2>2
    <2>4. i \in DOMAIN future_state[k] /\ x = future_state[k][i] /\ i \leq Len(future_state[k])
      BY <2>1, <2>3
    <2>5. CASE y = future_state[k][j] /\ j \in DOMAIN future_state[k]
      BY <1>4, <2>4, <2>5
    <2>6. CASE j = Len(future_state[k]) + 1
      <3>1. i \in Nat
        BY <1>0, <2>4
      <3> QED BY <2>1, <2>4, <2>6, <3>1
    <2> QED BY <2>1, <2>5, <2>6
  <1> QED BY <1>0, <1>5, <1>6, <1>7, <1>8, QueueStep

\* The events that report a request are not about the link or the discovery.
LEMMA RequestReports ==
    ASSUME NEW k \in Slot, NEW q \in Req, NEW e, Reports(AttOp(k[2], k[3], q), k[1], e)
    PROVE  /\ e.dev = k[1] /\ e.attr = k[3] /\ e.req = q
           /\ e.ev \in (CharEvent \ {"DiscoveredCharacteristicDescriptors"}) \cup DescEvent
           /\ e.ev = "CharacteristicNotified" => k[2] = "read"
           /\ k[2] # "read_descriptor" /\ Truly(AttOp(k[2], k[3], q), e) =>
                 \E kind \in {"Ok", "ReadResult"} : AnsweredFrom(e, k, kind)
           /\ AttOp(k[2], k[3], q).op # "included"
  <1>1. k[2] \in CharOp \cup DescOp /\ k = <<k[1], k[2], k[3]>>
    BY DEF Slot
  <1>2. /\ e.dev = k[1] /\ e.attr = k[3] /\ e.req = q
        /\ \/ k[2] = "read" /\ e.ev = "CharacteristicNotified"
           \/ k[2] = "write" /\ e.ev = "CharacteristicWritten"
           \/ k[2] \in {"subscribe", "unsubscribe"}
              /\ e.ev \in {"CharacteristicSubscribed", "CharacteristicUnsubscribed"}
           \/ k[2] = "read_descriptor" /\ e.ev = "DescriptorNotified"
           \/ k[2] = "write_descriptor" /\ e.ev = "DescriptorWritten"
    BY <1>1 DEF Reports, AttOp, CharOp, DescOp
  <1>3. /\ e.ev \in (CharEvent \ {"DiscoveredCharacteristicDescriptors"}) \cup DescEvent
        /\ e.ev = "CharacteristicNotified" => k[2] = "read"
        /\ k[2] # "included"
    BY <1>1, <1>2 DEF CharEvent, DescEvent, CharOp, DescOp
  <1>4. ASSUME k[2] # "read_descriptor", Truly(AttOp(k[2], k[3], q), e)
        PROVE  \E kind \in {"Ok", "ReadResult"} : AnsweredFrom(e, k, kind)
    <2>1. /\ k[2] = "subscribe" => e.ev = "CharacteristicSubscribed"
          /\ k[2] = "unsubscribe" => e.ev = "CharacteristicUnsubscribed"
      BY <1>4 DEF Truly, AttOp
    <2>2. AnsweredFrom(e, k, IF k[2] = "read" THEN "ReadResult" ELSE "Ok")
      BY <1>1, <1>2, <1>4, <2>1 DEF AnsweredFrom
    <2> QED BY <2>2
  <1> QED BY <1>2, <1>3, <1>4 DEF AttOp

\* Handling an event adds no call to a queue.
LEMMA NoneAdded ==
    ASSUME TypeOK, [Next]_vars, EventForms, NEW k \in Slot
    PROVE  Range(future_state'[k]) \subseteq Range(future_state[k])
  <1>0. future_state \in [Slot -> Seq(Req)]
    BY DEF TypeOK
  <1>1. CASE future_state'[k] = future_state[k] \/ future_state'[k] = <<>>
    BY <1>1 DEF Range
  <1>2. CASE \E kind : Fulfilled(k, kind) /\ future_state'[k] = Tail(future_state[k])
    <2>1. future_state[k] # <<>> /\ future_state[k] \in Seq(Req)
      BY <1>0, <1>2 DEF Fulfilled
    <2>2. \A i \in DOMAIN Tail(future_state[k]) :
             i + 1 \in DOMAIN future_state[k] /\ Tail(future_state[k])[i] = future_state[k][i + 1]
      BY <2>1
    <2> QED BY <1>2, <2>2 DEF Range
  <1>3. CASE \E r : RequestOnAttribute(r)
    <2>1. \A s \in Seq(CentralDelegateEvent) : s # <<>> => Tail(s) # s
      OBVIOUS
    <2>2. delegate' = delegate /\ delegate \in Seq(CentralDelegateEvent)
      BY <1>3 DEF RequestOnAttribute, TypeOK, DelegateTypeOK
    <2>3. \E why : Panic(why)
      BY <2>1, <2>2, HandlerTakes DEF Occurs, Consume
    <2> QED BY <2>3, <1>1 DEF Panic
  <1> QED BY <1>1, <1>2, <1>3, QueueStep

\* An event that reports a call which is queued answers that call, or a link is over.
LEMMA ReportAnswers ==
    ASSUME IInv, EventTags, QueueHas, EventForms, NEW k \in Slot, k[2] # "read_descriptor",
           NEW q \in Req, q \in Range(future_state[k]),
           Reports(AttOp(k[2], k[3], q), k[1], Head(delegate)), delegate # <<>>
    PROVE  \/ Broken(1, k[1])
           \/ \E kind : Fulfilled(k, kind)
           \/ \E why : Panic(why)
  <1> DEFINE e == Head(delegate)
  <1>0. /\ TypeOK /\ 1 \in DOMAIN delegate /\ e = delegate[1]
    BY DEF IInv, TypeOK, DelegateTypeOK
  <1>1. /\ e.dev = k[1] /\ e.attr = k[3] /\ e.req = q
        /\ e.ev \in (CharEvent \ {"DiscoveredCharacteristicDescriptors"}) \cup DescEvent
        /\ e.ev = "CharacteristicNotified" => k[2] = "read"
        /\ Truly(AttOp(k[2], k[3], q), e) =>
              \E kind \in {"Ok", "ReadResult"} : AnsweredFrom(e, k, kind)
    BY RequestReports
  <1>2. OwnOp(q) = AttOp(k[2], k[3], q)
    <2>1. SlotOf(q) = k
      BY DEF IInv, FutureInOnePlace, QueuesHold
    <2> QED BY <2>1 DEF SlotOf, OwnOp
  <1>3. Truly(OwnOp(q), e) \/ Broken(1, e.dev)
    BY <1>0, <1>1 DEF EventTags
  <1>4. future_state[k] # <<>> /\ Has(k[1], k[3])
    <2>1. future_state[k] # <<>>
      BY DEF Range
    <2> QED BY <2>1 DEF QueueHas
  <1>5. k = <<k[1], k[2], k[3]>>
    BY DEF Slot
  <1>6. ~ Unheeded
    <2>1. e.ev # "ConnectedDevice"
      BY <1>1 DEF CharEvent, DescEvent
    <2> QED BY <1>1, <1>4, <1>5, <2>1 DEF Unheeded, Has
  <1>7. e.ev \notin {"DiscoveredPeripheral", "DiscoveredServices", "DiscoveredCharacteristics",
                     "DiscoveredCharacteristicDescriptors", "ConnectionFailed", "DisconnectedDevice"}
    BY <1>1 DEF CharEvent, DescEvent
  <1>8. CASE \E l \in Slot, kind \in {"Ok", "ReadResult"} : Fulfilled(l, kind)
    <2>1. PICK l \in Slot, kind \in {"Ok", "ReadResult"} : Fulfilled(l, kind)
      BY <1>8
    <2>2. CASE Truly(OwnOp(q), e)
      <3>1. PICK kind2 \in {"Ok", "ReadResult"} : AnsweredFrom(e, k, kind2)
        BY <1>1, <1>2, <2>2
      <3>2. AnsweredFrom(e, l, kind)
        BY <2>1 DEF Fulfilled
      <3>3. k = l
        BY <3>1, <3>2 DEF AnsweredFrom
      <3> QED BY <2>1, <3>3
    <2> QED BY <1>1, <1>3, <2>2
  <1> QED BY <1>6, <1>7, <1>8
          DEF EventForms, LiveForms, OnDiscoveredPeripheral, FoundServices, FoundChars, FoundDescs, ReportsFailure,
              Forgets, Occurs

\* Every call that is queued is still to come.
LEMMA HeldStep ==
    ASSUME IInv, TagInv, UnknownHoldsNothing, QueueHas, UpInv, OrderInv, HeldInv, [Next]_vars
    PROVE  HeldInv'
  <1> SUFFICES ASSUME NEW k \in Slot, k[2] # "read_descriptor",
                      ~ Broken(0, k[1])', cb'[k[1]].link # "disconnecting",
                      NEW q, q \in Range(future_state'[k])
               PROVE  Later(0, k[1], AttOp(k[2], k[3], q))'
    BY DEF HeldInv, Broken, Over, Later
  <1> DEFINE d == k[1]
             o == AttOp(k[2], k[3], q)
  <1>0. /\ TypeOK /\ TypeOK' /\ d \in Device /\ future_state[k] \in Seq(Req)
        /\ future_state'[k] \in Seq(Req) /\ q \in Req
        /\ Len(delegate) \in Nat /\ 0 \in 0..Len(delegate) /\ DOMAIN delegate = 1..Len(delegate)
    <2>1. TypeOK'
      BY StepType DEF IInv
    <2>2. k[1] \in Device
      BY DEF Slot
    <2>3. future_state'[k] \in Seq(Req)
      BY <2>1 DEF TypeOK
    <2>4. q \in Req
      BY <2>3 DEF Range
    <2> QED BY <2>1, <2>2, <2>3, <2>4 DEF IInv, TypeOK, DelegateTypeOK
  <1>1. ASSUME q \in Range(future_state[k])
        PROVE  Broken(0, d) \/ cb[d].link = "disconnecting" \/ Later(0, d, o)
    BY <1>1 DEF HeldInv
  <1>2. o.op # "included"
    <2>1. k[2] \in CharOp \cup DescOp
      BY DEF Slot
    <2> QED BY <2>1 DEF AttOp, CharOp, DescOp
  <1>3. CASE (\E c \in Device : CallbackShapes(c)) /\ UNCHANGED internalVars
    <2>1. PICK c \in Device : CallbackShapes(c)
      BY <1>3
    <2>2. q \in Range(future_state[k])
      BY <1>3 DEF internalVars, futureVars
    <2>3. ~ Broken(0, d) /\ (Later(0, d, o) => Later(0, d, o)')
      BY <1>0, <1>2, <2>1, LaterCallback
    <2>4. ~ Over(0, d)'
      BY DEF Broken
    <2>5. cb[d].link # "disconnecting"
      <3>1. CASE cb'[d].link = cb[d].link
        BY <3>1
      <3>2. CASE DidConnectPeripheral(d) \/ DidFailToConnectPeripheral(d)
        BY <3>2 DEF DidConnectPeripheral, DidFailToConnectPeripheral
      <3> QED BY <1>0, <2>1, <2>4, <3>1, <3>2, LinkSteps
    <2> QED BY <1>1, <2>2, <2>3, <2>5
  <1>4. CASE HandleMessage
    <2>1. UNCHANGED <<delegate, tree, known>> /\ (cb' = cb \/ \E c \in Device : Requests(c))
      BY <1>0, <1>4, MessageForm
    <2>2. ~ Broken(0, d) /\ ~ Over(0, d) /\ (Later(0, d, o) => Later(0, d, o)')
      <3>1. CASE cb' = cb
        BY <2>1, <3>1 DEF Later, Broken, Over
      <3>2. CASE \E c \in Device : Requests(c)
        BY <1>0, <2>1, <3>2, LaterRequest DEF Broken
      <3> QED BY <2>1, <3>1, <3>2
    <2>3. cb[d].link # "disconnecting"
      <3>1. ASSUME NEW c \in Device, Requests(c), cb[d].link = "disconnecting"
            PROVE  cb'[d].link = "disconnecting"
        <4>0. cb \in [Device -> [link : {"disconnected", "connecting", "connected", "disconnecting"},
                           dial : BOOLEAN, att : Seq(AttOps), notifying : SUBSET Char,
                           cached : SUBSET Char, failed : BOOLEAN]]
          BY <1>0 DEF TypeOK, DelegateTypeOK
        <4>1. CASE Connect(c)
          BY <1>0, <4>0, <3>1, <4>1 DEF Connect
        <4>2. CASE CancelConnection(c)
          BY <1>0, <4>0, <3>1, <4>2 DEF CancelConnection
        <4>3. CASE \E op, a, r : Ask(c, op, a, r)
          BY <1>0, <4>0, <3>1, <4>3 DEF Ask
        <4> QED BY <3>1, <4>1, <4>2, <4>3 DEF Requests
      <3> QED BY <2>1, <3>1
    <2>4. CASE q \in Range(future_state[k])
      BY <1>1, <2>2, <2>3, <2>4
    <2>5. CASE q \notin Range(future_state[k])
      <3>1. RequestOnAttribute(q) /\ SlotOf(q) = k /\ Has(d, k[3])
        <4>1. ASSUME NEW r \in Req, future_state'[k] = Append(future_state[k], r)
              PROVE  q = r
          BY <1>0, <2>5, <4>1 DEF Range
        <4>2. future_state'[k] # <<>> /\ future_state'[k] # future_state[k]
          BY <2>5 DEF Range
        <4>3. ~ \E kind : Fulfilled(k, kind)
          <5>1. delegate' # delegate \/ ~ \E kind : Fulfilled(k, kind)
            BY <1>0 DEF Fulfilled, Consume, Occurs, TypeOK, DelegateTypeOK
          <5> QED BY <2>1, <5>1
        <4> QED BY <1>0, <4>1, <4>2, <4>3, QueueStep
      <3>2. ask[q].dev = d /\ OpOf(q) = k[2] /\ ask[q].attr = k[3]
        BY <3>1 DEF SlotOf
      <3>3. cb[d].link = "connected"
        <4>1. tree[d].has # {}
          BY <3>1 DEF Has
        <4> QED BY <1>0, <2>2, <2>3, <4>1 DEF UpInv, LinkUp
      <3>4. Ask(d, k[2], k[3], q)
        BY <3>1, <3>2 DEF RequestOnAttribute
      <3>5. cb'[d].att = Append(cb[d].att, o) /\ o \in AttOps /\ cb[d].att \in Seq(AttOps)
        <4>1. o \in AttOps
          BY <1>0 DEF Slot, AttOp, AttOps
        <4> QED BY <1>0, <3>3, <3>4, <4>1 DEF Ask, TypeOK, DelegateTypeOK
      <3>6. \E j \in DOMAIN cb'[d].att : cb'[d].att[j] = o
        <4>1. \A x, s, t : s \in Seq(AttOps) /\ x \in AttOps /\ t = Append(s, x)
                             => \E j \in DOMAIN t : t[j] = x
          BY AppendHas
        <4> HIDE DEF o, d
        <4> QED BY <3>5, <4>1
      <3> QED BY <3>6 DEF Later
    <2> QED BY <2>4, <2>5
  <1>5. CASE EventForms
    <2> DEFINE e == Head(delegate)
    <2>1. ~ Emptied(d)' /\ ~ \E why : Panic(why)
      <3>1. future_state'[k] # <<>>
        BY DEF Range
      <3> QED BY <3>1 DEF Emptied, Panic
    <2>2. ~ Broken(0, d)
      BY <1>0, <1>5, <2>1, BrokenTaken
    <2>3. Occurs(e.ev) /\ Consume /\ cb' = cb
      BY <1>0, <1>5, <2>1, HandlerTakes
    <2>4. q \in Range(future_state[k])
      BY <1>0, <1>5, NoneAdded
    <2>5. Later(0, d, o)
      BY <1>1, <2>2, <2>3, <2>4
    <2>6. ~ Reports(o, d, e)
      <3>1. SUFFICES ASSUME Reports(o, d, e)
                     PROVE  FALSE
        OBVIOUS
      <3>2. ~ Broken(1, d)
        <4>1. Broken(0 + 1, d) => Broken(0, d)'
          BY <1>0, <2>3, LaterTail DEF Broken
        <4> QED BY <4>1
      <3>3. delegate # <<>>
        BY <2>3 DEF Occurs
      <3>4. PICK kind : Fulfilled(k, kind)
        BY <1>0, <1>5, <2>1, <2>4, <3>1, <3>2, <3>3, ReportAnswers DEF TagInv
      <3>5. future_state'[k] = Tail(future_state[k]) /\ future_state[k] # <<>>
        BY <1>0, <3>4 DEF Fulfilled, Pop, TypeOK
      <3>6. PICK n \in DOMAIN future_state[k] : n > 1 /\ future_state[k][n] = q
        <4>1. PICK m \in DOMAIN Tail(future_state[k]) : Tail(future_state[k])[m] = q
          BY <3>5 DEF Range
        <4>2. m + 1 \in DOMAIN future_state[k] /\ m + 1 > 1 /\ future_state[k][m + 1] = q
          BY <1>0, <3>5, <4>1
        <4> QED BY <4>2
      <3> DEFINE h == future_state[k][1]
      <3>7. 1 \in DOMAIN future_state[k] /\ h \in Req /\ h # q
        <4>1. 1 \in DOMAIN future_state[k] /\ h \in Req /\ n # 1
          BY <1>0, <3>5, <3>6
        <4> QED BY <3>6, <4>1 DEF IInv, FutureInOnePlace, QueuesHold, Distinct
      <3>8. Later(0, d, AttOp(k[2], k[3], h))
        <4>1. h \in Range(future_state[k])
          BY <3>7 DEF Range
        <4> QED BY <2>2, <2>3, <4>1 DEF HeldInv
      <3>9. 1 \in DOMAIN delegate /\ delegate[1] = e /\ e.dev = d /\ e.req = q
        BY <1>0, <2>3, <3>1, TailEvents DEF Reports, AttOp
      <3>10. Before(d, q, h)
        <4>1. ASSUME NEW j \in DOMAIN cb[d].att, cb[d].att[j] = AttOp(k[2], k[3], h)
              PROVE  Before(d, q, h)
          <5>1. cb[d].att[j].req = h
            BY <4>1 DEF AttOp
          <5> QED BY <3>9, <5>1 DEF Before
        <4>2. ASSUME NEW j \in DOMAIN delegate, Reports(AttOp(k[2], k[3], h), d, delegate[j])
              PROVE  Before(d, q, h)
          <5>1. delegate[j].req = h /\ delegate[j].dev = d
            BY <4>2 DEF Reports, AttOp
          <5>2. 1 < j
            BY <1>0, <3>7, <3>9, <5>1
          <5> QED BY <3>9, <5>1, <5>2 DEF Before
        <4> QED BY <3>8, <4>1, <4>2 DEF Later
      <3>11. n < 1
        BY <3>6, <3>7, <3>10 DEF OrderInv
      <3> QED BY <1>0, <3>6, <3>11
    <2> HIDE DEF o, e
    <2>7. Later(0, d, o) /\ ~ Reports(o, d, Head(delegate)) => Later(0, d, o)'
      BY <1>0, <2>3, LaterTail
    <2>8. Later(0, d, o)'
      BY <2>5, <2>6, <2>7 DEF e
    <2> QED BY <2>8 DEF o
  <1>6. CASE UNCHANGED <<cb, delegate, futureVars>>
    BY <1>1, <1>6 DEF futureVars, Later, Broken, Over
  <1> QED BY <1>0, <1>3, <1>4, <1>5, <1>6, StepForm

PipelineInv ==
    /\ QueueHas /\ UpInv /\ FollowInv
    /\ Undisc /\ ConnectInv /\ OrderInv /\ HeldInv

\* At first nothing is asked for.
LEMMA PipelineStart == Init => PipelineInv
  <1> SUFFICES ASSUME Init
               PROVE  PipelineInv
    OBVIOUS
  <1>1. /\ future_state = [k \in Slot |-> <<>>] /\ delegate = <<>>
        /\ tree = [d \in Device |-> NoTree] /\ connected_future_state = [d \in Device |-> NoReq]
    BY DEF Init, DelegateInit
  <1>2. DOMAIN delegate = {} /\ \A k \in Slot : DOMAIN future_state[k] = {}
    BY <1>1
  <1>3. \A d \in Device : tree[d].has = {}
    BY <1>1 DEF NoTree
  <1>4. \A k \in Slot : Range(future_state[k]) = {}
    BY <1>2 DEF Range
  <1>5. QueueHas /\ ConnectInv
    BY <1>1 DEF QueueHas, ConnectInv
  <1>6. UpInv /\ FollowInv
    BY <1>2, <1>3 DEF UpInv, FollowInv
  <1>7. Undisc /\ OrderInv /\ HeldInv
    BY <1>2, <1>3, <1>4 DEF Undisc, OrderInv, HeldInv
  <1> QED BY <1>5, <1>6, <1>7 DEF PipelineInv

\* Every step keeps what is asked for in sight.
LEMMA PipelineStep == IInv /\ TreeInv /\ TagInv /\ PipelineInv /\ [Next]_vars => PipelineInv'
  <1> SUFFICES ASSUME IInv, TreeInv, TagInv, PipelineInv, [Next]_vars
               PROVE  PipelineInv'
    OBVIOUS
  <1>1. /\ TypeOK /\ UnknownHoldsNothing /\ AttTags /\ EventTags
        /\ QueueHas /\ UpInv /\ FollowInv /\ Undisc /\ ConnectInv /\ OrderInv /\ HeldInv
    BY DEF IInv, TreeInv, TagInv, PipelineInv
  <1>2. QueueHas' /\ UpInv' /\ FollowInv'
    BY <1>1, QueueHasStep, UpStep, FollowStep
  <1>3. Undisc' /\ ConnectInv'
    BY <1>1, UndiscStep, AwaitStep
  <1>4. OrderInv' /\ HeldInv'
    BY <1>1, OrderStep, HeldStep
  <1> QED BY <1>2, <1>3, <1>4 DEF PipelineInv

\* A future that waits for a device that has nothing left to do is a stranded one.
LEMMA QuietMeansStranded ==
    ASSUME IInv, PipelineInv
    PROVE  NoQuietDeadlock
  <1> SUFFICES ASSUME NEW r \in Req, st[r] = "held", Quiet(ask[r].dev), ~ Stranded(r)
               PROVE  FALSE
    BY DEF NoQuietDeadlock
  <1> DEFINE d == ask[r].dev
  <1>1. d \in Device
    BY CallAssumption DEF IInv, TypeOK, Call
  <1>2. \A o : ~ Later(0, d, o)
    BY DEF Quiet, Later, Reports
  <1>3. ~ Broken(0, d)
    BY DEF Quiet, Stranded, Broken, Over
  <1>4. CASE r = connected_future_state[d]
    <2>0. LinkSlotHolds(connected_future_state, "connect") /\ r # NoReq
      BY DelegateAssumption DEF IInv, FutureInOnePlace
    <2>1. r # NoReq /\ OpOf(r) = "connect"
      BY <1>1, <1>4, <2>0 DEF LinkSlotHolds
    <2>2. ~ Complete(tree[d])
      <3>1. Awaits(d)
        BY <1>1, <1>4, <2>1 DEF PipelineInv, ConnectInv
      <3>2. ServicesOf[d] # <<>>
        BY <2>1 DEF Stranded
      <3>3. ~ cb[d].dial /\ cb[d].link # "disconnecting"
        BY DEF Quiet
      <3>4. ~ \E i \in DOMAIN delegate : delegate[i].ev = "ConnectionFailed" /\ delegate[i].dev = d
        BY DEF Quiet
      <3> QED BY <1>2, <1>3, <3>1, <3>2, <3>3, <3>4 DEF Awaits
    <2>3. PICK s \in Service : s \in tree[d].has /\ s \notin tree[d].discovered
      BY <2>2 DEF Complete
    <2>4. ServiceFollowed(d, s)
      BY <1>1, <1>3, <2>3 DEF PipelineInv, Undisc
    <2> QED BY <1>2, <2>3, <2>4 DEF ServiceFollowed
  <1>5. CASE r = disconnected_future_state[d]
    <2>0. LinkSlotHolds(disconnected_future_state, "disconnect") /\ r # NoReq
      BY DelegateAssumption DEF IInv, FutureInOnePlace
    <2>1. OpOf(r) = "disconnect"
      BY <1>1, <1>5, <2>0 DEF LinkSlotHolds
    <2>2. cb[d].link # "disconnecting" /\ ~ LossQueued(d)
      BY DEF Quiet, LossQueued
    <2> QED BY <2>1, <2>2 DEF Stranded
  <1>6. CASE SlotOf(r) \in Slot /\ r \in Range(future_state[SlotOf(r)])
    <2>1. SlotOf(r)[1] = d /\ SlotOf(r)[2] = OpOf(r)
      BY DEF SlotOf
    <2>2. OpOf(r) # "read_descriptor"
      BY DEF Stranded
    <2>3. \/ Broken(0, SlotOf(r)[1])
          \/ cb[SlotOf(r)[1]].link = "disconnecting"
          \/ Later(0, SlotOf(r)[1], AttOp(SlotOf(r)[2], SlotOf(r)[3], r))
      BY <1>6, <2>1, <2>2 DEF PipelineInv, HeldInv
    <2>4. cb[d].link # "disconnecting"
      BY DEF Quiet
    <2> QED BY <1>2, <1>3, <2>1, <2>3, <2>4
  <1> QED BY <1>4, <1>5, <1>6 DEF IInv, FutureInOnePlace, HeldSomewhere

\* The quiet deadlocks that future.rs fears have no causes but the four that Stranded names:
\* for every layout of a device, any number of devices and calls, and every order of
\* messages, results and broken links, whenever nothing more will come of a device no
\* other future of it is still held.
THEOREM NoOtherQuietDeadlock == Spec => []NoQuietDeadlock
  <1>1. Init => IInv
    BY InitPlaces
  <1>2. IInv /\ [Next]_vars => IInv'
    BY StepPlaces
  <1>3. Init => TreeInv /\ TagInv /\ PipelineInv
    BY TreeInvStart, TagInvStart, PipelineStart
  <1>4. IInv /\ TreeInv /\ TagInv /\ PipelineInv /\ [Next]_vars => TreeInv' /\ TagInv' /\ PipelineInv'
    BY TreeInvStep, TagInvStep, PipelineStep
  <1>5. IInv /\ PipelineInv => NoQuietDeadlock
    BY QuietMeansStranded
  <1> QED BY <1>1, <1>2, <1>3, <1>4, <1>5, PTL DEF Spec

----------------------------------------------------------------------------
(* A call is answered at the latest by its own completion. *)

\* When a call of a queue has its operation in the pipeline, so has every call before it:
\* the queue and the pipeline lose their calls from the same end.
AheadInv ==
    \A k \in Slot : k[2] # "read_descriptor" =>
        \/ Broken(0, k[1])
        \/ \A i, j \in DOMAIN future_state[k] :
              i < j /\ Pending(future_state[k][j])
              => Later(0, k[1], AttOp(k[2], k[3], future_state[k][i]))

\* A call that stays in its queue was not reported by the event that was handled.
LEMMA OwnAnswerLeaves ==
    ASSUME IInv, TagInv, UnknownHoldsNothing, QueueHas, OrderInv, AheadInv, [Next]_vars, EventForms,
           NEW k \in Slot, k[2] # "read_descriptor", ~ Broken(0, k[1])',
           NEW q \in Req, q \in Range(future_state'[k]), delegate # <<>>,
           Reports(AttOp(k[2], k[3], q), k[1], Head(delegate))
    PROVE  FALSE
  <1> DEFINE d == k[1]
             e == Head(delegate)
  <1>0. /\ TypeOK /\ d \in Device /\ future_state[k] \in Seq(Req)
        /\ Len(delegate) \in Nat /\ DOMAIN delegate = 1..Len(delegate)
    <2>1. k[1] \in Device
      BY DEF Slot
    <2> QED BY <2>1 DEF IInv, TypeOK, DelegateTypeOK
  <1>1. ~ Emptied(d)' /\ ~ \E why : Panic(why)
    <2>1. future_state'[k] # <<>>
      BY DEF Range
    <2> QED BY <2>1 DEF Emptied, Panic
  <1>2. ~ Broken(0, d)
    BY <1>0, <1>1, BrokenTaken
  <1>3. Occurs(e.ev) /\ Consume /\ cb' = cb
    BY <1>0, <1>1, HandlerTakes
  <1>4. q \in Range(future_state[k])
    BY <1>0, NoneAdded
  <1>5. ~ Broken(1, d)
    <2>1. Broken(0 + 1, d) => Broken(0, d)'
      BY <1>0, <1>3, LaterTail DEF Broken
    <2> QED BY <2>1
  <1>6. PICK kind : Fulfilled(k, kind)
    BY <1>1, <1>4, <1>5, ReportAnswers DEF TagInv
  <1>7. future_state'[k] = Tail(future_state[k]) /\ future_state[k] # <<>>
    BY <1>0, <1>6 DEF Fulfilled, Pop, TypeOK
  <1>8. PICK n \in DOMAIN future_state[k] : n > 1 /\ future_state[k][n] = q
    <2>1. PICK m \in DOMAIN Tail(future_state[k]) : Tail(future_state[k])[m] = q
      BY <1>7 DEF Range
    <2>2. m + 1 \in DOMAIN future_state[k] /\ m + 1 > 1 /\ future_state[k][m + 1] = q
      BY <1>0, <1>7, <2>1
    <2> QED BY <2>2
  <1> DEFINE h == future_state[k][1]
  <1>9. 1 \in DOMAIN future_state[k] /\ h \in Req /\ h # q
    <2>1. 1 \in DOMAIN future_state[k] /\ h \in Req /\ n # 1
      BY <1>0, <1>7, <1>8
    <2> QED BY <1>8, <2>1 DEF IInv, FutureInOnePlace, QueuesHold, Distinct
  <1>10. 1 \in DOMAIN delegate /\ delegate[1] = e /\ e.dev = d /\ e.req = q
    BY <1>0, <1>3, TailEvents DEF Reports, AttOp
  <1>11. Later(0, d, AttOp(k[2], k[3], h))
    <2>1. Pending(q)
      BY <1>10 DEF Pending
    <2>2. 1 < n
      BY <1>0, <1>8
    <2> QED BY <1>2, <1>8, <1>9, <2>1, <2>2 DEF AheadInv
  <1>12. Before(d, q, h)
    <2>1. ASSUME NEW j \in DOMAIN cb[d].att, cb[d].att[j] = AttOp(k[2], k[3], h)
          PROVE  Before(d, q, h)
      <3>1. cb[d].att[j].req = h
        BY <2>1 DEF AttOp
      <3> QED BY <1>10, <3>1 DEF Before
    <2>2. ASSUME NEW j \in DOMAIN delegate, Reports(AttOp(k[2], k[3], h), d, delegate[j])
          PROVE  Before(d, q, h)
      <3>1. delegate[j].req = h /\ delegate[j].dev = d
        BY <2>2 DEF Reports, AttOp
      <3>2. 1 < j
        BY <1>0, <1>9, <1>10, <3>1
      <3> QED BY <1>10, <3>1, <3>2 DEF Before
    <2> QED BY <1>11, <2>1, <2>2 DEF Later
  <1>13. n < 1
    BY <1>8, <1>9, <1>12 DEF OrderInv
  <1> QED BY <1>0, <1>8, <1>13

\* Two calls of a queue were in it in this order, or the second one comes from the channel.
LEMMA OrderOfQueue ==
    ASSUME IInv, [Next]_vars, NEW k \in Slot,
           NEW i \in DOMAIN future_state'[k], NEW j \in DOMAIN future_state'[k], i < j
    PROVE  \/ \E l, m \in DOMAIN future_state[k] :
                 /\ l < m /\ future_state'[k][i] = future_state[k][l]
                 /\ future_state'[k][j] = future_state[k][m]
           \/ /\ RequestOnAttribute(future_state'[k][j])
              /\ SlotOf(future_state'[k][j]) = k /\ Has(k[1], k[3])
              /\ future_state'[k][i] \in Range(future_state[k])
  <1>0. TypeOK /\ future_state[k] \in Seq(Req)
    BY DEF IInv, TypeOK
  <1>1. CASE future_state'[k] = future_state[k]
    BY <1>1
  <1>2. CASE future_state'[k] = <<>>
    BY <1>2
  <1>3. CASE \E kind : Fulfilled(k, kind) /\ future_state'[k] = Tail(future_state[k])
    <2>1. future_state[k] # <<>>
      BY <1>3 DEF Fulfilled
    <2>2. /\ i + 1 \in DOMAIN future_state[k] /\ j + 1 \in DOMAIN future_state[k] /\ i + 1 < j + 1
          /\ future_state'[k][i] = future_state[k][i + 1]
          /\ future_state'[k][j] = future_state[k][j + 1]
      BY <1>0, <1>3, <2>1
    <2> QED BY <2>2
  <1>4. ASSUME NEW r \in Req, RequestOnAttribute(r), SlotOf(r) = k, Has(k[1], k[3]),
               future_state'[k] = Append(future_state[k], r)
        PROVE  \/ \E l, m \in DOMAIN future_state[k] :
                     /\ l < m /\ future_state'[k][i] = future_state[k][l]
                     /\ future_state'[k][j] = future_state[k][m]
               \/ /\ RequestOnAttribute(future_state'[k][j])
                  /\ SlotOf(future_state'[k][j]) = k /\ Has(k[1], k[3])
                  /\ future_state'[k][i] \in Range(future_state[k])
    <2>1. /\ i \in DOMAIN future_state[k] /\ future_state'[k][i] = future_state[k][i]
          /\ \/ j \in DOMAIN future_state[k] /\ future_state'[k][j] = future_state[k][j]
             \/ future_state'[k][j] = r
      BY <1>0, <1>4
    <2>2. future_state'[k][i] \in Range(future_state[k])
      BY <2>1 DEF Range
    <2> QED BY <1>4, <2>1, <2>2
  <1> QED BY <1>0, <1>1, <1>2, <1>3, <1>4, QueueStep

\* A queue keeps in the pipeline what is ahead of a call that is in it.
LEMMA AheadStep ==
    ASSUME IInv, TagInv, UnknownHoldsNothing, QueueHas, UpInv, OrderInv, HeldInv, AheadInv, [Next]_vars
    PROVE  AheadInv'
  <1> SUFFICES ASSUME NEW k \in Slot, k[2] # "read_descriptor", ~ Broken(0, k[1])',
                      NEW i \in DOMAIN future_state'[k], NEW j \in DOMAIN future_state'[k], i < j,
                      NEW x, x = future_state'[k][i], NEW y, y = future_state'[k][j], Pending(y)'
               PROVE  Later(0, k[1], AttOp(k[2], k[3], x))'
    BY DEF AheadInv, Broken, Over, Later, Pending
  <1> DEFINE d == k[1]
             o == AttOp(k[2], k[3], x)
             Old == \E l, m \in DOMAIN future_state[k] :
                       l < m /\ x = future_state[k][l] /\ y = future_state[k][m]
  <1>0. /\ TypeOK /\ TypeOK' /\ d \in Device /\ future_state[k] \in Seq(Req)
        /\ x \in Req /\ y \in Req
        /\ Len(delegate) \in Nat /\ 0 \in 0..Len(delegate) /\ DOMAIN delegate = 1..Len(delegate)
    <2>1. TypeOK'
      BY StepType DEF IInv
    <2>2. k[1] \in Device
      BY DEF Slot
    <2>3. future_state'[k] \in Seq(Req)
      BY <2>1 DEF TypeOK
    <2> QED BY <2>1, <2>2, <2>3 DEF IInv, TypeOK, DelegateTypeOK
  <1>1. \/ Old
        \/ RequestOnAttribute(y) /\ SlotOf(y) = k /\ Has(d, k[3]) /\ x \in Range(future_state[k])
    BY OrderOfQueue
  <1>2. ASSUME y \in Range(future_state[k])
        PROVE  ~ RequestOnAttribute(y)
    <2>1. st[y] = "held"
      BY <1>2 DEF IInv, FutureInOnePlace, QueuesHold
    <2> QED BY <1>0, <2>1, RequestIsNew DEF TagInv
  <1>3. Old => Broken(0, d) \/ Later(0, d, o)
    <2>1. SUFFICES ASSUME NEW l \in DOMAIN future_state[k], NEW m \in DOMAIN future_state[k],
                          l < m, x = future_state[k][l], y = future_state[k][m]
                   PROVE  Broken(0, d) \/ Later(0, d, o)
      OBVIOUS
    <2>2. y \in Range(future_state[k])
      BY <2>1 DEF Range
    <2>3. Pending(y)
      BY <1>0, <1>2, <2>2, PendingStep
    <2> QED BY <2>1, <2>3 DEF AheadInv
  <1>4. o.op # "included"
    <2>1. k[2] \in CharOp \cup DescOp
      BY DEF Slot
    <2> QED BY <2>1 DEF AttOp, CharOp, DescOp
  <1>5. CASE (\E c \in Device : CallbackShapes(c)) /\ UNCHANGED internalVars
    <2>1. PICK c \in Device : CallbackShapes(c)
      BY <1>5
    <2>2. Old
      BY <1>5 DEF internalVars, futureVars
    <2>3. ~ Broken(0, d) /\ (Later(0, d, o) => Later(0, d, o)')
      BY <1>0, <1>4, <2>1, LaterCallback
    <2> QED BY <1>3, <2>2, <2>3
  <1>6. CASE HandleMessage
    <2>1. UNCHANGED <<delegate, tree, known>> /\ (cb' = cb \/ \E c \in Device : Requests(c))
      BY <1>0, <1>6, MessageForm
    <2>2. ~ Broken(0, d) /\ (Later(0, d, o) => Later(0, d, o)')
      <3>1. CASE cb' = cb
        BY <2>1, <3>1 DEF Later, Broken, Over
      <3>2. CASE \E c \in Device : Requests(c)
        BY <1>0, <2>1, <3>2, LaterRequest DEF Broken
      <3> QED BY <2>1, <3>1, <3>2
    <2>3. CASE Old
      BY <1>3, <2>2, <2>3
    <2>4. ASSUME RequestOnAttribute(y), SlotOf(y) = k, Has(d, k[3]), x \in Range(future_state[k])
          PROVE  Later(0, d, o)
      <3>1. ask[y].dev = d /\ OpOf(y) = k[2] /\ ask[y].attr = k[3]
        BY <2>4 DEF SlotOf
      <3>2. Ask(d, k[2], k[3], y)
        BY <2>4, <3>1 DEF RequestOnAttribute
      <3>3. cb[d].link = "connected"
        <4>1. ~ Pending(y)
          BY <1>0, <2>4, RequestIsNew DEF TagInv
        <4>2. cb' # cb
          BY <2>1, <4>1 DEF Pending
        <4> QED BY <3>2, <4>2 DEF Ask
      <3> QED BY <2>2, <2>4, <3>3 DEF HeldInv
    <2> QED BY <1>1, <2>2, <2>3, <2>4
  <1>7. CASE EventForms
    <2>1. ~ Emptied(d)' /\ ~ \E why : Panic(why)
      <3>1. future_state'[k] # <<>>
        OBVIOUS
      <3> QED BY <3>1 DEF Emptied, Panic
    <2>2. ~ Broken(0, d)
      BY <1>0, <1>7, <2>1, BrokenTaken
    <2>3. Occurs(Head(delegate).ev) /\ Consume /\ cb' = cb
      BY <1>0, <1>7, <2>1, HandlerTakes
    <2>4. x \in Range(future_state'[k]) /\ y \in Range(future_state'[k])
      BY DEF Range
    <2>5. Later(0, d, o)
      <3>1. y \in Range(future_state[k])
        BY <1>0, <1>7, <2>4, NoneAdded
      <3> QED BY <1>1, <1>2, <1>3, <2>2, <3>1
    <2>6. ~ Reports(o, d, Head(delegate))
      <3>1. delegate # <<>>
        BY <2>3 DEF Occurs
      <3> QED BY <1>0, <1>7, <2>4, <3>1, OwnAnswerLeaves
    <2> HIDE DEF o
    <2> QED BY <1>0, <2>3, <2>5, <2>6, LaterTail DEF o
  <1>8. CASE UNCHANGED <<cb, delegate, futureVars>>
    <2>1. Old /\ (Later(0, d, o) => Later(0, d, o)') /\ ~ Broken(0, d)
      BY <1>8 DEF futureVars, Later, Broken, Over
    <2> QED BY <1>3, <2>1
  <1> QED BY <1>0, <1>5, <1>6, <1>7, <1>8, StepForm

\* For every layout of a device, any number of calls and every order of messages, results,
\* notifications and broken links, no call is left waiting by its own completion.
THEOREM AnsweredWithItsCompletion == Spec => AnsweredInTime
  <1> DEFINE A == \A r \in Req :
                    /\ OpOf(r) \in CharOp \cup {"write_descriptor"} /\ st[r] = "held"
                    /\ delegate # <<>> /\ Head(delegate).req = r /\ delegate' = Tail(delegate)
                    => st'[r] # "held" \/ cb[ask[r].dev].failed \/ LossQueued(ask[r].dev)
  <1>1. ASSUME IInv, TreeInv, TagInv, PipelineInv, AheadInv, [Next]_vars
        PROVE  A
    <2> SUFFICES ASSUME NEW r \in Req, OpOf(r) \in CharOp \cup {"write_descriptor"}, st[r] = "held",
                        delegate # <<>>, Head(delegate).req = r, delegate' = Tail(delegate),
                        st'[r] = "held", ~ cb[ask[r].dev].failed, ~ LossQueued(ask[r].dev)
                 PROVE  FALSE
      OBVIOUS
    <2>0. /\ TypeOK /\ TypeOK' /\ delegate \in Seq(CentralDelegateEvent)
          /\ IInv' /\ r # NoReq /\ ask' = ask
      BY <1>1, StepPlaces, StepType, ConsumedStays, DelegateAssumption
         DEF IInv, TypeOK, DelegateTypeOK
    <2>1. EventForms
      <3>1. delegate' # delegate
        BY <2>0
      <3>2. ~ HandleMessage
        BY <2>0, <3>1, MessageForm
      <3>3. ~ \E c \in Device : CallbackShapes(c)
        <4>1. SUFFICES ASSUME NEW c \in Device, CallbackShapes(c)
                       PROVE  FALSE
          OBVIOUS
        <4>2. \/ delegate' = delegate
              \/ \E e : Send(e)
          BY <4>1 DEF CallbackShapes, Reported, Silent, Unasked, DidConnectPeripheral,
                      DidFailToConnectPeripheral, DidDisconnectPeripheral
        <4>3. PICK e : delegate' = Append(delegate, e)
          BY <3>1, <4>2 DEF Send
        <4>4. Len(delegate') = Len(delegate) + 1
          BY <2>0, <4>3
        <4>5. Len(delegate') = Len(delegate) - 1 /\ Len(delegate) \in Nat
          BY <2>0
        <4> QED BY <4>4, <4>5
      <3> QED BY <1>1, <2>0, <3>1, <3>2, <3>3, StepForm
    <2>2. ~ \E why : Panic(why)
      BY DEF Panic
    <2>3. Occurs(Head(delegate).ev) /\ Consume /\ cb' = cb
      BY <2>0, <2>1, <2>2, HandlerTakes
    <2>4. PICK k \in Slot : k = SlotOf(r)
      BY <2>0, CallShape DEF DescOp
    <2>5. PICK d \in Device : d = ask[r].dev
      BY <2>0, CallShape
    <2>6. k[1] = d /\ k[2] = OpOf(r) /\ k[3] = ask[r].attr /\ k[2] # "read_descriptor"
      <3>1. OpOf(r) # "read_descriptor"
        BY DEF CharOp
      <3> QED BY <2>4, <2>5, <3>1 DEF SlotOf
    <2>7. r \in Range(future_state'[k])
      <3>1. SlotOf(r)' = k /\ OpOf(r)' = OpOf(r) /\ ask'[r].dev = d
        BY <2>0, <2>4, <2>5 DEF SlotOf, OpOf
      <3>2. connected_future_state'[d] # r /\ disconnected_future_state'[d] # r
        <4>1. /\ LinkSlotHolds(connected_future_state, "connect")'
              /\ LinkSlotHolds(disconnected_future_state, "disconnect")'
          BY <2>0 DEF IInv, FutureInOnePlace
        <4>2. OpOf(r) \notin {"connect", "disconnect"}
          BY DEF CharOp
        <4> QED BY <2>0, <3>1, <4>1, <4>2 DEF LinkSlotHolds
      <3> QED BY <2>0, <3>1, <3>2 DEF IInv, FutureInOnePlace, HeldSomewhere
    <2>8. Reports(AttOp(k[2], k[3], r), k[1], Head(delegate))
      <3>1. 1 \in DOMAIN delegate /\ Head(delegate) = delegate[1]
        BY <2>0
      <3> QED BY <1>1, <2>5, <2>6, <3>1 DEF TagInv, EventTags, OwnOp
    <2>9. ~ Broken(0, d)'
      <3>1. SUFFICES ASSUME NEW i \in DOMAIN delegate',
                            delegate'[i].dev = d, delegate'[i].ev = "DisconnectedDevice"
                     PROVE  FALSE
        BY <2>3, <2>5 DEF Broken, Over
      <3>2. i + 1 \in DOMAIN delegate /\ delegate[i + 1] = delegate'[i]
        BY <2>0, <2>3, TailEvents
      <3> QED BY <2>5, <3>1, <3>2 DEF LossQueued
    <2> QED BY <1>1, <2>1, <2>6, <2>7, <2>8, <2>9, OwnAnswerLeaves DEF TreeInv, PipelineInv
  <1>2. IInv /\ TreeInv /\ TagInv /\ PipelineInv /\ AheadInv /\ [Next]_vars => [A]_vars
    BY <1>1
  <1>3. Init => IInv /\ TreeInv /\ TagInv /\ PipelineInv
    BY InitPlaces, TreeInvStart, TagInvStart, PipelineStart
  <1>4. Init => AheadInv
    <2>1. Init => \A k \in Slot : DOMAIN future_state[k] = {}
      BY DEF Init
    <2> QED BY <2>1 DEF AheadInv
  <1>5. IInv /\ TreeInv /\ TagInv /\ PipelineInv /\ [Next]_vars => IInv' /\ TreeInv' /\ TagInv' /\ PipelineInv'
    BY StepPlaces, TreeInvStep, TagInvStep, PipelineStep
  <1>6. IInv /\ TreeInv /\ TagInv /\ PipelineInv /\ AheadInv /\ [Next]_vars => AheadInv'
    BY AheadStep DEF TreeInv, PipelineInv
  <1> QED BY <1>2, <1>3, <1>4, <1>5, <1>6, PTL DEF Spec, AnsweredInTime

----------------------------------------------------------------------------
(* The links of careful clients. *)

\* When no connect() of d was hasty, a connectPeripheral call that the framework has not
\* answered belongs to the link that is coming up, and the end of a link is not followed
\* by another link before the thread has heard of it.
LinkCalm(d) ==
    /\ cb[d].dial => cb[d].link = "connecting"
    /\ LossQueued(d) => cb[d].link = "disconnected"

CalmInv == \A d \in Device : d \notin hasty => LinkCalm(d)

\* Who was hasty stays hasty, and a connect() that was not found the device down.
LEMMA HastyStep ==
    ASSUME TypeOK, [Next]_vars
    PROVE  /\ hasty \subseteq hasty'
           /\ \A r \in Req : ConnectPeripheral(r) /\ ask[r].dev \in known /\ ask[r].dev \notin hasty'
                 => Down(ask[r].dev)
           /\ \A r \in Req : RequestOnAttribute(r) /\ Has(ask[r].dev, ask[r].attr) /\ ask[r].dev \notin hasty'
                 => connected_future_state[ask[r].dev] = NoReq
  <1>1. \A r \in Req : Notice(r) => /\ hasty \subseteq hasty'
                                    /\ ask[r].dev \notin hasty' => ~ Hasty(r)
    BY DEF Notice
  <1>2. \A r \in Req : ConnectPeripheral(r) /\ ask[r].dev \in known => Notice(r) /\ OpOf(r) = "connect"
    BY DEF ConnectPeripheral, Receive
  <1>3. \A r \in Req : RequestOnAttribute(r) /\ Has(ask[r].dev, ask[r].attr)
                       => Notice(r) /\ OpOf(r) \in CharOp \cup DescOp
    BY DEF RequestOnAttribute, Receive
  <1>4. \A r \in Req : OpOf(r) \in CharOp \cup DescOp => OpOf(r) # "connect"
    BY DEF CharOp, DescOp
  <1>5. hasty \subseteq hasty'
    <2>1. CASE HandleMessage
      <3>1. CASE Scan
        BY <3>1 DEF Scan
      <3>2. ASSUME NEW r \in Req, RequestOnAttribute(r)
            PROVE  hasty \subseteq hasty'
        BY <1>1, <3>2 DEF RequestOnAttribute
      <3>3. ASSUME NEW r \in Req, ConnectPeripheral(r)
            PROVE  hasty \subseteq hasty'
        BY <1>1, <3>3 DEF ConnectPeripheral
      <3>4. ASSUME NEW r \in Req, WriteWithoutResponse(r) \/ IsConnected(r) \/ DisconnectPeripheral(r)
            PROVE  hasty \subseteq hasty'
        BY <3>4 DEF WriteWithoutResponse, IsConnected, DisconnectPeripheral
      <3> QED BY <2>1, <3>1, <3>2, <3>3, <3>4 DEF HandleMessage
    <2>2. CASE EventForms
      <3>1. CASE (\E why : Panic(why)) \/ (delegate # <<>> /\ Unheeded) \/ OnDiscoveredPeripheral
        BY <3>1 DEF Panic, Unheeded, Ignore, OnDiscoveredPeripheral
      <3>2. ASSUME NEW d, FoundServices(d) \/ (\E s : FoundChars(d, s)) \/ (\E c : FoundDescs(d, c))
                          \/ ReportsFailure(d) \/ Forgets(d)
            PROVE  hasty' = hasty
        BY <3>2 DEF FoundServices, FoundChars, FoundDescs, Grows, ReportsFailure, Forgets
      <3>3. ASSUME NEW k, NEW kind, Fulfilled(k, kind)
            PROVE  hasty' = hasty
        BY <3>3 DEF Fulfilled
      <3> QED BY <2>2, <3>1, <3>2, <3>3 DEF EventForms, LiveForms
    <2>3. CASE hasty' = hasty
      BY <2>3
    <2> QED BY <2>1, <2>2, <2>3, StepForm DEF internalVars
  <1> QED BY <1>1, <1>2, <1>3, <1>4, <1>5 DEF Hasty

\* The link of a device whose clients are careful goes up and down in order.
LEMMA CalmStep ==
    ASSUME TypeOK, CalmInv, [Next]_vars
    PROVE  CalmInv'
  <1> SUFFICES ASSUME NEW d \in Device, d \notin hasty'
               PROVE  LinkCalm(d)'
    BY DEF CalmInv
  <1>0. cb \in [Device -> [link : {"disconnected", "connecting", "connected", "disconnecting"},
                           dial : BOOLEAN, att : Seq(AttOps), notifying : SUBSET Char,
                           cached : SUBSET Char, failed : BOOLEAN]]
    BY DEF TypeOK, DelegateTypeOK
  <1>1. LinkCalm(d)
    BY HastyStep DEF CalmInv
  <1>2. ASSUME cb'[d].link = cb[d].link, cb'[d].dial = cb[d].dial, LossQueued(d)' => LossQueued(d)
        PROVE  LinkCalm(d)'
    BY <1>1, <1>2 DEF LinkCalm
  <1>3. ASSUME NEW q \in Device, CallbackShapes(q)
        PROVE  LinkCalm(d)'
    <2>1. ASSUME NEW e \in CentralDelegateEvent, Send(e), ~ (e.dev = d /\ e.ev = "DisconnectedDevice")
          PROVE  LossQueued(d)' => LossQueued(d)
      <3>1. SUFFICES ASSUME NEW i \in DOMAIN delegate', delegate'[i].dev = d,
                            delegate'[i].ev = "DisconnectedDevice"
                     PROVE  i \in DOMAIN delegate /\ delegate'[i] = delegate[i]
        BY <3>1 DEF LossQueued
      <3> QED BY <2>1, <3>1, SentEvents
    <2>2. CASE Reported(q)
      <3>1. PICK more \in Seq(AttOps), e \in CentralDelegateEvent :
               Finishes(q, more) /\ Send(e) /\ Reports(Head(cb[q].att), q, e)
        BY <2>2 DEF Reported
      <3>2. cb'[d].link = cb[d].link /\ cb'[d].dial = cb[d].dial
        BY <3>1 DEF Finishes
      <3>3. e.ev # "DisconnectedDevice"
        BY <3>1 DEF Reports
      <3> QED BY <1>2, <2>1, <3>1, <3>2, <3>3
    <2>3. CASE Silent(q)
      <3>1. PICK more \in Seq(AttOps) : Finishes(q, more) /\ delegate' = delegate
        BY <2>3 DEF Silent
      <3>2. cb'[d].link = cb[d].link /\ cb'[d].dial = cb[d].dial
        BY <3>1 DEF Finishes
      <3> QED BY <1>2, <3>1, <3>2 DEF LossQueued
    <2>4. CASE Unasked(q)
      <3>1. PICK e \in CentralDelegateEvent :
               Send(e) /\ e.ev \in {"DiscoveredPeripheral", "CharacteristicNotified"}
        BY <2>4 DEF Unasked
      <3> QED BY <1>2, <2>1, <2>4, <3>1 DEF Unasked
    <2>5. ASSUME NEW v \in DeviceEvent, Send(Event(v, q, NoAttr, NoReq)), q # d \/ v # "DisconnectedDevice"
          PROVE  LossQueued(d)' => LossQueued(d)
      <3>1. /\ Event(v, q, NoAttr, NoReq) \in CentralDelegateEvent
            /\ Event(v, q, NoAttr, NoReq).dev = q /\ Event(v, q, NoAttr, NoReq).ev = v
        BY EventTypes DEF Event
      <3> QED BY <2>1, <2>5, <3>1
    <2>6. CASE DidConnectPeripheral(q)
      <3>1. LossQueued(d)' => LossQueued(d)
        BY <2>5, <2>6 DEF DidConnectPeripheral, DeviceEvent
      <3>2. CASE q # d
        BY <1>0, <1>2, <2>6, <3>1, <3>2 DEF DidConnectPeripheral
      <3>3. CASE q = d
        <4>1. ~ LossQueued(d)
          BY <1>1, <2>6, <3>3 DEF DidConnectPeripheral, LinkCalm
        <4>2. ~ cb'[d].dial
          BY <1>0, <2>6, <3>3 DEF DidConnectPeripheral
        <4> QED BY <3>1, <4>1, <4>2 DEF LinkCalm
      <3> QED BY <3>2, <3>3
    <2>7. CASE DidFailToConnectPeripheral(q)
      <3>1. LossQueued(d)' => LossQueued(d)
        BY <2>5, <2>7 DEF DidFailToConnectPeripheral, DeviceEvent
      <3>2. CASE q # d
        BY <1>0, <1>2, <2>7, <3>1, <3>2 DEF DidFailToConnectPeripheral
      <3>3. CASE q = d
        <4>1. ~ cb'[d].dial /\ cb'[d].link = "disconnected"
          BY <1>0, <2>7, <3>3 DEF DidFailToConnectPeripheral
        <4> QED BY <4>1 DEF LinkCalm
      <3> QED BY <3>2, <3>3
    <2>8. CASE DidDisconnectPeripheral(q)
      <3>1. CASE q # d
        <4>1. LossQueued(d)' => LossQueued(d)
          BY <2>5, <2>8, <3>1 DEF DidDisconnectPeripheral, DeviceEvent
        <4> QED BY <1>0, <1>2, <2>8, <3>1, <4>1 DEF DidDisconnectPeripheral
      <3>2. CASE q = d
        <4>1. ~ cb[d].dial
          BY <1>1, <2>8, <3>2 DEF DidDisconnectPeripheral, LinkCalm
        <4>2. ~ cb'[d].dial /\ cb'[d].link = "disconnected"
          BY <1>0, <2>8, <3>2, <4>1 DEF DidDisconnectPeripheral, Unplugged
        <4> QED BY <4>2 DEF LinkCalm
      <3> QED BY <3>1, <3>2
    <2> QED BY <1>3, <2>2, <2>3, <2>4, <2>6, <2>7, <2>8 DEF CallbackShapes
  <1>4. CASE HandleMessage
    <2>1. LossQueued(d)' <=> LossQueued(d)
      BY <1>4, MessageForm DEF LossQueued
    <2>2. ASSUME NEW r \in Req, ConnectPeripheral(r)
          PROVE  LinkCalm(d)'
      <3>1. ask[r].dev \in Device
        BY CallShape
      <3>2. CASE ask[r].dev \in known /\ ask[r].dev = d
        <4>1. Down(d)
          BY <2>2, <3>2, HastyStep
        <4>2. cb[d].link = "disconnected" /\ ~ LossQueued(d)
          BY <4>1 DEF Down, LossQueued
        <4>3. cb'[d].link = "connecting"
          BY <1>0, <2>2, <3>2, <4>2 DEF ConnectPeripheral, Connect
        <4> QED BY <2>1, <4>2, <4>3 DEF LinkCalm
      <3>3. CASE ~ (ask[r].dev \in known /\ ask[r].dev = d)
        <4>1. cb'[d] = cb[d]
          BY <1>0, <2>2, <3>1, <3>3 DEF ConnectPeripheral, Connect
        <4> QED BY <1>2, <2>1, <4>1
      <3> QED BY <3>2, <3>3
    <2>3. ASSUME NEW r \in Req, DisconnectPeripheral(r)
          PROVE  LinkCalm(d)'
      <3>1. ask[r].dev \in Device
        BY CallShape
      <3>2. CASE cb' = cb
        BY <1>2, <2>1, <3>2
      <3>3. CASE CancelConnection(ask[r].dev)
        <4>1. CASE ask[r].dev = d /\ cb[d].link \in {"connecting", "connected"}
          <5>1. ~ cb'[d].dial
            BY <1>0, <3>3, <4>1 DEF CancelConnection
          <5>2. ~ LossQueued(d)
            BY <1>1, <4>1 DEF LinkCalm
          <5> QED BY <2>1, <5>1, <5>2 DEF LinkCalm
        <4>2. CASE ~ (ask[r].dev = d /\ cb[d].link \in {"connecting", "connected"})
          <5>1. cb'[d] = cb[d]
            BY <1>0, <3>1, <3>3, <4>2 DEF CancelConnection
          <5> QED BY <1>2, <2>1, <5>1
        <4> QED BY <4>1, <4>2
      <3> QED BY <2>3, <3>2, <3>3 DEF DisconnectPeripheral
    <2>4. ASSUME NEW r \in Req, RequestOnAttribute(r)
          PROVE  LinkCalm(d)'
      <3>1. ask[r].dev \in Device
        BY CallShape
      <3>2. cb'[d].link = cb[d].link /\ cb'[d].dial = cb[d].dial
        <4>1. cb' = cb \/ \E o : cb' = [cb EXCEPT ![ask[r].dev].att = Append(@, o)]
          BY <2>4 DEF RequestOnAttribute, Ask
        <4>2. ASSUME NEW o, cb' = [cb EXCEPT ![ask[r].dev].att = Append(@, o)]
              PROVE  cb'[d].link = cb[d].link /\ cb'[d].dial = cb[d].dial
          <5>1. CASE ask[r].dev = d
            BY <1>0, <4>2, <5>1
          <5>2. CASE ask[r].dev # d
            BY <1>0, <3>1, <4>2, <5>2
          <5> QED BY <5>1, <5>2
        <4> QED BY <4>1, <4>2
      <3> QED BY <1>2, <2>1, <3>2
    <2>5. CASE Scan \/ \E r \in Req : WriteWithoutResponse(r) \/ IsConnected(r)
      BY <1>2, <2>1, <2>5 DEF Scan, WriteWithoutResponse, IsConnected
    <2> QED BY <1>4, <2>2, <2>3, <2>4, <2>5 DEF HandleMessage
  <1>5. CASE EventForms
    <2>1. cb' = cb /\ (LossQueued(d)' => LossQueued(d))
      BY <1>5, EventsTaken DEF LossQueued
    <2> QED BY <1>2, <2>1
  <1>6. CASE UNCHANGED <<cb, delegate>>
    BY <1>2, <1>6 DEF LossQueued
  <1> QED BY <1>3, <1>4, <1>5, <1>6, StepForm

\* A disconnect() is only answered by the end of a link that the thread hears of.
LEMMA DisconnectAnswer ==
    ASSUME IInv, [Next]_vars, NEW r \in Req,
           OpOf(r) = "disconnect", st[r] # "answered", st'[r] = "answered"
    PROVE  Forgets(ask[r].dev) /\ LossQueued(ask[r].dev)
  <1>0. TypeOK /\ NoReq \notin Req
    BY DelegateAssumption DEF IInv
  <1>1. ASSUME NEW q, NEW rep, NEW S, Settle(q, rep, S)
        PROVE  q = r
    BY <1>1 DEF Settle
  <1>2. CASE HandleMessage
    <2>1. CASE Scan
      BY <2>1 DEF Scan
    <2>2. ASSUME NEW q \in Req, RequestOnAttribute(q) \/ ConnectPeripheral(q) \/ DisconnectPeripheral(q)
          PROVE  FALSE
      <3>1. CASE RequestOnAttribute(q)
        BY <1>0, <3>1 DEF RequestOnAttribute, TypeOK
      <3>2. CASE ConnectPeripheral(q)
        BY <1>0, <3>2 DEF ConnectPeripheral, TypeOK
      <3>3. CASE DisconnectPeripheral(q)
        BY <1>0, <3>3 DEF DisconnectPeripheral, TypeOK
      <3> QED BY <2>2, <3>1, <3>2, <3>3
    <2>3. ASSUME NEW q \in Req, WriteWithoutResponse(q) \/ IsConnected(q)
          PROVE  FALSE
      <3>1. OpOf(q) \in {"write_without_response", "is_connected"}
        BY <2>3 DEF WriteWithoutResponse, IsConnected, Receive
      <3>2. \/ Settle(NoReq, NoReply, {q})
            \/ \E rep : Settle(q, rep, {})
        BY <2>3 DEF WriteWithoutResponse, IsConnected
      <3> QED BY <1>0, <1>1, <3>1, <3>2
    <2> QED BY <1>2, <2>1, <2>2, <2>3 DEF HandleMessage
  <1>3. CASE EventForms
    <2>1. CASE (\E why : Panic(why)) \/ (delegate # <<>> /\ Unheeded) \/ OnDiscoveredPeripheral
      BY <2>1 DEF Panic, Unheeded, Ignore, OnDiscoveredPeripheral
    <2>2. \A d \in Device : connected_future_state[d] # r
      <3>1. ASSUME NEW d \in Device, connected_future_state[d] = r
            PROVE  OpOf(r) = "connect"
        BY <1>0, <3>1, Placed
      <3> QED BY <3>1
    <2>3. ASSUME NEW d \in Device, NEW t, NEW K, NEW check, Grows(d, t, K, check)
          PROVE  FALSE
      <3>1. \E q \in {NoReq, connected_future_state[d]} :
               Settle(q, Reply("Connected", NoReq, t.has), Held(K))
        BY <2>3 DEF Grows
      <3> QED BY <1>0, <1>1, <2>2, <3>1
    <2>4. ASSUME NEW d \in Device, ReportsFailure(d)
          PROVE  FALSE
      BY <1>1, <2>2, <2>4 DEF ReportsFailure
    <2>5. ASSUME NEW k \in Slot, NEW kind, Fulfilled(k, kind)
          PROVE  FALSE
      <3>1. r = Head(future_state[k]) /\ future_state[k] # <<>>
        BY <1>1, <2>5 DEF Fulfilled
      <3>2. r \in Range(future_state[k])
        BY <1>0, <3>1, TailRange DEF TypeOK
      <3>3. SlotOf(r) = k
        BY <3>2, Placed
      <3> QED BY <3>3 DEF SlotOf, Slot, CharOp, DescOp
    <2>6. ASSUME NEW d \in Device, Forgets(d)
          PROVE  Forgets(ask[r].dev) /\ LossQueued(ask[r].dev)
      <3>1. disconnected_future_state[d] = r
        BY <1>1, <2>6 DEF Forgets
      <3>2. ask[r].dev = d
        BY <1>0, <3>1, Placed
      <3>3. 1 \in DOMAIN delegate /\ delegate[1] = Head(delegate)
        BY <1>0, <2>6, TailEvents DEF Forgets
      <3>4. LossQueued(d)
        BY <2>6, <3>3 DEF Forgets, Occurs, LossQueued
      <3> QED BY <2>6, <3>2, <3>4
    <2>7. CASE \E d \in Device : \/ FoundServices(d)
                                 \/ \E s \in Service : FoundChars(d, s)
                                 \/ \E c \in Char : FoundDescs(d, c)
      BY <2>3, <2>7 DEF FoundServices, FoundChars, FoundDescs
    <2> QED BY <1>3, <2>1, <2>4, <2>5, <2>6, <2>7 DEF EventForms, LiveForms
  <1>4. CASE Framework \/ UNCHANGED vars \/ ClientScans
    BY <1>4 DEF Framework, internalVars, vars, ClientScans
  <1>5. CASE \E q \in Req : ClientCalls(q)
    BY <1>0, <1>5 DEF ClientCalls, TypeOK
  <1>6. CASE HandleEvent
    BY <1>0, <1>3, <1>6, EventForm
  <1> QED BY <1>2, <1>4, <1>5, <1>6 DEF Next

\* disconnect() returns only when the link of the device is down, for all clients that wait
\* for the end of one connection before they ask for the next.
THEOREM DisconnectGoesDown == Spec => DisconnectedMeansDown
  <1> DEFINE A == \A r \in Req :
                    OpOf(r) = "disconnect" /\ st[r] # "answered" /\ st'[r] = "answered"
                    => cb[ask[r].dev].link = "disconnected" \/ ask[r].dev \in hasty
  <1>1. ASSUME IInv, CalmInv, [Next]_vars
        PROVE  A
    <2> SUFFICES ASSUME NEW r \in Req, OpOf(r) = "disconnect",
                        st[r] # "answered", st'[r] = "answered", ask[r].dev \notin hasty
                 PROVE  cb[ask[r].dev].link = "disconnected"
      OBVIOUS
    <2>1. LossQueued(ask[r].dev) /\ ask[r].dev \in Device
      BY <1>1, DisconnectAnswer, CallShape DEF IInv
    <2> QED BY <1>1, <2>1 DEF CalmInv, LinkCalm
  <1>2. IInv /\ CalmInv /\ [Next]_vars => [A]_vars
    BY <1>1
  <1>3. Init => IInv /\ CalmInv
    <2>1. Init => CalmInv
      BY DEF Init, DelegateInit, Unplugged, CalmInv, LinkCalm, LossQueued
    <2> QED BY <2>1, InitPlaces
  <1>4. IInv /\ CalmInv /\ [Next]_vars => IInv' /\ CalmInv'
    BY StepPlaces, CalmStep DEF IInv
  <1> QED BY <1>2, <1>3, <1>4, PTL DEF Spec, DisconnectedMeansDown

----------------------------------------------------------------------------
(* The discovery of a device. *)

ServicesOp == AttOp("services", NoAttr, NoReq)
CharsOp(s) == AttOp("chars", s, NoReq)
DescsOp(c) == AttOp("descs", c, NoReq)

Discoveries == {ServicesOp} \cup {CharsOp(s) : s \in Service} \cup {DescsOp(c) : c \in Char}

\* What led to discovery o, and o itself.
Ancestry(o) ==
    {p \in Discoveries : \/ p = o
                         \/ p = ServicesOp
                         \/ \E c \in Char : o = DescsOp(c) /\ p = CharsOp(ServiceOf[c])}

\* What the delegate of d asks for when discovery o is over.
LedTo(d, o) ==
    {p \in Discoveries :
        \/ o = ServicesOp /\ \E s \in Range(ServicesOf[d]) : p = CharsOp(s)
        \/ \E c \in Char : o = CharsOp(ServiceOf[c]) /\ p = DescsOp(c)}

\* The discoveries are told apart.
LEMMA DiscoveriesDiffer ==
    /\ \A s : CharsOp(s) # ServicesOp
    /\ \A c : DescsOp(c) # ServicesOp
    /\ \A s, c : CharsOp(s) # DescsOp(c)
    /\ \A s, t : CharsOp(s) = CharsOp(t) => s = t
    /\ \A c, e : DescsOp(c) = DescsOp(e) => c = e
    /\ Discoveries \subseteq AttOps
    /\ \A o \in Discoveries : o.req = NoReq /\ o.op \notin CharOp \cup DescOp \cup {"included"}
  <1>1. /\ \A s : CharsOp(s) # ServicesOp
        /\ \A c : DescsOp(c) # ServicesOp
        /\ \A s, c : CharsOp(s) # DescsOp(c)
        /\ \A s, t : CharsOp(s) = CharsOp(t) => s = t
        /\ \A c, e : DescsOp(c) = DescsOp(e) => c = e
    BY DEF CharsOp, DescsOp, ServicesOp, AttOp
  <1>2. Discoveries \subseteq AttOps
    BY AttOpTypes DEF Discoveries, CharsOp, DescsOp, ServicesOp
  <1>3. \A o \in Discoveries : o.req = NoReq /\ o.op \notin CharOp \cup DescOp \cup {"included"}
    BY DEF Discoveries, CharsOp, DescsOp, ServicesOp, AttOp, CharOp, DescOp
  <1> QED BY <1>1, <1>2, <1>3

\* A discovery and those it leads to have the same ancestry, but for themselves.
LEMMA Families ==
    ASSUME NEW d \in Device, NEW h \in Discoveries, NEW p \in LedTo(d, h)
    PROVE  /\ \A x \in Ancestry(p) : x = p \/ x \in Ancestry(h)
           /\ \A o \in Discoveries : p \in Ancestry(o) => h \in Ancestry(o)
           /\ h \notin LedTo(d, p) /\ p \notin Ancestry(h) /\ p # h
  <1>0. h \in Ancestry(h)
    BY DEF Ancestry
  <1>1. CASE h = ServicesOp /\ \E s \in Range(ServicesOf[d]) : p = CharsOp(s)
    BY <1>1, DiscoveriesDiffer DEF Ancestry, LedTo
  <1>2. CASE \E c \in Char : h = CharsOp(ServiceOf[c]) /\ p = DescsOp(c)
    BY <1>2, DiscoveriesDiffer DEF Ancestry, LedTo
  <1> QED BY <1>1, <1>2 DEF LedTo

SubscriptionsSucceed == {"subscribe", "unsubscribe"} \cap MayFail = {}

\* The oldest operation of d is over; `more` is what it leads to, each thing once.
Completed(d) ==
    \E more \in Seq(AttOps) :
        /\ Finishes(d, more)
        /\ \A j \in DOMAIN more : more[j].req = NoReq
        /\ \/ delegate' = delegate /\ \A j \in DOMAIN more : more[j] \notin Discoveries
           \/ /\ \E e \in CentralDelegateEvent :
                    /\ Send(e) /\ Reports(Head(cb[d].att), d, e)
                    /\ SubscriptionsSucceed => Truly(Head(cb[d].att), e)
              /\ \A j \in DOMAIN more : more[j] \in Discoveries => more[j] \in LedTo(d, Head(cb[d].att))
              /\ \A i, j \in DOMAIN more : more[i] \in Discoveries /\ more[i] = more[j] => i = j

\* Something that was not asked for is reported.
Announced(d) ==
    /\ cb' = cb
    /\ \E e \in CentralDelegateEvent :
          /\ Send(e) /\ e.dev = d /\ e.req = NoReq
          /\ \/ e.ev = "DiscoveredPeripheral"
             \/ e.ev = "CharacteristicNotified" /\ cb[d].link = "connected"

\* An operation that is over and leads to no other.
LEMMA NothingMore ==
    ASSUME NEW d \in Device, Finishes(d, <<>>),
           \/ delegate' = delegate
           \/ \E e \in CentralDelegateEvent :
                 /\ Send(e) /\ Reports(Head(cb[d].att), d, e)
                 /\ SubscriptionsSucceed => Truly(Head(cb[d].att), e)
    PROVE  Completed(d)
  <1> DEFINE more == <<>>
  <1>1. more \in Seq(AttOps) /\ DOMAIN more = {} /\ Finishes(d, more)
    OBVIOUS
  <1> HIDE DEF more
  <1> QED BY <1>1 DEF Completed

\* A device that is found once is asked about each of its services once, and so are those.
LEMMA AskedOnce ==
    ASSUME NEW d \in Device
    PROVE  /\ \A found \in Seq(Service) : IsInjective(found) =>
                 LET next == [i \in 1..(2 * Len(found)) |->
                                IF i % 2 = 1 THEN AttOp("chars", found[(i + 1) \div 2], NoReq)
                                             ELSE AttOp("included", found[i \div 2], NoReq)]
                 IN  /\ \A j \in DOMAIN next : next[j] \in Discoveries =>
                           \E s \in Range(found) : next[j] = CharsOp(s)
                     /\ \A i, j \in DOMAIN next : next[i] \in Discoveries /\ next[i] = next[j] => i = j
           /\ \A found \in Seq(Char) : IsInjective(found) =>
                 LET next == [i \in 1..Len(found) |-> AttOp("descs", found[i], NoReq)]
                 IN  /\ \A j \in DOMAIN next : \E c \in Range(found) : next[j] = DescsOp(c)
                     /\ \A i, j \in DOMAIN next : next[i] = next[j] => i = j
  <1>1. ASSUME NEW found \in Seq(Service), IsInjective(found)
        PROVE  LET next == [i \in 1..(2 * Len(found)) |->
                              IF i % 2 = 1 THEN AttOp("chars", found[(i + 1) \div 2], NoReq)
                                           ELSE AttOp("included", found[i \div 2], NoReq)]
               IN  /\ \A j \in DOMAIN next : next[j] \in Discoveries =>
                         \E s \in Range(found) : next[j] = CharsOp(s)
                   /\ \A i, j \in DOMAIN next : next[i] \in Discoveries /\ next[i] = next[j] => i = j
    <2> DEFINE next == [i \in 1..(2 * Len(found)) |->
                          IF i % 2 = 1 THEN AttOp("chars", found[(i + 1) \div 2], NoReq)
                                       ELSE AttOp("included", found[i \div 2], NoReq)]
    <2>1. ASSUME NEW j \in 1..(2 * Len(found)), next[j] \in Discoveries
          PROVE  /\ j % 2 = 1 /\ next[j] = CharsOp(found[(j + 1) \div 2])
                 /\ (j + 1) \div 2 \in 1..Len(found)
      <3>1. AttOp("included", found[j \div 2], NoReq) \notin Discoveries
        BY DiscoveriesDiffer DEF AttOp
      <3>2. j % 2 = 1
        BY <2>1, <3>1
      <3>3. (j + 1) \div 2 \in 1..Len(found)
        BY <3>2
      <3> QED BY <3>2, <3>3 DEF CharsOp
    <2>2. \A j \in 1..(2 * Len(found)) : next[j] \in Discoveries =>
             \E s \in Range(found) : next[j] = CharsOp(s)
      <3> HIDE DEF next
      <3> QED BY <2>1 DEF Range
    <2>3. ASSUME NEW i \in 1..(2 * Len(found)), NEW j \in 1..(2 * Len(found)),
                 next[i] \in Discoveries, next[i] = next[j]
          PROVE  i = j
      <3> DEFINE a == (i + 1) \div 2
                 b == (j + 1) \div 2
      <3>1. /\ i % 2 = 1 /\ next[i] = CharsOp(found[a]) /\ a \in 1..Len(found)
            /\ j % 2 = 1 /\ next[j] = CharsOp(found[b]) /\ b \in 1..Len(found)
        <4> HIDE DEF next
        <4> QED BY <2>1, <2>3
      <3> HIDE DEF next
      <3>2. found[a] = found[b]
        <4> HIDE DEF a, b
        <4> QED BY <2>3, <3>1, DiscoveriesDiffer
      <3>3. a = b
        <4> HIDE DEF a, b
        <4> QED BY <1>1, <3>1, <3>2 DEF IsInjective
      <3> QED BY <3>1, <3>3
    <2>4. DOMAIN next = 1..(2 * Len(found))
      OBVIOUS
    <2> HIDE DEF next
    <2>5. /\ \A j \in DOMAIN next : next[j] \in Discoveries => \E s \in Range(found) : next[j] = CharsOp(s)
          /\ \A i, j \in DOMAIN next : next[i] \in Discoveries /\ next[i] = next[j] => i = j
      BY <2>2, <2>3, <2>4
    <2> QED BY <2>5 DEF next
  <1>2. ASSUME NEW found \in Seq(Char), IsInjective(found)
        PROVE  LET next == [i \in 1..Len(found) |-> AttOp("descs", found[i], NoReq)]
               IN  /\ \A j \in DOMAIN next : \E c \in Range(found) : next[j] = DescsOp(c)
                   /\ \A i, j \in DOMAIN next : next[i] = next[j] => i = j
    <2> DEFINE next == [i \in 1..Len(found) |-> AttOp("descs", found[i], NoReq)]
    <2>1. /\ DOMAIN next = 1..Len(found) /\ DOMAIN found = 1..Len(found)
          /\ \A j \in 1..Len(found) : next[j] = DescsOp(found[j])
      BY DEF DescsOp
    <2> HIDE DEF next
    <2>2. \A j \in DOMAIN next : \E c \in Range(found) : next[j] = DescsOp(c)
      BY <2>1 DEF Range
    <2>3. \A i, j \in DOMAIN next : next[i] = next[j] => i = j
      BY <1>2, <2>1, DiscoveriesDiffer DEF IsInjective
    <2> QED BY <2>2, <2>3 DEF next
  <1> QED BY <1>1, <1>2

\* The framework's steps, for devices on which a discovery finds everything once.
LEMMA CallbackExact ==
    ASSUME TypeOK, ~ FoundTwice, NEW d \in Device, Callback(d)
    PROVE  \/ Completed(d)
           \/ Announced(d)
           \/ DidConnectPeripheral(d)
           \/ DidFailToConnectPeripheral(d)
           \/ DidDisconnectPeripheral(d)
  <1> DEFINE o == Head(cb[d].att)
  <1>0. DelegateTypeOK /\ (AttCallback(d) \/ LinkCallback(d))
    BY DEF TypeOK, Callback
  <1>1. CASE DidDiscoverServices(d)
    <2> DEFINE found == ServicesOf[d]
               next == [i \in 1..(2 * Len(found)) |->
                          IF i % 2 = 1 THEN AttOp("chars", found[(i + 1) \div 2], NoReq)
                                       ELSE AttOp("included", found[i \div 2], NoReq)]
               e == Event("DiscoveredServices", d, NoAttr, NoReq)
    <2>1. Completes(d, {"services"}) /\ cb' = Done(d, next) /\ Send(e)
      BY <1>1 DEF DidDiscoverServices
    <2>2. o \in AttOps /\ o.op = "services"
      BY <1>0, <2>1, CompletedOp
    <2>3. o.attr = NoAttr /\ o.req = NoReq /\ o = ServicesOp
      BY <2>2 DEF AttOps, CharOp, DescOp, ServicesOp, AttOp
    <2>4. found \in Seq(Service) /\ IsInjective(found)
      BY DelegateAssumption DEF FoundTwice
    <2>5. /\ next \in Seq(AttOps)
          /\ \A i \in DOMAIN next : next[i].req = NoReq
      BY <2>4, NextLevel
    <2>6. /\ \A j \in DOMAIN next : next[j] \in Discoveries => \E s \in Range(found) : next[j] = CharsOp(s)
          /\ \A i, j \in DOMAIN next : next[i] \in Discoveries /\ next[i] = next[j] => i = j
      BY <2>4, AskedOnce
    <2> HIDE DEF next
    <2>7. Finishes(d, next)
      BY <1>0, <2>1, DoneFinishes
    <2>8. Reports(o, d, e) /\ Truly(o, e)
      BY <2>2, <2>3 DEF Reports, Truly, Event
    <2>9. e \in CentralDelegateEvent
      BY EventTypes DEF DeviceEvent
    <2>10. \A j \in DOMAIN next : next[j] \in Discoveries => next[j] \in LedTo(d, o)
      BY <2>3, <2>6 DEF LedTo
    <2>11. Completed(d)
      <3> HIDE DEF o, e
      <3> QED BY <2>1, <2>5, <2>6, <2>7, <2>8, <2>9, <2>10 DEF Completed, o
    <2> QED BY <2>11
  <1>2. CASE DidDiscoverIncludedServices(d)
    <2> DEFINE found == Includes[o.attr]
               next == [i \in 1..Len(found) |-> AttOp("chars", found[i], NoReq)]
    <2>1. Completes(d, {"included"}) /\ cb' = Done(d, next) /\ delegate' = delegate
      BY <1>2 DEF DidDiscoverIncludedServices
    <2>2. o \in AttOps /\ o.op = "included" /\ o.attr \in Service
      BY <1>0, <2>1, CompletedOp, AttOpsByOp
    <2>3. found = <<>>
      BY <2>2 DEF FoundTwice
    <2>4. next = <<>>
      BY <2>3
    <2> HIDE DEF next
    <2>5. Finishes(d, <<>>)
      BY <1>0, <2>1, <2>4, DoneFinishes
    <2> QED BY <2>1, <2>5, NothingMore
  <1>3. CASE DidDiscoverCharacteristics(d)
    <2> DEFINE found == CharsOf[o.attr]
               next == [i \in 1..Len(found) |-> AttOp("descs", found[i], NoReq)]
               e == Event("DiscoveredCharacteristics", d, o.attr, NoReq)
    <2>1. Completes(d, {"chars"}) /\ cb' = Done(d, next) /\ Send(e)
      BY <1>3 DEF DidDiscoverCharacteristics
    <2>2. o \in AttOps /\ o.op = "chars" /\ o.attr \in Service
      BY <1>0, <2>1, CompletedOp, AttOpsByOp
    <2>3. o.req = NoReq /\ o = CharsOp(o.attr)
      BY <2>2 DEF AttOps, CharOp, DescOp, CharsOp, AttOp
    <2>4. found \in Seq(Char) /\ Range(found) = {c \in Char : ServiceOf[c] = o.attr} /\ IsInjective(found)
      BY <2>2, DelegateAssumption DEF FoundTwice
    <2>5. /\ next \in Seq(AttOps)
          /\ \A i \in DOMAIN next : next[i].req = NoReq
      <3> HIDE DEF found
      <3> QED BY <2>4, NextLevel
    <2>6. /\ \A j \in DOMAIN next : \E c \in Range(found) : next[j] = DescsOp(c)
          /\ \A i, j \in DOMAIN next : next[i] = next[j] => i = j
      <3> HIDE DEF found
      <3> QED BY <2>4, AskedOnce
    <2> HIDE DEF next
    <2>7. Finishes(d, next)
      BY <1>0, <2>1, DoneFinishes
    <2>8. Reports(o, d, e) /\ Truly(o, e)
      BY <2>2, <2>3 DEF Reports, Truly, Event
    <2>9. e \in CentralDelegateEvent
      BY <2>2, EventTypes
    <2>10. \A j \in DOMAIN next : next[j] \in Discoveries => next[j] \in LedTo(d, o)
      BY <2>3, <2>4, <2>6 DEF LedTo
    <2>11. Completed(d)
      <3> HIDE DEF o, e, found
      <3> QED BY <2>1, <2>5, <2>6, <2>7, <2>8, <2>9, <2>10 DEF Completed, o
    <2> QED BY <2>11
  <1>4. CASE DidDiscoverDescriptors(d)
    <2> DEFINE e == Event("DiscoveredCharacteristicDescriptors", d, o.attr, NoReq)
    <2>1. Completes(d, {"descs"}) /\ Send(e)
          /\ cb' = [Done(d, <<>>) EXCEPT ![d].cached = @ \cup {o.attr}]
      BY <1>4 DEF DidDiscoverDescriptors
    <2>2. o \in AttOps /\ o.op = "descs" /\ o.attr \in Char
      BY <1>0, <2>1, CompletedOp, AttOpsByOp
    <2>3. o.req = NoReq
      BY <2>2 DEF AttOps, CharOp, DescOp
    <2>4. Finishes(d, <<>>)
      BY <1>0, <2>1, <2>2, DoneFinishes
    <2>5. Reports(o, d, e) /\ Truly(o, e)
      BY <2>2, <2>3 DEF Reports, Truly, Event
    <2>6. e \in CentralDelegateEvent
      BY <2>2, EventTypes DEF CharEvent
    <2> QED BY <2>1, <2>4, <2>5, <2>6, NothingMore
  <1>5. ASSUME NEW op \in {"read", "write", "read_descriptor", "write_descriptor"},
               NEW ev \in {"CharacteristicNotified", "CharacteristicWritten",
                           "DescriptorNotified", "DescriptorWritten"},
               Completes(d, {op}), Send(Event(ev, d, o.attr, o.req)), cb' = Done(d, <<>>),
               \/ op = "read" /\ ev = "CharacteristicNotified"
               \/ op = "write" /\ ev = "CharacteristicWritten"
               \/ op = "read_descriptor" /\ ev = "DescriptorNotified"
               \/ op = "write_descriptor" /\ ev = "DescriptorWritten"
        PROVE  Completed(d)
    <2> DEFINE e == Event(ev, d, o.attr, o.req)
    <2>1. o \in AttOps /\ o.op = op
      BY <1>0, <1>5, CompletedOp
    <2>2. e \in CentralDelegateEvent
      <3>1. CASE op \in {"read", "write"}
        BY <1>5, <2>1, <3>1, AttOpsByOp, EventTypes DEF CharOp, CharEvent
      <3>2. CASE op \in {"read_descriptor", "write_descriptor"}
        BY <1>5, <2>1, <3>2, AttOpsByOp, EventTypes DEF DescOp, DescEvent
      <3> QED BY <3>1, <3>2
    <2>3. Finishes(d, <<>>)
      BY <1>0, <1>5, DoneFinishes
    <2>4. Reports(o, d, e) /\ Truly(o, e)
      BY <1>5, <2>1 DEF Reports, Truly, Event
    <2>5. Send(e)
      BY <1>5
    <2> HIDE DEF e
    <2> QED BY <2>2, <2>3, <2>4, <2>5, NothingMore
  <1>6. CASE DidUpdateValueForCharacteristic(d)
    <2>1. CASE /\ Completes(d, {"read"}) /\ cb' = Done(d, <<>>)
               /\ Send(Event("CharacteristicNotified", d, o.attr, o.req))
      BY <1>5, <2>1
    <2>2. CASE /\ cb' = cb /\ cb[d].link = "connected"
               /\ \E c \in cb[d].notifying : Send(Event("CharacteristicNotified", d, c, NoReq))
      <3>1. PICK c \in cb[d].notifying : Send(Event("CharacteristicNotified", d, c, NoReq))
        BY <2>2
      <3>2. c \in Char
        BY <1>0 DEF DelegateTypeOK
      <3>3. Event("CharacteristicNotified", d, c, NoReq) \in CentralDelegateEvent
        BY <3>2, EventTypes DEF CharEvent
      <3> QED BY <2>2, <3>1, <3>3 DEF Announced, Event
    <2> QED BY <1>6, <2>1, <2>2 DEF DidUpdateValueForCharacteristic
  <1>7. CASE DidWriteValueForCharacteristic(d)
    BY <1>5, <1>7 DEF DidWriteValueForCharacteristic
  <1>8. CASE DidUpdateNotificationState(d)
    <2> DEFINE on == IF o.op = "subscribe" THEN cb[d].notifying \cup {o.attr}
                                           ELSE cb[d].notifying \ {o.attr}
               is(n) == IF o.attr \in n THEN "CharacteristicSubscribed"
                                         ELSE "CharacteristicUnsubscribed"
               e(n) == Event(is(n), d, o.attr, o.req)
    <2>1. Completes(d, {"subscribe", "unsubscribe"})
      BY <1>8 DEF DidUpdateNotificationState
    <2>2. o \in AttOps /\ o.op \in {"subscribe", "unsubscribe"}
      BY <1>0, <2>1, CompletedOp
    <2>3. o.attr \in Char /\ o.req \in Req
      BY <2>2, AttOpsByOp DEF CharOp
    <2>4. ASSUME NEW n
          PROVE  e(n) \in CentralDelegateEvent /\ Reports(o, d, e(n))
      <3>1. is(n) \in CharEvent
        BY DEF CharEvent
      <3>2. e(n) \in CentralDelegateEvent
        BY <2>3, <3>1, EventTypes
      <3> QED BY <2>2, <3>2 DEF Reports, Event
    <2>5. CASE cb' = [Done(d, <<>>) EXCEPT ![d].notifying = on] /\ Send(e(on))
      <3>1. Finishes(d, <<>>)
        BY <1>0, <2>1, <2>5, DoneFinishes
      <3>2. Truly(o, e(on))
        BY <2>2 DEF Truly, Event
      <3> HIDE DEF on
      <3>3. PICK n : n = on
        OBVIOUS
      <3> QED BY <2>4, <2>5, <3>1, <3>2, <3>3, NothingMore
    <2>6. CASE /\ o.op \in MayFail
               /\ cb' = [Done(d, <<>>) EXCEPT ![d].failed = TRUE] /\ Send(e(cb[d].notifying))
      <3>1. Finishes(d, <<>>)
        BY <1>0, <2>1, <2>6, DoneFinishes
      <3>2. ~ SubscriptionsSucceed
        BY <2>2, <2>6 DEF SubscriptionsSucceed
      <3> QED BY <2>4, <2>6, <3>1, <3>2, NothingMore
    <2> QED BY <1>8, <2>5, <2>6 DEF DidUpdateNotificationState
  <1>9. CASE DidUpdateValueForDescriptor(d)
    BY <1>5, <1>9 DEF DidUpdateValueForDescriptor
  <1>10. CASE DidWriteValueForDescriptor(d)
    BY <1>5, <1>10 DEF DidWriteValueForDescriptor
  <1>11. CASE OperationFails(d)
    <2>1. Completes(d, MayFail \ {"subscribe", "unsubscribe"})
          /\ cb' = [Done(d, <<>>) EXCEPT ![d].failed = TRUE] /\ delegate' = delegate
      BY <1>11 DEF OperationFails
    <2>2. Finishes(d, <<>>)
      BY <1>0, <2>1, DoneFinishes
    <2> QED BY <2>1, <2>2, NothingMore
  <1>12. CASE DidDiscoverPeripheral(d)
    <2>1. Event("DiscoveredPeripheral", d, NoAttr, NoReq) \in CentralDelegateEvent
      BY EventTypes DEF DeviceEvent
    <2> QED BY <1>12, <2>1 DEF DidDiscoverPeripheral, Announced, Event
  <1> QED BY <1>0, <1>1, <1>2, <1>3, <1>4, <1>6, <1>7, <1>8, <1>9, <1>10, <1>11, <1>12
          DEF AttCallback, LinkCallback

----------------------------------------------------------------------------
(* The invariant of careful clients. *)

\* The thread runs, and no client has been hasty with d.
Calm(d) == panic = "none" /\ d \notin hasty

\* The i-th event is about a link of d.
OfLink(i, d) == delegate[i].dev = d /\ delegate[i].ev # "DiscoveredPeripheral"

\* While a link comes up there are no events of the last one; the end of a link is the last
\* event about it, and a failed connection the only one.
LinkOrder(d) ==
    /\ cb[d].link \in {"disconnected", "connecting"} => cb[d].att = <<>>
    /\ cb[d].link # "disconnected" => d \in known
    /\ \A i \in DOMAIN delegate : OfLink(i, d) =>
          /\ d \in known /\ cb[d].link # "connecting"
          /\ delegate[i].ev \in {"DisconnectedDevice", "ConnectionFailed"} =>
                /\ cb[d].link = "disconnected"
                /\ \A j \in DOMAIN delegate : OfLink(j, d) => j \leq i
          /\ delegate[i].ev = "ConnectionFailed" =>
                \A j \in DOMAIN delegate : OfLink(j, d) => j = i

\* Nothing is discovered again, nor what led to it.
DiscoverOnce(d) ==
    /\ \A i \in DOMAIN delegate : \A o \in Discoveries :
          Reports(o, d, delegate[i]) => \A p \in Ancestry(o) : ~ Later(i, d, p)
    /\ \A i, j \in DOMAIN cb[d].att :
          cb[d].att[i] \in Discoveries /\ cb[d].att[j] \in Ancestry(cb[d].att[i]) => i = j

\* An event reports discovery o.
EventOf(o, d) == \E i \in DOMAIN delegate : Reports(o, d, delegate[i])

\* A discovery to come finds what it is about in the tree, or behind an event that brings
\* it there, and not discovered yet.
TreeGrows(d) ==
    /\ tree[d].discovered \subseteq tree[d].has \ Desc
    /\ cb[d].link = "connecting" \/ Later(0, d, ServicesOp) => tree[d] = NoTree
    /\ \A s \in Service : Later(0, d, CharsOp(s)) =>
          /\ s \in Range(ServicesOf[d])
          /\ s \in tree[d].has \/ EventOf(ServicesOp, d)
          /\ s \notin tree[d].discovered
          /\ \A c \in CharsIn(s) : c \notin tree[d].discovered
    /\ \A c \in Char : Later(0, d, DescsOp(c)) =>
          /\ \/ c \in tree[d].has /\ ServiceOf[c] \in tree[d].has
             \/ EventOf(CharsOp(ServiceOf[c]), d)
          /\ c \notin tree[d].discovered
    /\ \A s \in Service : s \in tree[d].discovered => CharsIn(s) \subseteq tree[d].discovered

\* d is being connected, or a discovery of it is not over.
Discovering(d) ==
    \/ cb[d].link = "connecting"
    \/ \E i \in DOMAIN delegate : delegate[i].dev = d /\ delegate[i].ev = "ConnectionFailed"
    \/ \E o \in Discoveries : Later(0, d, o)

\* Until then a connect() waits for it, and nothing else is asked of d.
SomeoneWaits(d) ==
    /\ Discovering(d) => connected_future_state[d] # NoReq
    /\ connected_future_state[d] # NoReq =>
          /\ \A i \in DOMAIN delegate : delegate[i].dev = d => delegate[i].req = NoReq
          /\ \A i \in DOMAIN cb[d].att : cb[d].att[i].req = NoReq

Careful(d) == LinkCalm(d) /\ LinkOrder(d) /\ DiscoverOnce(d) /\ TreeGrows(d) /\ SomeoneWaits(d)

\* A discovery is reported by one kind of event, which says what was discovered.
LEMMA ReportsOne ==
    ASSUME NEW d, NEW o \in Discoveries, NEW e, Reports(o, d, e)
    PROVE  /\ e.dev = d /\ e.req = NoReq
           /\ e.ev \in {"DiscoveredServices", "DiscoveredCharacteristics",
                        "DiscoveredCharacteristicDescriptors"}
           /\ \A p \in AttOps : Reports(p, d, e) => p = o
  <1>1. CASE o = ServicesOp
    BY <1>1 DEF Reports, ServicesOp, AttOp, AttOps, CharOp, DescOp
  <1>2. CASE \E s \in Service : o = CharsOp(s)
    BY <1>2 DEF Reports, CharsOp, AttOp, AttOps, CharOp, DescOp
  <1>3. CASE \E c \in Char : o = DescsOp(c)
    BY <1>3 DEF Reports, DescsOp, AttOp, AttOps, CharOp, DescOp
  <1> QED BY <1>1, <1>2, <1>3 DEF Discoveries

\* The events that report a level of the discovery.
LEMMA ReportsLevel ==
    ASSUME NEW d, NEW e
    PROVE  /\ e \in CentralDelegateEvent /\ e.ev = "DiscoveredServices" /\ e.dev = d
                 => Reports(ServicesOp, d, e)
           /\ e \in CentralDelegateEvent /\ e.ev = "DiscoveredCharacteristics" /\ e.dev = d
                 => e.attr \in Service /\ Reports(CharsOp(e.attr), d, e)
           /\ Reports(ServicesOp, d, e) => e.ev = "DiscoveredServices"
           /\ \A s : Reports(CharsOp(s), d, e) => e.ev = "DiscoveredCharacteristics" /\ e.attr = s
           /\ \A c : Reports(DescsOp(c), d, e) =>
                 e.ev = "DiscoveredCharacteristicDescriptors" /\ e.attr = c
BY DEF Reports, ServicesOp, CharsOp, DescsOp, AttOp, CentralDelegateEvent, DeviceEvent,
       ServiceEvent, CharEvent, DescEvent

\* What is to come behind an event was to come before it.
LEMMA LaterAhead ==
    ASSUME TypeOK, NEW kind, Occurs(kind), Consume, cb' = cb, NEW d
    PROVE  /\ \A i \in Nat : \A o : Later(i, d, o)' => Later(i + 1, d, o)
           /\ \A i \in Nat : \A o : Later(i + 1, d, o) => Later(i, d, o)
           /\ \A o : EventOf(o, d) /\ ~ Reports(o, d, Head(delegate)) => EventOf(o, d)'
           /\ \A o : EventOf(o, d)' => Later(0, d, o)'
  <1> USE TailEvents
  <1>1. ASSUME NEW i \in Nat, NEW o, Later(i, d, o)'
        PROVE  Later(i + 1, d, o)
    <2>1. CASE \E j \in DOMAIN cb[d].att : cb[d].att[j] = o
      BY <2>1 DEF Later
    <2>2. CASE \E j \in DOMAIN delegate' : j > i /\ Reports(o, d, delegate'[j])
      <3>1. PICK j \in DOMAIN delegate' : j > i /\ Reports(o, d, delegate'[j])
        BY <2>2
      <3>2. j + 1 \in DOMAIN delegate /\ j + 1 > i + 1 /\ delegate'[j] = delegate[j + 1]
        BY <3>1
      <3> QED BY <3>1, <3>2 DEF Later
    <2> QED BY <1>1, <2>1, <2>2 DEF Later
  <1>2. ASSUME NEW i \in Nat, NEW o, Later(i + 1, d, o)
        PROVE  Later(i, d, o)
    <2>1. CASE \E j \in DOMAIN delegate : j > i + 1 /\ Reports(o, d, delegate[j])
      <3>1. PICK j \in DOMAIN delegate : j > i + 1 /\ Reports(o, d, delegate[j])
        BY <2>1
      <3>2. j > i
        BY <3>1
      <3> QED BY <3>1, <3>2 DEF Later
    <2> QED BY <1>2, <2>1 DEF Later
  <1>3. ASSUME NEW o, EventOf(o, d), ~ Reports(o, d, Head(delegate))
        PROVE  EventOf(o, d)'
    <2>1. PICK j \in DOMAIN delegate : Reports(o, d, delegate[j])
      BY <1>3 DEF EventOf
    <2>2. j - 1 \in DOMAIN delegate' /\ delegate'[j - 1] = delegate[j]
      BY <1>3, <2>1
    <2> QED BY <2>1, <2>2 DEF EventOf
  <1>4. ASSUME NEW o, EventOf(o, d)'
        PROVE  Later(0, d, o)'
    <2>1. PICK j \in DOMAIN delegate' : Reports(o, d, delegate'[j])
      BY <1>4 DEF EventOf
    <2>2. j > 0
      BY <2>1
    <2> QED BY <2>1, <2>2 DEF Later
  <1> QED BY <1>1, <1>2, <1>3, <1>4

\* Nothing of d changes but the events.
Unmoved(d) ==
    /\ cb'[d].link = cb[d].link /\ cb'[d].dial = cb[d].dial /\ cb'[d].att = cb[d].att
    /\ tree'[d] = tree[d] /\ connected_future_state'[d] = connected_future_state[d]
    /\ d \in known => d \in known'

\* A step that leaves d alone, and sends no event about a link of it but a notification.
LEMMA Aside ==
    ASSUME NEW d \in Device, Careful(d), Unmoved(d),
           DOMAIN delegate \subseteq DOMAIN delegate',
           \A i \in DOMAIN delegate : delegate'[i] = delegate[i],
           \A i \in DOMAIN delegate' : \/ i \in DOMAIN delegate
                                       \/ delegate'[i].dev # d
                                       \/ /\ delegate'[i].req = NoReq
                                          /\ \/ delegate'[i].ev = "DiscoveredPeripheral"
                                             \/ /\ delegate'[i].ev = "CharacteristicNotified"
                                                /\ cb[d].link = "connected"
    PROVE  Careful(d)'
  <1>1. \A i \in DOMAIN delegate' : OfLink(i, d)' =>
             \/ i \in DOMAIN delegate /\ OfLink(i, d) /\ delegate'[i] = delegate[i]
             \/ delegate'[i].ev = "CharacteristicNotified" /\ cb[d].link = "connected"
    BY DEF OfLink
  <1>2. ASSUME NEW o \in Discoveries, NEW i \in DOMAIN delegate', Reports(o, d, delegate'[i])
        PROVE  i \in DOMAIN delegate /\ Reports(o, d, delegate[i])
    BY <1>2, ReportsOne
  <1>3. ASSUME NEW i, NEW o \in Discoveries, Later(i, d, o)'
        PROVE  Later(i, d, o)
    <2>1. CASE \E j \in DOMAIN cb'[d].att : cb'[d].att[j] = o
      BY <2>1 DEF Later, Unmoved
    <2>2. CASE \E j \in DOMAIN delegate' : j > i /\ Reports(o, d, delegate'[j])
      BY <1>2, <2>2 DEF Later
    <2> QED BY <1>3, <2>1, <2>2 DEF Later
  <1>4. \A o : EventOf(o, d) => EventOf(o, d)'
    BY DEF EventOf
  <1>5. /\ ServicesOp \in Discoveries
        /\ \A s \in Service : CharsOp(s) \in Discoveries
        /\ \A c \in Char : DescsOp(c) \in Discoveries
        /\ \A o \in Discoveries : Ancestry(o) \subseteq Discoveries
    BY DEF Discoveries, Ancestry
  <1>6. LinkCalm(d)'
    BY DEF LinkCalm, LossQueued, Unmoved, Careful
  <1>7. LinkOrder(d)'
    <2>1. LinkOrder(d)
      BY DEF Careful
    <2>2. CASE cb[d].link = "connected"
      <3>1. \A i \in DOMAIN delegate' : OfLink(i, d)' =>
               delegate'[i].ev \notin {"DisconnectedDevice", "ConnectionFailed"}
        BY <1>1, <2>1, <2>2 DEF LinkOrder
      <3> QED BY <2>1, <2>2, <3>1 DEF LinkOrder, Unmoved
    <2>3. CASE cb[d].link # "connected"
      <3>1. \A i \in DOMAIN delegate' : OfLink(i, d)' =>
               i \in DOMAIN delegate /\ OfLink(i, d) /\ delegate'[i] = delegate[i]
        BY <1>1, <2>3
      <3> QED BY <2>1, <3>1 DEF LinkOrder, Unmoved
    <2> QED BY <2>2, <2>3
  <1>8. DiscoverOnce(d)'
    <2>1. ASSUME NEW i \in DOMAIN delegate', NEW o \in Discoveries, Reports(o, d, delegate'[i]),
                 NEW p \in Ancestry(o), Later(i, d, p)'
          PROVE  FALSE
      <3>1. i \in DOMAIN delegate /\ Reports(o, d, delegate[i])
        BY <1>2, <2>1
      <3>2. Later(i, d, p)
        BY <1>3, <1>5, <2>1
      <3> QED BY <3>1, <3>2 DEF Careful, DiscoverOnce
    <2>2. \A i, j \in DOMAIN cb'[d].att :
             cb'[d].att[i] \in Discoveries /\ cb'[d].att[j] \in Ancestry(cb'[d].att[i]) => i = j
      BY DEF Careful, DiscoverOnce, Unmoved
    <2> QED BY <2>1, <2>2 DEF DiscoverOnce
  <1>9. TreeGrows(d)'
    <2>1. TreeGrows(d)
      BY DEF Careful
    <2> QED BY <1>3, <1>4, <1>5, <2>1 DEF TreeGrows, Unmoved
  <1>10. SomeoneWaits(d)'
    <2>1. SomeoneWaits(d)
      BY DEF Careful
    <2>2. Discovering(d)' => Discovering(d)
      BY <1>3 DEF Discovering, Unmoved
    <2>3. (\A i \in DOMAIN delegate : delegate[i].dev = d => delegate[i].req = NoReq)
            => \A i \in DOMAIN delegate' : delegate'[i].dev = d => delegate'[i].req = NoReq
      OBVIOUS
    <2> QED BY <2>1, <2>2, <2>3 DEF SomeoneWaits, Unmoved
  <1> QED BY <1>6, <1>7, <1>8, <1>9, <1>10 DEF Careful

\* The links and what is discovered keep their order when an event is handled.
LEMMA Shifted ==
    ASSUME TypeOK, NEW d \in Device, Careful(d), cb' = cb, d \in known => d \in known',
           NEW kind, Occurs(kind), Consume
    PROVE  /\ LinkCalm(d)' /\ LinkOrder(d)' /\ DiscoverOnce(d)'
           /\ \A i \in DOMAIN delegate' : i + 1 \in DOMAIN delegate /\ delegate'[i] = delegate[i + 1]
           /\ \A o : Later(0, d, o)' => Later(0, d, o) /\ Later(1, d, o)
           /\ \A o : EventOf(o, d)' => Later(0, d, o)'
  <1>0. /\ \A i \in DOMAIN delegate' : i \in Nat /\ i + 1 \in DOMAIN delegate /\ delegate'[i] = delegate[i + 1]
        /\ DOMAIN delegate' \subseteq Nat /\ DOMAIN delegate \subseteq Nat
        /\ Head(delegate).ev = kind
    BY TailEvents DEF Occurs
  <1>1. \A i \in DOMAIN delegate' : OfLink(i, d)' <=> OfLink(i + 1, d)
    BY <1>0 DEF OfLink
  <1>2. /\ \A i \in Nat : \A o : Later(i, d, o)' => Later(i + 1, d, o)
        /\ \A o : Later(0, d, o)' => Later(0, d, o)
    BY LaterAhead
  <1>5. /\ ServicesOp \in Discoveries
        /\ \A s \in Service : CharsOp(s) \in Discoveries
        /\ \A c \in Char : DescsOp(c) \in Discoveries
        /\ \A o \in Discoveries : Ancestry(o) \subseteq Discoveries
    BY DEF Discoveries, Ancestry
  <1>6. LinkCalm(d)'
    BY <1>0 DEF LinkCalm, LossQueued, Careful
  <1>7. LinkOrder(d)'
    <2>1. LinkOrder(d)
      BY DEF Careful
    <2>2. ASSUME NEW i \in DOMAIN delegate', OfLink(i, d)'
          PROVE  /\ d \in known' /\ cb'[d].link # "connecting"
                 /\ delegate'[i].ev \in {"DisconnectedDevice", "ConnectionFailed"} =>
                      /\ cb'[d].link = "disconnected"
                      /\ \A j \in DOMAIN delegate' : OfLink(j, d)' => j \leq i
                 /\ delegate'[i].ev = "ConnectionFailed" =>
                      \A j \in DOMAIN delegate' : OfLink(j, d)' => j = i
      <3>1. /\ i + 1 \in DOMAIN delegate /\ OfLink(i + 1, d) /\ delegate'[i] = delegate[i + 1]
            /\ i \in Nat
        BY <1>0, <1>1, <2>2
      <3>2. ASSUME NEW j \in DOMAIN delegate', OfLink(j, d)'
            PROVE  j \in Nat /\ j + 1 \in DOMAIN delegate /\ OfLink(j + 1, d)
        BY <1>0, <1>1, <3>2
      <3>3. d \in known' /\ cb'[d].link # "connecting"
        BY <2>1, <3>1 DEF LinkOrder
      <3>4. ASSUME delegate'[i].ev \in {"DisconnectedDevice", "ConnectionFailed"}
            PROVE  /\ cb'[d].link = "disconnected"
                   /\ \A j \in DOMAIN delegate' : OfLink(j, d)' => j \leq i
        <4>1. cb[d].link = "disconnected" /\ \A j \in DOMAIN delegate : OfLink(j, d) => j \leq i + 1
          BY <2>1, <3>1, <3>4 DEF LinkOrder
        <4>2. ASSUME NEW j \in DOMAIN delegate', OfLink(j, d)'
              PROVE  j \leq i
          <5>1. j \in Nat /\ j + 1 \leq i + 1
            BY <3>2, <4>1, <4>2
          <5> QED BY <3>1, <5>1
        <4> QED BY <4>1, <4>2
      <3>5. ASSUME delegate'[i].ev = "ConnectionFailed", NEW j \in DOMAIN delegate', OfLink(j, d)'
            PROVE  j = i
        <4>1. \A l \in DOMAIN delegate : OfLink(l, d) => l = i + 1
          BY <2>1, <3>1, <3>5 DEF LinkOrder
        <4>2. j \in Nat /\ j + 1 = i + 1
          BY <3>2, <3>5, <4>1
        <4> QED BY <3>1, <4>2
      <3> QED BY <3>3, <3>4, <3>5
    <2> QED BY <2>1, <2>2 DEF LinkOrder
  <1>8. DiscoverOnce(d)'
    <2>1. ASSUME NEW i \in DOMAIN delegate', NEW o \in Discoveries, Reports(o, d, delegate'[i]),
                 NEW p \in Ancestry(o), Later(i, d, p)'
          PROVE  FALSE
      <3>1. i \in Nat /\ i + 1 \in DOMAIN delegate /\ Reports(o, d, delegate[i + 1])
        BY <1>0, <2>1
      <3>2. Later(i + 1, d, p)
        BY <1>2, <2>1, <3>1
      <3> QED BY <3>1, <3>2 DEF Careful, DiscoverOnce
    <2>2. \A i, j \in DOMAIN cb'[d].att :
             cb'[d].att[i] \in Discoveries /\ cb'[d].att[j] \in Ancestry(cb'[d].att[i]) => i = j
      BY DEF Careful, DiscoverOnce
    <2> QED BY <2>1, <2>2 DEF DiscoverOnce
  <1> QED BY <1>0, <1>2, <1>6, <1>7, <1>8, LaterAhead

\* An event is handled that changes nothing of d.
LEMMA Passing ==
    ASSUME TypeOK, NEW d \in Device, Careful(d), Unmoved(d), cb' = cb,
           NEW kind, Occurs(kind), Consume,
           Head(delegate).dev = d => kind \notin {"DiscoveredServices", "DiscoveredCharacteristics",
                                                  "DiscoveredCharacteristicDescriptors"}
    PROVE  Careful(d)'
  <1>1. /\ LinkCalm(d)' /\ LinkOrder(d)' /\ DiscoverOnce(d)'
        /\ \A i \in DOMAIN delegate' : i + 1 \in DOMAIN delegate /\ delegate'[i] = delegate[i + 1]
        /\ \A o : Later(0, d, o)' => Later(0, d, o)
    BY Shifted DEF Unmoved
  <1>5. /\ ServicesOp \in Discoveries
        /\ \A s \in Service : CharsOp(s) \in Discoveries
    BY DEF Discoveries
  <1>4. \A o \in Discoveries : EventOf(o, d) => EventOf(o, d)'
    <2>1. \A o \in Discoveries : ~ Reports(o, d, Head(delegate))
      BY ReportsOne DEF Occurs
    <2> QED BY <2>1, LaterAhead
  <1>9. TreeGrows(d)'
    <2>1. TreeGrows(d)
      BY DEF Careful
    <2>2. \A c \in Char : ServiceOf[c] \in Service
      BY DelegateAssumption
    <2> QED BY <1>1, <1>4, <1>5, <2>1, <2>2 DEF TreeGrows, Unmoved
  <1>10. SomeoneWaits(d)'
    <2>1. SomeoneWaits(d)
      BY DEF Careful
    <2>2. Discovering(d)' => Discovering(d)
      BY <1>1 DEF Discovering, Unmoved
    <2>3. (\A i \in DOMAIN delegate : delegate[i].dev = d => delegate[i].req = NoReq)
            => \A i \in DOMAIN delegate' : delegate'[i].dev = d => delegate'[i].req = NoReq
      BY <1>1
    <2> QED BY <2>1, <2>2, <2>3 DEF SomeoneWaits, Unmoved
  <1> QED BY <1>1, <1>9, <1>10 DEF Careful

----------------------------------------------------------------------------
(* Careful clients and the framework. *)

\* What is to come when an operation is over: what was to come, and what it led to.
LEMMA CompletedLater ==
    ASSUME TypeOK, NEW d \in Device, Completed(d)
    PROVE  LET h == Head(cb[d].att)
           IN  /\ h \in AttOps
               /\ \A i : Later(i, d, h)
               /\ \A i : \A p \in Discoveries : Later(i, d, p)' =>
                     \/ Later(i, d, p)
                     \/ /\ h \in Discoveries /\ p \in LedTo(d, h)
                        /\ \E e \in CentralDelegateEvent : Send(e) /\ Reports(h, d, e)
  <1> DEFINE s == cb[d].att
             h == Head(s)
  <1>1. PICK more \in Seq(AttOps) :
           /\ Finishes(d, more)
           /\ \A j \in DOMAIN more : more[j].req = NoReq
           /\ \/ delegate' = delegate /\ \A j \in DOMAIN more : more[j] \notin Discoveries
              \/ /\ \E e \in CentralDelegateEvent :
                       /\ Send(e) /\ Reports(h, d, e)
                       /\ SubscriptionsSucceed => Truly(h, e)
                 /\ \A j \in DOMAIN more : more[j] \in Discoveries => more[j] \in LedTo(d, h)
                 /\ \A i, j \in DOMAIN more : more[i] \in Discoveries /\ more[i] = more[j] => i = j
    BY DEF Completed
  <1>2. /\ Len(s) \in Nat \ {0} /\ DOMAIN s = 1..Len(s) /\ s \in Seq(AttOps) /\ h = s[1]
        /\ \A j \in DOMAIN cb'[d].att :
              \/ j + 1 \in DOMAIN s /\ cb'[d].att[j] = s[j + 1]
              \/ j - (Len(s) - 1) \in DOMAIN more /\ cb'[d].att[j] = more[j - (Len(s) - 1)]
    BY <1>1, RestOfAtt
  <1>3. h \in AttOps /\ 1 \in DOMAIN s
    BY <1>2
  <1>4. \A i : Later(i, d, h)
    BY <1>2, <1>3 DEF Later
  <1>5. ASSUME NEW j \in DOMAIN more, more[j] \in Discoveries
        PROVE  /\ h \in Discoveries /\ more[j] \in LedTo(d, h)
               /\ \E e \in CentralDelegateEvent : Send(e) /\ Reports(h, d, e)
    <2>1. more[j] \in LedTo(d, h) /\ \E e \in CentralDelegateEvent : Send(e) /\ Reports(h, d, e)
      BY <1>1, <1>5
    <2>2. h \in Discoveries
      BY <2>1, DelegateAssumption, LayoutTypes DEF LedTo, Discoveries
    <2> QED BY <2>1, <2>2
  <1>6. ASSUME NEW i, NEW p \in Discoveries, Later(i, d, p)'
        PROVE  \/ Later(i, d, p)
               \/ /\ h \in Discoveries /\ p \in LedTo(d, h)
                  /\ \E e \in CentralDelegateEvent : Send(e) /\ Reports(h, d, e)
    <2>1. CASE \E j \in DOMAIN cb'[d].att : cb'[d].att[j] = p
      <3>1. PICK j \in DOMAIN cb'[d].att : cb'[d].att[j] = p
        BY <2>1
      <3>2. CASE j + 1 \in DOMAIN s /\ cb'[d].att[j] = s[j + 1]
        BY <3>1, <3>2 DEF Later
      <3>3. CASE j - (Len(s) - 1) \in DOMAIN more /\ cb'[d].att[j] = more[j - (Len(s) - 1)]
        BY <1>5, <3>1, <3>3
      <3> QED BY <1>2, <3>2, <3>3
    <2>2. CASE \E j \in DOMAIN delegate' : j > i /\ Reports(p, d, delegate'[j])
      <3>1. PICK j \in DOMAIN delegate' : j > i /\ Reports(p, d, delegate'[j])
        BY <2>2
      <3>2. ASSUME j \in DOMAIN delegate, delegate'[j] = delegate[j]
            PROVE  Later(i, d, p)
        BY <3>1, <3>2 DEF Later
      <3>3. CASE delegate' = delegate
        BY <3>1, <3>2, <3>3
      <3>4. ASSUME NEW e \in CentralDelegateEvent, Send(e), Reports(h, d, e)
            PROVE  Later(i, d, p)
        <4>1. CASE j \in DOMAIN delegate
          BY <3>2, <3>4, <4>1, SentEvents
        <4>2. CASE j = Len(delegate) + 1
          <5>1. Reports(p, d, e)
            BY <3>1, <3>4, <4>2, SentEvents
          <5>2. p = h
            BY <1>3, <3>4, <5>1, ReportsOne
          <5> QED BY <1>4, <5>2
        <4>3. j \in DOMAIN delegate \/ j = Len(delegate) + 1
          BY <3>1, <3>4, SentEvents
        <4> QED BY <4>1, <4>2, <4>3
      <3> QED BY <1>1, <3>3, <3>4
    <2> QED BY <1>6, <2>1, <2>2 DEF Later
  <1> QED BY <1>3, <1>4, <1>6

\* An operation that is over is reported behind all other events.
LEMMA CompletedEvents ==
    ASSUME TypeOK, NEW d \in Device, Completed(d)
    PROVE  LET h == Head(cb[d].att)
           IN  /\ DOMAIN delegate \subseteq DOMAIN delegate'
               /\ \A i \in DOMAIN delegate : delegate'[i] = delegate[i]
               /\ \A i \in DOMAIN delegate' : i \in DOMAIN delegate \/
                     /\ i = Len(delegate) + 1
                     /\ Reports(h, d, delegate'[i])
                     /\ SubscriptionsSucceed => Truly(h, delegate'[i])
  <1>1. CASE delegate' = delegate
    BY <1>1
  <1>2. ASSUME NEW e \in CentralDelegateEvent, Send(e), Reports(Head(cb[d].att), d, e),
               SubscriptionsSucceed => Truly(Head(cb[d].att), e)
        PROVE  LET h == Head(cb[d].att)
               IN  /\ DOMAIN delegate \subseteq DOMAIN delegate'
                   /\ \A i \in DOMAIN delegate : delegate'[i] = delegate[i]
                   /\ \A i \in DOMAIN delegate' : i \in DOMAIN delegate \/
                         /\ i = Len(delegate) + 1
                         /\ Reports(h, d, delegate'[i])
                         /\ SubscriptionsSucceed => Truly(h, delegate'[i])
    <2>1. /\ DOMAIN delegate \subseteq DOMAIN delegate'
          /\ \A i \in DOMAIN delegate : delegate'[i] = delegate[i]
          /\ \A i \in DOMAIN delegate' : i \in DOMAIN delegate \/ (i = Len(delegate) + 1 /\ delegate'[i] = e)
      BY <1>2, SentEvents
    <2> QED BY <1>2, <2>1
  <1> QED BY <1>1, <1>2 DEF Completed

\* What an operation that is over leaves of the operations of d.
LEMMA CompletedAtt ==
    ASSUME TypeOK, NEW d \in Device, Completed(d)
    PROVE  LET s == cb[d].att
           IN  \E more \in Seq(AttOps) :
                  /\ DOMAIN s = 1..Len(s) /\ Len(s) \in Nat \ {0} /\ Head(s) = s[1]
                  /\ DOMAIN more \subseteq Int
                  /\ DOMAIN cb'[d].att \subseteq Nat \ {0}
                  /\ \A j \in DOMAIN more : more[j].req = NoReq
                  /\ \A j \in DOMAIN more : more[j] \in Discoveries =>
                        Head(s) \in Discoveries /\ more[j] \in LedTo(d, Head(s))
                  /\ \A i, j \in DOMAIN more : more[i] \in Discoveries /\ more[i] = more[j] => i = j
                  /\ \A j \in DOMAIN cb'[d].att :
                        \/ j + 1 \in DOMAIN s /\ cb'[d].att[j] = s[j + 1]
                        \/ /\ j - (Len(s) - 1) \in DOMAIN more
                           /\ cb'[d].att[j] = more[j - (Len(s) - 1)]
  <1> DEFINE s == cb[d].att
             h == Head(s)
  <1>1. PICK more \in Seq(AttOps) :
           /\ Finishes(d, more)
           /\ \A j \in DOMAIN more : more[j].req = NoReq
           /\ \/ \A j \in DOMAIN more : more[j] \notin Discoveries
              \/ /\ \A j \in DOMAIN more : more[j] \in Discoveries => more[j] \in LedTo(d, h)
                 /\ \A i, j \in DOMAIN more : more[i] \in Discoveries /\ more[i] = more[j] => i = j
    BY DEF Completed
  <1>2. /\ Len(s) \in Nat \ {0} /\ DOMAIN s = 1..Len(s) /\ h = s[1]
        /\ DOMAIN more \subseteq Int /\ DOMAIN cb'[d].att \subseteq Nat \ {0}
        /\ \A j \in DOMAIN cb'[d].att :
              \/ j + 1 \in DOMAIN s /\ cb'[d].att[j] = s[j + 1]
              \/ j - (Len(s) - 1) \in DOMAIN more /\ cb'[d].att[j] = more[j - (Len(s) - 1)]
    BY <1>1, RestOfAtt
  <1>3. ASSUME NEW j \in DOMAIN more, more[j] \in Discoveries
        PROVE  h \in Discoveries /\ more[j] \in LedTo(d, h)
    <2>1. more[j] \in LedTo(d, h)
      BY <1>1, <1>3
    <2>2. h \in Discoveries
      BY <2>1, DelegateAssumption, LayoutTypes DEF LedTo, Discoveries
    <2> QED BY <2>1, <2>2
  <1>4. \A i, j \in DOMAIN more : more[i] \in Discoveries /\ more[i] = more[j] => i = j
    BY <1>1
  <1> HIDE DEF s, h
  <1>5. /\ \A j \in DOMAIN more : more[j].req = NoReq
        /\ \A j \in DOMAIN more : more[j] \in Discoveries => h \in Discoveries /\ more[j] \in LedTo(d, h)
    BY <1>1, <1>3
  <1>6. Head(s) = h
    BY DEF h
  <1> QED BY <1>2, <1>4, <1>5, <1>6 DEF s

\* An operation of d is over: the events are still in order.
LEMMA CompletedOrder ==
    ASSUME TypeOK, NEW d \in Device, Careful(d), Completed(d), UNCHANGED internalVars
    PROVE  LinkCalm(d)' /\ LinkOrder(d)'
  <1> DEFINE h == Head(cb[d].att)
  <1>1. /\ cb[d].link \in {"connected", "disconnecting"}
        /\ cb'[d].link = cb[d].link /\ cb'[d].dial = cb[d].dial
    BY DEF Completed, Finishes
  <1>2. /\ DOMAIN delegate \subseteq DOMAIN delegate'
        /\ \A i \in DOMAIN delegate : delegate'[i] = delegate[i]
        /\ \A i \in DOMAIN delegate' :
              i \in DOMAIN delegate \/ (i = Len(delegate) + 1 /\ Reports(h, d, delegate'[i]))
    BY CompletedEvents
  <1>3. \A e : Reports(h, d, e) =>
              e.ev \notin {"DisconnectedDevice", "ConnectionFailed", "DiscoveredPeripheral"}
    BY DEF Reports
  <1>4. LinkCalm(d)'
    BY <1>1, <1>2, <1>3 DEF Careful, LinkCalm, LossQueued
  <1>5. ASSUME NEW i \in DOMAIN delegate', OfLink(i, d)'
        PROVE  delegate'[i].ev \notin {"DisconnectedDevice", "ConnectionFailed"}
    <2>1. CASE i \in DOMAIN delegate
      <3>1. OfLink(i, d) /\ delegate'[i] = delegate[i]
        BY <1>2, <1>5, <2>1 DEF OfLink
      <3> QED BY <1>1, <2>1, <3>1 DEF Careful, LinkOrder
    <2> QED BY <1>2, <1>3, <2>1
  <1>6. cb[d].link # "disconnected" => d \in known
    BY DEF Careful, LinkOrder
  <1>7. known' = known
    BY DEF internalVars
  <1> QED BY <1>1, <1>4, <1>5, <1>6, <1>7 DEF LinkOrder

\* A discovery that is over is not to come again, and leads to none that has come.
LEMMA CompletedOnce ==
    ASSUME TypeOK, NEW d \in Device, Careful(d), Completed(d)
    PROVE  DiscoverOnce(d)'
  <1> DEFINE s == cb[d].att
             h == Head(s)
             t == cb'[d].att
  <1>0. DiscoverOnce(d)
    BY DEF Careful
  <1>1. /\ h \in AttOps
        /\ \A i : Later(i, d, h)
        /\ \A i : \A p \in Discoveries : Later(i, d, p)' =>
              Later(i, d, p) \/ (h \in Discoveries /\ p \in LedTo(d, h))
    BY CompletedLater
  <1>2. /\ DOMAIN delegate \subseteq DOMAIN delegate'
        /\ \A i \in DOMAIN delegate : delegate'[i] = delegate[i]
        /\ \A i \in DOMAIN delegate' :
              i \in DOMAIN delegate \/ (i = Len(delegate) + 1 /\ Reports(h, d, delegate'[i]))
        /\ DOMAIN delegate = 1..Len(delegate) /\ Len(delegate) \in Nat
    <2>1. delegate \in Seq(CentralDelegateEvent)
      BY DEF TypeOK, DelegateTypeOK
    <2> QED BY <2>1, CompletedEvents
  <1>3. PICK more \in Seq(AttOps) :
           /\ DOMAIN s = 1..Len(s) /\ Len(s) \in Nat \ {0} /\ h = s[1]
           /\ DOMAIN more \subseteq Int /\ DOMAIN t \subseteq Nat \ {0}
           /\ \A j \in DOMAIN more : more[j] \in Discoveries => h \in Discoveries /\ more[j] \in LedTo(d, h)
           /\ \A i, j \in DOMAIN more : more[i] \in Discoveries /\ more[i] = more[j] => i = j
           /\ \A j \in DOMAIN t :
                 \/ j + 1 \in DOMAIN s /\ t[j] = s[j + 1]
                 \/ j - (Len(s) - 1) \in DOMAIN more /\ t[j] = more[j - (Len(s) - 1)]
    BY CompletedAtt
  <1>4. \A o \in Discoveries : Ancestry(o) \subseteq Discoveries /\ o \in Ancestry(o)
    BY DEF Ancestry
  <1>5. \A i, j \in DOMAIN s : s[i] \in Discoveries /\ s[j] \in Ancestry(s[i]) => i = j
    BY <1>0 DEF DiscoverOnce
  <1>6. ASSUME NEW i \in DOMAIN delegate', NEW o \in Discoveries, Reports(o, d, delegate'[i]),
               NEW p \in Ancestry(o), Later(i, d, p)'
        PROVE  FALSE
    <2>0. p \in Discoveries
      BY <1>4
    <2>1. CASE i \in DOMAIN delegate
      <3>1. Reports(o, d, delegate[i])
        BY <1>2, <1>6, <2>1
      <3>2. ~ Later(i, d, p) /\ (h \in Discoveries => h \notin Ancestry(o))
        BY <1>0, <1>1, <2>1, <3>1 DEF DiscoverOnce
      <3>3. h \in Discoveries /\ p \in LedTo(d, h)
        BY <1>1, <1>6, <2>0, <3>2
      <3>4. h \in Ancestry(o)
        <4> HIDE DEF h
        <4> QED BY <3>3, Families
      <3> QED BY <3>2, <3>3, <3>4
    <2>2. CASE i = Len(delegate) + 1 /\ Reports(h, d, delegate'[i])
      <3>1. h = o
        BY <1>1, <1>6, <2>2, ReportsOne
      <3>2. PICK j \in DOMAIN t : t[j] = p
        <4>1. ~ \E j \in DOMAIN delegate' : j > i /\ Reports(p, d, delegate'[j])
          <5>1. \A j \in DOMAIN delegate' : ~ j > i
            BY <1>2, <2>2
          <5> QED BY <5>1
        <4> QED BY <1>6, <4>1 DEF Later
      <3>3. CASE j + 1 \in DOMAIN s /\ t[j] = s[j + 1]
        <4>1. 1 \in DOMAIN s /\ s[1] \in Discoveries /\ s[j + 1] \in Ancestry(s[1]) /\ j + 1 \in DOMAIN s
          BY <1>3, <3>1, <3>2, <3>3
        <4>2. j + 1 = 1
          BY <1>5, <4>1
        <4> QED BY <1>3, <4>2
      <3>4. CASE j - (Len(s) - 1) \in DOMAIN more /\ t[j] = more[j - (Len(s) - 1)]
        <4>1. h \in Discoveries /\ p \in LedTo(d, h)
          BY <1>3, <2>0, <3>2, <3>4
        <4>2. p \notin Ancestry(h)
          <5> HIDE DEF h
          <5> QED BY <4>1, Families
        <4> QED BY <3>1, <4>2
      <3> QED BY <1>3, <3>3, <3>4
    <2> QED BY <1>2, <2>1, <2>2
  <1>7. ASSUME NEW i \in DOMAIN t, NEW j \in DOMAIN t, t[i] \in Discoveries, t[j] \in Ancestry(t[i])
        PROVE  i = j
    <2> DEFINE m == Len(s) - 1
               Old(l) == l + 1 \in DOMAIN s /\ t[l] = s[l + 1]
               New(l) == l - m \in DOMAIN more /\ t[l] = more[l - m]
    <2>0. /\ \A l \in DOMAIN t : Old(l) \/ New(l)
          /\ i \in Nat /\ j \in Nat /\ i # 0 /\ j # 0 /\ m \in Nat
          /\ t[j] \in Discoveries
      BY <1>3, <1>4, <1>7
    <2>1. ASSUME NEW l \in DOMAIN t, New(l), t[l] \in Discoveries
          PROVE  h \in Discoveries /\ t[l] \in LedTo(d, h)
      BY <1>3, <2>1
    <2>2. ASSUME NEW l \in DOMAIN t, Old(l)
          PROVE  /\ l + 1 \in DOMAIN s /\ 1 \in DOMAIN s /\ l + 1 # 1
                 /\ h \in Discoveries => t[l] \notin Ancestry(h)
                 /\ t[l] \in Discoveries => h \notin Ancestry(t[l])
      <3>1. l + 1 \in DOMAIN s /\ 1 \in DOMAIN s /\ l + 1 # 1 /\ t[l] = s[l + 1] /\ h = s[1]
        BY <1>3, <2>2
      <3> HIDE DEF s, h, t, Old, New, m
      <3>2. \A a, b \in DOMAIN s : s[a] \in Discoveries /\ s[b] \in Ancestry(s[a]) => a = b
        BY <1>5
      <3> QED BY <3>1, <3>2
    <2>3. CASE Old(i) /\ Old(j)
      <3>1. i + 1 = j + 1
        BY <1>5, <1>7, <2>3
      <3> QED BY <2>0, <3>1
    <2>4. CASE Old(i) /\ New(j)
      <3>1. h \in Discoveries /\ t[j] \in LedTo(d, h)
        BY <2>0, <2>1, <2>4
      <3>2. h \notin Ancestry(t[i])
        BY <1>7, <2>2, <2>4
      <3> HIDE DEF s, h, t
      <3>3. h \in Ancestry(t[i])
        BY <1>7, <3>1, Families
      <3> QED BY <3>2, <3>3
    <2>5. CASE New(i) /\ Old(j)
      <3>1. h \in Discoveries /\ t[i] \in LedTo(d, h)
        BY <1>7, <2>1, <2>5
      <3>2. t[j] \notin Ancestry(h) /\ h \notin Ancestry(t[j])
        BY <2>0, <2>2, <2>5, <3>1
      <3> HIDE DEF s, h, t
      <3>3. t[j] = t[i]
        BY <1>7, <3>1, <3>2, Families
      <3>4. h \in Ancestry(t[i])
        BY <1>4, <1>7, <3>1, Families
      <3> QED BY <3>2, <3>3, <3>4
    <2>6. CASE New(i) /\ New(j)
      <3>1. h \in Discoveries /\ t[i] \in LedTo(d, h) /\ t[j] \in LedTo(d, h)
        BY <1>7, <2>0, <2>1, <2>6
      <3>2. t[j] = t[i]
        <4> HIDE DEF s, h, t
        <4>1. t[j] \notin Ancestry(h)
          BY <3>1, Families
        <4> QED BY <1>7, <3>1, <4>1, Families
      <3>3. i - m = j - m
        BY <1>3, <1>7, <2>6, <3>2
      <3> QED BY <2>0, <3>3
    <2> QED BY <2>0, <2>3, <2>4, <2>5, <2>6
  <1> QED BY <1>6, <1>7 DEF DiscoverOnce

\* The members of the discoveries.
LEMMA Members ==
    /\ ServicesOp \in Discoveries
    /\ \A s \in Service : CharsOp(s) \in Discoveries
    /\ \A c \in Char : DescsOp(c) \in Discoveries /\ ServiceOf[c] \in Service
    /\ \A o \in Discoveries : Ancestry(o) \subseteq Discoveries /\ o \in Ancestry(o)
BY DelegateAssumption DEF Discoveries, Ancestry

\* What a discovery that is over leads to is behind an event that brings it into the tree.
LEMMA CompletedTree ==
    ASSUME TypeOK, NEW d \in Device, Careful(d), Completed(d), UNCHANGED internalVars
    PROVE  TreeGrows(d)'
  <1>1. PICK h : h = Head(cb[d].att)
    OBVIOUS
  <1>2. TreeGrows(d) /\ tree' = tree
    BY DEF Careful, internalVars
  <1>3. cb[d].link \in {"connected", "disconnecting"} /\ cb'[d].link = cb[d].link
    BY DEF Completed, Finishes
  <1>4. ASSUME NEW e \in CentralDelegateEvent, Send(e), Reports(h, d, e)
        PROVE  EventOf(h, d)'
    <2>1. Len(delegate) + 1 \in DOMAIN delegate' /\ delegate'[Len(delegate) + 1] = e
      BY <1>4, SentEvents
    <2> QED BY <1>4, <2>1 DEF EventOf
  <1>5. /\ Later(0, d, h)
        /\ \A p \in Discoveries : Later(0, d, p)' =>
              Later(0, d, p) \/ (h \in Discoveries /\ p \in LedTo(d, h) /\ EventOf(h, d)')
    BY <1>1, <1>4, CompletedLater
  <1>6. \A o : EventOf(o, d) => EventOf(o, d)'
    BY CompletedEvents DEF EventOf
  <1>7. cb'[d].link = "connecting" \/ Later(0, d, ServicesOp)' => tree[d] = NoTree
    <2>1. \A o : ServicesOp \notin LedTo(d, o)
      BY DiscoveriesDiffer DEF LedTo
    <2> QED BY <1>2, <1>3, <1>5, <2>1, Members DEF TreeGrows
  <1>8. ASSUME NEW s \in Service, Later(0, d, CharsOp(s))'
        PROVE  /\ s \in Range(ServicesOf[d])
               /\ s \in tree[d].has \/ EventOf(ServicesOp, d)'
               /\ s \notin tree[d].discovered
               /\ \A c \in CharsIn(s) : c \notin tree[d].discovered
    <2>1. CASE Later(0, d, CharsOp(s))
      BY <1>2, <1>6, <2>1 DEF TreeGrows
    <2>2. CASE CharsOp(s) \in LedTo(d, h) /\ EventOf(h, d)'
      <3>1. h = ServicesOp /\ s \in Range(ServicesOf[d])
        BY <2>2, DiscoveriesDiffer DEF LedTo
      <3>2. tree[d] = NoTree
        BY <1>2, <1>5, <3>1 DEF TreeGrows
      <3> QED BY <2>2, <3>1, <3>2 DEF NoTree
    <2> QED BY <1>5, <1>8, <2>1, <2>2, Members
  <1>9. ASSUME NEW c \in Char, Later(0, d, DescsOp(c))'
        PROVE  /\ \/ c \in tree[d].has /\ ServiceOf[c] \in tree[d].has
                  \/ EventOf(CharsOp(ServiceOf[c]), d)'
               /\ c \notin tree[d].discovered
    <2>1. CASE Later(0, d, DescsOp(c))
      BY <1>2, <1>6, <2>1 DEF TreeGrows
    <2>2. CASE DescsOp(c) \in LedTo(d, h) /\ EventOf(h, d)'
      <3>1. h = CharsOp(ServiceOf[c]) /\ ServiceOf[c] \in Service
        BY <2>2, DiscoveriesDiffer, Members DEF LedTo
      <3>2. c \in CharsIn(ServiceOf[c])
        BY DEF CharsIn
      <3>3. c \notin tree[d].discovered
        BY <1>2, <1>5, <3>1, <3>2 DEF TreeGrows
      <3> QED BY <2>2, <3>1, <3>3
    <2> QED BY <1>5, <1>9, <2>1, <2>2, Members
  <1>10. /\ tree[d].discovered \subseteq tree[d].has \ Desc
         /\ \A s \in Service : s \in tree[d].discovered => CharsIn(s) \subseteq tree[d].discovered
    BY <1>2 DEF TreeGrows
  <1> QED BY <1>2, <1>7, <1>8, <1>9, <1>10 DEF TreeGrows

\* An operation that is over adds no request, and no discovery where there was none.
LEMMA CompletedWaits ==
    ASSUME TypeOK, NEW d \in Device, Careful(d), Completed(d), UNCHANGED internalVars
    PROVE  SomeoneWaits(d)'
  <1>1. PICK h : h = Head(cb[d].att)
    OBVIOUS
  <1>2. SomeoneWaits(d) /\ connected_future_state' = connected_future_state
    BY DEF Careful, internalVars, futureVars
  <1>3. cb'[d].link = cb[d].link
    BY DEF Completed, Finishes
  <1>4. /\ \A i \in DOMAIN delegate : delegate'[i] = delegate[i]
        /\ \A i \in DOMAIN delegate' : i \in DOMAIN delegate \/ Reports(h, d, delegate'[i])
    BY <1>1, CompletedEvents
  <1>5. /\ Later(0, d, h)
        /\ \A p \in Discoveries : Later(0, d, p)' => Later(0, d, p) \/ h \in Discoveries
    BY <1>1, CompletedLater
  <1>6. Discovering(d)' => Discovering(d)
    <2>1. \A e : Reports(h, d, e) => e.ev # "ConnectionFailed"
      BY DEF Reports
    <2> QED BY <1>3, <1>4, <1>5, <2>1 DEF Discovering
  <1>7. ASSUME \A i \in DOMAIN delegate : delegate[i].dev = d => delegate[i].req = NoReq,
               \A i \in DOMAIN cb[d].att : cb[d].att[i].req = NoReq
        PROVE  /\ \A i \in DOMAIN delegate' : delegate'[i].dev = d => delegate'[i].req = NoReq
               /\ \A i \in DOMAIN cb'[d].att : cb'[d].att[i].req = NoReq
    <2> DEFINE s == cb[d].att
    <2>1. PICK more \in Seq(AttOps) :
             /\ DOMAIN s = 1..Len(s) /\ Len(s) \in Nat \ {0} /\ Head(s) = s[1]
             /\ \A j \in DOMAIN more : more[j].req = NoReq
             /\ \A j \in DOMAIN cb'[d].att :
                   \/ j + 1 \in DOMAIN s /\ cb'[d].att[j] = s[j + 1]
                   \/ j - (Len(s) - 1) \in DOMAIN more /\ cb'[d].att[j] = more[j - (Len(s) - 1)]
      BY CompletedAtt
    <2>2. \A i \in DOMAIN cb'[d].att : cb'[d].att[i].req = NoReq
      BY <1>7, <2>1
    <2>3. h.req = NoReq
      BY <1>1, <1>7, <2>1
    <2>4. \A e : Reports(h, d, e) => e.req = NoReq
      BY <2>3 DEF Reports
    <2>5. \A i \in DOMAIN delegate' : delegate'[i].dev = d => delegate'[i].req = NoReq
      BY <1>4, <1>7, <2>4
    <2> QED BY <2>2, <2>5
  <1> QED BY <1>2, <1>6, <1>7 DEF SomeoneWaits

\* An operation is over.
LEMMA CompletedCareful ==
    ASSUME TypeOK, NEW d \in Device, Careful(d), Completed(d), UNCHANGED internalVars
    PROVE  Careful(d)'
BY CompletedOrder, CompletedOnce, CompletedTree, CompletedWaits DEF Careful

\* Something that was not asked for is reported.
LEMMA AnnouncedCareful ==
    ASSUME TypeOK, NEW d \in Device, Careful(d), Announced(d), UNCHANGED internalVars
    PROVE  Careful(d)'
  <1>1. PICK e \in CentralDelegateEvent :
           /\ Send(e) /\ e.dev = d /\ e.req = NoReq
           /\ \/ e.ev = "DiscoveredPeripheral"
              \/ e.ev = "CharacteristicNotified" /\ cb[d].link = "connected"
    BY DEF Announced
  <1>2. /\ DOMAIN delegate \subseteq DOMAIN delegate'
        /\ \A i \in DOMAIN delegate : delegate'[i] = delegate[i]
        /\ \A i \in DOMAIN delegate' : i \in DOMAIN delegate \/ delegate'[i] = e
    BY <1>1, SentEvents
  <1>3. Unmoved(d)
    BY DEF Announced, Unmoved, internalVars, futureVars
  <1> QED BY <1>1, <1>2, <1>3, Aside

\* A link of d comes up, or does not.
LEMMA LinkUpCareful ==
    ASSUME TypeOK, NEW d \in Device, Careful(d), UNCHANGED internalVars,
           DidConnectPeripheral(d) \/ DidFailToConnectPeripheral(d)
    PROVE  Careful(d)'
  <1>0. cb \in CbType
    BY DEF TypeOK, DelegateTypeOK, CbType
  <1>1. cb[d].dial /\ cb[d].link = "connecting" /\ cb[d].att = <<>> /\ d \in known /\ ~ LossQueued(d)
    BY DEF DidConnectPeripheral, DidFailToConnectPeripheral, Careful, LinkCalm, LinkOrder
  <1>2. \A i \in DOMAIN delegate : ~ OfLink(i, d)
    BY <1>1 DEF Careful, LinkOrder
  <1>3. PICK e \in CentralDelegateEvent :
           /\ Send(e) /\ e.dev = d /\ e.req = NoReq
           /\ \/ /\ e.ev = "ConnectedDevice"
                 /\ cb'[d].link = "connected" /\ cb'[d].att = <<ServicesOp>>
              \/ /\ e.ev = "ConnectionFailed"
                 /\ cb'[d].link = "disconnected" /\ cb'[d].att = <<>>
           /\ cb'[d].dial = FALSE
    <2>1. CASE DidConnectPeripheral(d)
      <3>1. Event("ConnectedDevice", d, NoAttr, NoReq) \in CentralDelegateEvent
        BY EventTypes DEF DeviceEvent
      <3>2. cb'[d].link = "connected" /\ cb'[d].dial = FALSE /\ cb'[d].att = Append(cb[d].att, ServicesOp)
        BY <1>0, <2>1 DEF DidConnectPeripheral, CbType, ServicesOp
      <3>3. cb'[d].att = <<ServicesOp>>
        BY <1>1, <3>2
      <3> QED BY <2>1, <3>1, <3>2, <3>3 DEF DidConnectPeripheral, Event
    <2>2. CASE DidFailToConnectPeripheral(d)
      <3>1. Event("ConnectionFailed", d, NoAttr, NoReq) \in CentralDelegateEvent
        BY EventTypes DEF DeviceEvent
      <3>2. cb'[d].link = "disconnected" /\ cb'[d].dial = FALSE /\ cb'[d].att = cb[d].att
        BY <1>0, <2>2 DEF DidFailToConnectPeripheral, CbType
      <3> QED BY <1>1, <2>2, <3>1, <3>2 DEF DidFailToConnectPeripheral, Event
    <2> QED BY <2>1, <2>2
  <1>4. /\ DOMAIN delegate \subseteq DOMAIN delegate'
        /\ \A i \in DOMAIN delegate : delegate'[i] = delegate[i]
        /\ \A i \in DOMAIN delegate' : i \in DOMAIN delegate \/ (i = Len(delegate) + 1 /\ delegate'[i] = e)
        /\ Len(delegate) \in Nat
    BY <1>3, SentEvents
  <1>5. \A i \in DOMAIN delegate' : OfLink(i, d)' => i = Len(delegate) + 1 /\ delegate'[i] = e
    BY <1>2, <1>4 DEF OfLink
  <1>6. UNCHANGED <<tree, known, connected_future_state>>
    BY DEF internalVars, futureVars
  <1>7. \A o \in Discoveries : \A i \in DOMAIN delegate' : ~ Reports(o, d, delegate'[i])
    <2>1. ASSUME NEW o \in Discoveries, NEW i \in DOMAIN delegate', Reports(o, d, delegate'[i])
          PROVE  FALSE
      <3>1. OfLink(i, d)'
        BY <2>1, ReportsOne DEF OfLink
      <3>2. delegate'[i] = e
        BY <1>5, <3>1
      <3> QED BY <1>3, <2>1, <3>2, ReportsOne
    <2> QED BY <2>1
  <1>8. \A i : \A o \in Discoveries : Later(i, d, o)' => o = ServicesOp /\ cb'[d].link = "connected"
    <2>1. ASSUME NEW i, NEW o \in Discoveries, NEW j \in DOMAIN cb'[d].att, cb'[d].att[j] = o
          PROVE  o = ServicesOp /\ cb'[d].link = "connected"
      BY <1>3, <2>1
    <2> QED BY <1>7, <2>1 DEF Later
  <1>9. LinkCalm(d)'
    <2>1. ~ LossQueued(d)'
      BY <1>1, <1>3, <1>4 DEF LossQueued
    <2> QED BY <1>3, <2>1 DEF LinkCalm
  <1>10. LinkOrder(d)'
    <2>1. \A i \in DOMAIN delegate' :
             OfLink(i, d)' /\ delegate'[i].ev \in {"DisconnectedDevice", "ConnectionFailed"}
               => cb'[d].link = "disconnected"
      BY <1>3, <1>5
    <2>2. \A i, j \in DOMAIN delegate' : OfLink(i, d)' /\ OfLink(j, d)' => i = j /\ i \in Nat
      BY <1>4, <1>5
    <2>3. cb'[d].link # "connecting" /\ d \in known'
      BY <1>1, <1>3, <1>6
    <2>4. cb'[d].link = "disconnected" => cb'[d].att = <<>>
      BY <1>3
    <2> QED BY <2>1, <2>2, <2>3, <2>4 DEF LinkOrder
  <1>11. DiscoverOnce(d)'
    <2>1. \A i, j \in DOMAIN cb'[d].att : i = j
      BY <1>3
    <2> QED BY <1>7, <2>1 DEF DiscoverOnce
  <1>12. tree'[d] = NoTree
    BY <1>1, <1>6 DEF Careful, TreeGrows
  <1>13. TreeGrows(d)'
    <2>1. /\ \A s \in Service : ~ Later(0, d, CharsOp(s))'
          /\ \A c \in Char : ~ Later(0, d, DescsOp(c))'
      BY <1>8, Members, DiscoveriesDiffer
    <2> QED BY <1>12, <2>1 DEF TreeGrows, NoTree
  <1>14. SomeoneWaits(d)'
    <2>1. connected_future_state[d] # NoReq
      BY <1>1 DEF Careful, SomeoneWaits, Discovering
    <2>2. \A i \in DOMAIN delegate' : delegate'[i].dev = d => delegate'[i].req = NoReq
      BY <1>3, <1>4, <2>1 DEF Careful, SomeoneWaits
    <2>3. \A i \in DOMAIN cb'[d].att : cb'[d].att[i].req = NoReq
      <3>1. ServicesOp.req = NoReq
        BY DEF ServicesOp, AttOp
      <3> QED BY <1>3, <3>1
    <2> QED BY <1>6, <2>1, <2>2, <2>3 DEF SomeoneWaits
  <1> QED BY <1>9, <1>10, <1>11, <1>13, <1>14 DEF Careful

\* A link of d goes down.
LEMMA LinkDownCareful ==
    ASSUME TypeOK, NEW d \in Device, Careful(d), UNCHANGED internalVars, DidDisconnectPeripheral(d)
    PROVE  Careful(d)'
  <1>1. cb[d].link \in {"connected", "disconnecting"} /\ d \in known /\ ~ cb[d].dial
    BY DEF DidDisconnectPeripheral, Careful, LinkCalm, LinkOrder
  <1>2. cb'[d].link = "disconnected" /\ cb'[d].att = <<>> /\ ~ cb'[d].dial
    BY <1>1 DEF DidDisconnectPeripheral, Unplugged, TypeOK, DelegateTypeOK
  <1>3. PICK e \in CentralDelegateEvent :
           Send(e) /\ e.dev = d /\ e.req = NoReq /\ e.ev = "DisconnectedDevice"
    <2>1. Event("DisconnectedDevice", d, NoAttr, NoReq) \in CentralDelegateEvent
      BY EventTypes DEF DeviceEvent
    <2> QED BY <2>1 DEF DidDisconnectPeripheral, Event
  <1>4. /\ DOMAIN delegate \subseteq DOMAIN delegate'
        /\ \A i \in DOMAIN delegate : delegate'[i] = delegate[i]
        /\ \A i \in DOMAIN delegate' : i \in DOMAIN delegate \/ (i = Len(delegate) + 1 /\ delegate'[i] = e)
        /\ Len(delegate) \in Nat /\ DOMAIN delegate = 1..Len(delegate)
        /\ DOMAIN delegate' = 1..(Len(delegate) + 1)
    BY <1>3, SentEvents
  <1>5. UNCHANGED <<tree, known, connected_future_state>>
    BY DEF internalVars, futureVars
  <1>6. ASSUME NEW o \in Discoveries, NEW i \in DOMAIN delegate', Reports(o, d, delegate'[i])
        PROVE  i \in DOMAIN delegate /\ Reports(o, d, delegate[i])
    BY <1>3, <1>4, <1>6, ReportsOne
  <1>7. ASSUME NEW i, NEW o \in Discoveries, Later(i, d, o)'
        PROVE  Later(i, d, o)
    <2>1. ~ \E j \in DOMAIN cb'[d].att : cb'[d].att[j] = o
      BY <1>2
    <2> QED BY <1>6, <1>7, <2>1 DEF Later
  <1>8. \A o : EventOf(o, d) => EventOf(o, d)'
    BY <1>4 DEF EventOf
  <1>9. LinkCalm(d)'
    BY <1>2 DEF LinkCalm
  <1>10. LinkOrder(d)'
    <2>1. ASSUME NEW i \in DOMAIN delegate', OfLink(i, d)',
                 delegate'[i].ev \in {"DisconnectedDevice", "ConnectionFailed"}
          PROVE  i = Len(delegate) + 1 /\ delegate'[i] = e
      <3>1. CASE i \in DOMAIN delegate
        <4>1. OfLink(i, d) /\ delegate'[i] = delegate[i]
          BY <1>4, <2>1, <3>1 DEF OfLink
        <4> QED BY <1>1, <2>1, <3>1, <4>1 DEF Careful, LinkOrder
      <3> QED BY <1>4, <3>1
    <2>2. \A j \in DOMAIN delegate' : j \leq Len(delegate) + 1
      BY <1>4
    <2> QED BY <1>1, <1>2, <1>3, <1>5, <2>1, <2>2 DEF LinkOrder
  <1>11. DiscoverOnce(d)'
    <2>1. ASSUME NEW i \in DOMAIN delegate', NEW o \in Discoveries, Reports(o, d, delegate'[i]),
                 NEW p \in Ancestry(o), Later(i, d, p)'
          PROVE  FALSE
      <3>1. i \in DOMAIN delegate /\ Reports(o, d, delegate[i])
        BY <1>6, <2>1
      <3>2. Later(i, d, p)
        BY <1>7, <2>1, Members
      <3> QED BY <3>1, <3>2 DEF Careful, DiscoverOnce
    <2>2. \A i, j \in DOMAIN cb'[d].att : i = j
      BY <1>2
    <2> QED BY <2>1, <2>2 DEF DiscoverOnce
  <1>12. TreeGrows(d)'
    <2>1. TreeGrows(d)
      BY DEF Careful
    <2> QED BY <1>2, <1>5, <1>7, <1>8, <2>1, Members DEF TreeGrows
  <1>13. SomeoneWaits(d)'
    <2>1. SomeoneWaits(d)
      BY DEF Careful
    <2>2. Discovering(d)' => Discovering(d)
      BY <1>2, <1>3, <1>4, <1>7 DEF Discovering
    <2>3. (\A i \in DOMAIN delegate : delegate[i].dev = d => delegate[i].req = NoReq)
            => \A i \in DOMAIN delegate' : delegate'[i].dev = d => delegate'[i].req = NoReq
      BY <1>3, <1>4
    <2>4. \A i \in DOMAIN cb'[d].att : cb'[d].att[i].req = NoReq
      BY <1>2
    <2> QED BY <1>5, <2>1, <2>2, <2>3, <2>4 DEF SomeoneWaits
  <1> QED BY <1>9, <1>10, <1>11, <1>12, <1>13 DEF Careful

\* The framework's steps keep careful clients careful.
LEMMA CallbackCareful ==
    ASSUME TypeOK, ~ FoundTwice, NEW q \in Device, Callback(q), UNCHANGED internalVars,
           NEW d \in Device, Careful(d)
    PROVE  Careful(d)'
  <1>1. CASE q = d
    <2>1. \/ Completed(d)
          \/ Announced(d)
          \/ DidConnectPeripheral(d)
          \/ DidFailToConnectPeripheral(d)
          \/ DidDisconnectPeripheral(d)
      BY <1>1, CallbackExact
    <2> QED BY <2>1, CompletedCareful, AnnouncedCareful, LinkUpCareful, LinkDownCareful
  <1>2. CASE q # d
    <2>1. \/ Completed(q)
          \/ Announced(q)
          \/ DidConnectPeripheral(q)
          \/ DidFailToConnectPeripheral(q)
          \/ DidDisconnectPeripheral(q)
      BY CallbackExact
    <2>2. cb'[d] = cb[d]
      BY <1>2, <2>1 DEF Completed, Finishes, Announced, DidConnectPeripheral,
                        DidFailToConnectPeripheral, DidDisconnectPeripheral, TypeOK, DelegateTypeOK
    <2>3. delegate' = delegate \/ \E e \in CentralDelegateEvent : Send(e) /\ e.dev = q
      <3>1. CASE Completed(q) \/ Announced(q)
        BY <3>1 DEF Completed, Announced, Reports
      <3>2. \A v \in DeviceEvent : Event(v, q, NoAttr, NoReq) \in CentralDelegateEvent
                                   /\ Event(v, q, NoAttr, NoReq).dev = q
        BY EventTypes DEF Event
      <3>3. CASE \/ DidConnectPeripheral(q)
                 \/ DidFailToConnectPeripheral(q)
                 \/ DidDisconnectPeripheral(q)
        BY <3>2, <3>3 DEF DidConnectPeripheral, DidFailToConnectPeripheral,
                          DidDisconnectPeripheral, DeviceEvent
      <3> QED BY <2>1, <3>1, <3>3
    <2>4. /\ DOMAIN delegate \subseteq DOMAIN delegate'
          /\ \A i \in DOMAIN delegate : delegate'[i] = delegate[i]
          /\ \A i \in DOMAIN delegate' : i \in DOMAIN delegate \/ delegate'[i].dev # d
      <3>1. CASE delegate' = delegate
        BY <3>1
      <3>2. ASSUME NEW e \in CentralDelegateEvent, Send(e), e.dev = q
            PROVE  /\ DOMAIN delegate \subseteq DOMAIN delegate'
                   /\ \A i \in DOMAIN delegate : delegate'[i] = delegate[i]
                   /\ \A i \in DOMAIN delegate' : i \in DOMAIN delegate \/ delegate'[i].dev # d
        <4>1. /\ DOMAIN delegate \subseteq DOMAIN delegate'
              /\ \A i \in DOMAIN delegate : delegate'[i] = delegate[i]
              /\ \A i \in DOMAIN delegate' : i \in DOMAIN delegate \/ delegate'[i] = e
          BY <3>2, SentEvents
        <4> QED BY <1>2, <3>2, <4>1
      <3> QED BY <2>3, <3>1, <3>2
    <2>5. Unmoved(d)
      BY <2>2 DEF Unmoved, internalVars, futureVars
    <2> QED BY <2>4, <2>5, Aside
  <1> QED BY <1>1, <1>2

----------------------------------------------------------------------------
(* Careful clients and the messages. *)

\* A connect() that finds the device down finds nothing discovered.
LEMMA ConnectCareful ==
    ASSUME TypeOK, UpInv, NEW d \in Device, Careful(d), LinkCalm(d)', Down(d), d \in known,
           NEW r \in Req, ConnectPeripheral(r), ask[r].dev = d
    PROVE  Careful(d)'
  <1>0. cb \in CbType /\ connected_future_state \in [Device -> Req \cup {NoReq}] /\ NoReq \notin Req
    BY DelegateAssumption DEF TypeOK, DelegateTypeOK, CbType
  <1>1. /\ cb[d].link = "disconnected" /\ cb[d].att = <<>>
        /\ \A i \in DOMAIN delegate : delegate[i].dev = d => delegate[i].ev = "DiscoveredPeripheral"
    BY DEF Down, Careful, LinkOrder
  <1>2. /\ cb'[d].link = "connecting" /\ cb'[d].att = <<>>
        /\ connected_future_state'[d] = r
        /\ UNCHANGED <<delegate, known, tree>>
    BY <1>0, <1>1 DEF ConnectPeripheral, Connect, CbType
  <1>3. tree[d] = NoTree
    <2>1. ~ LinkUp(0, d)
      BY <1>1 DEF LinkUp, Over
    <2>2. tree[d].has = {}
      BY <2>1 DEF UpInv
    <2>3. tree[d].discovered = {}
      BY <2>2 DEF Careful, TreeGrows
    <2> QED BY <2>2, <2>3 DEF TypeOK, NoTree
  <1>4. \A i \in DOMAIN delegate : ~ OfLink(i, d)
    BY <1>1 DEF OfLink
  <1>5. \A o \in Discoveries : \A i \in DOMAIN delegate : ~ Reports(o, d, delegate[i])
    BY <1>1, ReportsOne
  <1>6. \A i : \A o \in Discoveries : ~ Later(i, d, o)'
    BY <1>2, <1>5 DEF Later
  <1>7. LinkOrder(d)'
    BY <1>2, <1>4 DEF LinkOrder, OfLink
  <1>8. DiscoverOnce(d)'
    BY <1>2, <1>5 DEF DiscoverOnce
  <1>9. TreeGrows(d)'
    BY <1>2, <1>3, <1>6, Members DEF TreeGrows, NoTree
  <1>10. SomeoneWaits(d)'
    <2>1. \A i \in DOMAIN delegate : delegate[i].dev = d => delegate[i].req = NoReq
      <3>1. \A e \in CentralDelegateEvent : e.ev = "DiscoveredPeripheral" => e.req = NoReq
        BY DEF CentralDelegateEvent, ServiceEvent, CharEvent, DescEvent
      <3>2. delegate \in Seq(CentralDelegateEvent)
        BY DEF TypeOK, DelegateTypeOK
      <3>3. \A i \in DOMAIN delegate : delegate[i] \in CentralDelegateEvent
        BY <3>2
      <3> QED BY <1>1, <3>1, <3>3
    <2> QED BY <1>0, <1>2, <2>1 DEF SomeoneWaits
  <1> QED BY <1>7, <1>8, <1>9, <1>10 DEF Careful

\* A cancelled link starts no discovery.
LEMMA CancelCareful ==
    ASSUME TypeOK, NEW d \in Device, Careful(d), LinkCalm(d)', CancelConnection(d),
           cb[d].link \in {"connecting", "connected"},
           UNCHANGED <<delegate, known, tree, connected_future_state>>
    PROVE  Careful(d)'
  <1>1. cb'[d].link = "disconnecting" /\ cb'[d].att = cb[d].att
    BY DEF CancelConnection, TypeOK, DelegateTypeOK
  <1>2. \A i, o : Later(i, d, o)' <=> Later(i, d, o)
    BY <1>1 DEF Later
  <1>3. \A o : EventOf(o, d)' <=> EventOf(o, d)
    BY DEF EventOf
  <1>4. LinkOrder(d)'
    BY <1>1 DEF Careful, LinkOrder, OfLink
  <1>5. DiscoverOnce(d)'
    BY <1>1, <1>2 DEF Careful, DiscoverOnce
  <1>6. TreeGrows(d)'
    BY <1>1, <1>2, <1>3 DEF Careful, TreeGrows
  <1>7. SomeoneWaits(d)'
    <2>1. Discovering(d)' => Discovering(d)
      BY <1>1, <1>2 DEF Discovering
    <2> QED BY <1>1, <2>1 DEF Careful, SomeoneWaits
  <1> QED BY <1>4, <1>5, <1>6, <1>7 DEF Careful

\* A request comes when the discovery is over.
LEMMA RequestCareful ==
    ASSUME TypeOK, NEW d \in Device, Careful(d), LinkCalm(d)',
           connected_future_state[d] = NoReq, cb[d].link = "connected",
           cb'[d].link = "connected",
           NEW o \in AttOps, o.req # NoReq, cb'[d].att = Append(cb[d].att, o),
           UNCHANGED <<delegate, known, tree, connected_future_state>>
    PROVE  Careful(d)'
  <1>1. ~ Discovering(d)
    BY DEF Careful, SomeoneWaits
  <1>2. cb[d].att \in Seq(AttOps)
    BY DEF TypeOK, DelegateTypeOK
  <1>3. \A j \in DOMAIN cb'[d].att : cb'[d].att[j] = o \/ (j \in DOMAIN cb[d].att /\ cb'[d].att[j] = cb[d].att[j])
    BY <1>2, AppendHas
  <1>4. o \notin Discoveries
    BY DiscoveriesDiffer
  <1>5. \A i : \A p \in Discoveries : Later(i, d, p)' => Later(i, d, p)
    BY <1>3, <1>4 DEF Later
  <1>6. \A p \in Discoveries : ~ Later(0, d, p)'
    BY <1>1, <1>5 DEF Discovering
  <1>7. LinkOrder(d)'
    BY DEF Careful, LinkOrder, OfLink
  <1>8. DiscoverOnce(d)'
    <2>1. ASSUME NEW i \in DOMAIN delegate, NEW p \in Discoveries
          PROVE  ~ Reports(p, d, delegate[i])
      <3>1. i > 0
        BY DEF TypeOK, DelegateTypeOK
      <3> QED BY <1>1, <3>1 DEF Discovering, Later
    <2>2. \A i \in DOMAIN cb'[d].att : cb'[d].att[i] \notin Discoveries
      BY <1>6 DEF Later
    <2> QED BY <2>1, <2>2 DEF DiscoverOnce
  <1>9. TreeGrows(d)'
    BY <1>6, Members DEF Careful, TreeGrows
  <1>10. SomeoneWaits(d)'
    <2>1. ~ Discovering(d)'
      BY <1>1, <1>6 DEF Discovering
    <2> QED BY <2>1 DEF SomeoneWaits
  <1> QED BY <1>7, <1>8, <1>9, <1>10 DEF Careful

\* The messages keep careful clients careful.
LEMMA MessageCareful ==
    ASSUME TypeOK, UpInv, CalmInv, HandleMessage, NEW d \in Device, d \notin hasty', Careful(d)
    PROVE  Careful(d)'
  <1>0. /\ LinkCalm(d)'
        /\ \A r \in Req : ConnectPeripheral(r) /\ ask[r].dev \in known /\ ask[r].dev \notin hasty'
              => Down(ask[r].dev)
        /\ \A r \in Req : RequestOnAttribute(r) /\ Has(ask[r].dev, ask[r].attr) /\ ask[r].dev \notin hasty'
              => connected_future_state[ask[r].dev] = NoReq
        /\ cb \in CbType
    <2>1. [Next]_vars
      BY DEF Next
    <2>2. cb \in CbType
      BY DEF TypeOK, DelegateTypeOK, CbType
    <2> QED BY <2>1, <2>2, HastyStep, CalmStep DEF CalmInv
  <1>1. UNCHANGED <<delegate, known, tree>>
    BY MessageForm
  <1>2. ASSUME cb'[d] = cb[d], connected_future_state'[d] = connected_future_state[d]
        PROVE  Careful(d)'
    <2>1. Unmoved(d)
      BY <1>1, <1>2 DEF Unmoved
    <2> QED BY <1>1, <2>1, Aside
  <1>3. CASE Scan \/ \E r \in Req : WriteWithoutResponse(r) \/ IsConnected(r)
    BY <1>2, <1>3 DEF Scan, WriteWithoutResponse, IsConnected, futureVars
  <1>4. ASSUME NEW r \in Req, ConnectPeripheral(r)
        PROVE  Careful(d)'
    <2>1. CASE ask[r].dev = d /\ d \in known
      BY <1>0, <1>4, <2>1, ConnectCareful
    <2>2. CASE ask[r].dev # d /\ ask[r].dev \in known
      <3>1. cb'[d] = cb[d] /\ connected_future_state'[d] = connected_future_state[d]
        BY <1>4, <2>2 DEF ConnectPeripheral, Connect, TypeOK, DelegateTypeOK
      <3> QED BY <1>2, <3>1
    <2>3. CASE ask[r].dev \notin known
      BY <1>2, <1>4, <2>3 DEF ConnectPeripheral
    <2> QED BY <2>1, <2>2, <2>3
  <1>5. ASSUME NEW r \in Req, DisconnectPeripheral(r)
        PROVE  Careful(d)'
    <2>1. connected_future_state' = connected_future_state
      BY <1>5 DEF DisconnectPeripheral
    <2>2. cb' = cb \/ CancelConnection(ask[r].dev)
      BY <1>5 DEF DisconnectPeripheral
    <2>3. CASE cb'[d] = cb[d]
      BY <1>2, <2>1, <2>3
    <2>4. CASE cb'[d] # cb[d]
      <3>1. CancelConnection(d) /\ cb[d].link \in {"connecting", "connected"}
        BY <1>0, <2>2, <2>4 DEF CancelConnection, CbType
      <3> QED BY <1>0, <1>1, <2>1, <3>1, CancelCareful
    <2> QED BY <2>3, <2>4
  <1>6. ASSUME NEW r \in Req, RequestOnAttribute(r)
        PROVE  Careful(d)'
    <2> DEFINE o == AttOp(OpOf(r), ask[r].attr, r)
    <2>1. connected_future_state' = connected_future_state
      BY <1>6 DEF RequestOnAttribute
    <2>2. o \in AttOps /\ o.req = r
      <3>1. OpOf(r) \in CharOp \cup DescOp
        BY <1>6 DEF RequestOnAttribute, Receive
      <3> QED BY <3>1, CallShape DEF AttOp
    <2>3. CASE cb'[d] = cb[d]
      BY <1>2, <2>1, <2>3
    <2>4. CASE cb'[d] # cb[d]
      <3>1. Ask(ask[r].dev, OpOf(r), ask[r].attr, r) /\ Has(ask[r].dev, ask[r].attr)
        BY <1>6, <2>4 DEF RequestOnAttribute
      <3>2. /\ ask[r].dev = d /\ cb[d].link = "connected" /\ cb'[d].link = "connected"
            /\ cb'[d].att = Append(cb[d].att, o)
        BY <1>0, <2>4, <3>1 DEF Ask, CbType
      <3>3. connected_future_state[d] = NoReq
        BY <1>0, <1>6, <3>1, <3>2
      <3> HIDE DEF o
      <3>4. o.req # NoReq
        BY <2>2, DelegateAssumption
      <3> QED BY <1>0, <1>1, <2>1, <2>2, <3>2, <3>3, <3>4, RequestCareful
    <2> QED BY <2>3, <2>4
  <1> QED BY <1>3, <1>4, <1>5, <1>6 DEF HandleMessage

----------------------------------------------------------------------------
(* Careful clients and the events. *)

\* When a result of the discovery of d is handled, neither it nor what led to it is still to
\* come, and no connection of d has failed.
LEMMA ResultShift ==
    ASSUME TypeOK, NEW d \in Device, Careful(d), cb' = cb, known' = known,
           NEW kind, Occurs(kind), Consume, NEW o \in Discoveries, Reports(o, d, Head(delegate))
    PROVE  /\ LinkCalm(d)' /\ LinkOrder(d)' /\ DiscoverOnce(d)'
           /\ cb[d].link # "connecting"
           /\ \A i \in DOMAIN delegate' : delegate'[i].dev = d =>
                 delegate'[i].ev # "ConnectionFailed" /\ delegate'[i].req \in {NoReq, delegate[i + 1].req}
           /\ \A p : Later(0, d, p)' => Later(0, d, p) /\ p \notin Ancestry(o)
           /\ \A p \in Discoveries : EventOf(p, d) /\ p # o => EventOf(p, d)'
           /\ \A p : EventOf(p, d)' => Later(0, d, p)'
           /\ Later(0, d, o)
  <1>1. /\ LinkCalm(d)' /\ LinkOrder(d)' /\ DiscoverOnce(d)'
        /\ \A i \in DOMAIN delegate' : i + 1 \in DOMAIN delegate /\ delegate'[i] = delegate[i + 1]
        /\ \A p : Later(0, d, p)' => Later(0, d, p) /\ Later(1, d, p)
        /\ \A p : EventOf(p, d)' => Later(0, d, p)'
    BY Shifted
  <1>2. 1 \in DOMAIN delegate /\ Head(delegate) = delegate[1] /\ 1 > 0
    BY TailEvents
  <1>3. \A p \in Ancestry(o) : ~ Later(1, d, p)
    BY <1>2 DEF Careful, DiscoverOnce
  <1>4. OfLink(1, d) /\ delegate[1].ev # "ConnectionFailed"
    BY <1>2, ReportsOne DEF OfLink
  <1>5. cb[d].link # "connecting"
    BY <1>2, <1>4 DEF Careful, LinkOrder
  <1>6. ASSUME NEW i \in DOMAIN delegate', delegate'[i].dev = d, delegate'[i].ev = "ConnectionFailed"
        PROVE  FALSE
    <2>1. i + 1 \in DOMAIN delegate /\ OfLink(i + 1, d) /\ delegate[i + 1].ev = "ConnectionFailed"
      BY <1>1, <1>6 DEF OfLink
    <2>2. 1 = i + 1
      BY <1>2, <1>4, <2>1 DEF Careful, LinkOrder
    <2> QED BY <1>4, <2>1, <2>2
  <1>7. \A p \in Discoveries : EventOf(p, d) /\ p # o => EventOf(p, d)'
    <2>1. \A p \in Discoveries : p # o => ~ Reports(p, d, Head(delegate))
      BY ReportsOne, DiscoveriesDiffer
    <2> QED BY <2>1, LaterAhead
  <1>8. Later(0, d, o)
    BY <1>2 DEF Later
  <1> QED BY <1>1, <1>3, <1>5, <1>6, <1>7, <1>8

\* A tree that grows is complete when no discovery of the device is left.
LEMMA CompleteMeansOver ==
    ASSUME NEW d \in Device, TreeGrows(d)', Complete(tree'[d]), tree'[d].has # {},
           cb'[d].link # "connecting",
           \A i \in DOMAIN delegate' : delegate'[i].dev = d => delegate'[i].ev # "ConnectionFailed",
           \A p : EventOf(p, d)' => Later(0, d, p)'
    PROVE  ~ Discovering(d)'
  <1>1. ~ Later(0, d, ServicesOp)'
    BY DEF TreeGrows, NoTree
  <1>2. \A s \in Service : s \in tree'[d].has => s \in tree'[d].discovered
    BY DEF Complete
  <1>3. \A s \in Service : ~ Later(0, d, CharsOp(s))'
    BY <1>1, <1>2 DEF TreeGrows
  <1>4. \A c \in Char : ~ Later(0, d, DescsOp(c))'
    <2>1. \A c \in Char : c \in CharsIn(ServiceOf[c]) /\ ServiceOf[c] \in Service
      BY Members DEF CharsIn
    <2> QED BY <1>2, <1>3, <2>1 DEF TreeGrows
  <1> QED BY <1>1, <1>3, <1>4 DEF Discovering, Discoveries

\* The futures of a careful device when a result of its discovery is handled.
LEMMA ResultWaits ==
    ASSUME TypeOK, NEW d \in Device, Careful(d), cb' = cb, known' = known,
           NEW kind, Occurs(kind), Consume, NEW o \in Discoveries, Reports(o, d, Head(delegate)),
           TreeGrows(d)', tree'[d].has # {},
           \/ connected_future_state'[d] = connected_future_state[d]
           \/ Complete(tree'[d]) /\ connected_future_state'[d] = NoReq
    PROVE  SomeoneWaits(d)'
  <1>1. /\ cb[d].link # "connecting"
        /\ \A i \in DOMAIN delegate' : delegate'[i].dev = d =>
                 delegate'[i].ev # "ConnectionFailed" /\ delegate'[i].req \in {NoReq, delegate[i + 1].req}
        /\ \A p : Later(0, d, p)' => Later(0, d, p)
        /\ \A p : EventOf(p, d)' => Later(0, d, p)'
    BY ResultShift
  <1>2. \A i \in DOMAIN delegate' : i + 1 \in DOMAIN delegate /\ delegate'[i] = delegate[i + 1]
    BY TailEvents
  <1>3. CASE connected_future_state'[d] = connected_future_state[d]
    <2>1. Discovering(d)' => Discovering(d)
      BY <1>1 DEF Discovering
    <2> QED BY <1>2, <1>3, <2>1 DEF Careful, SomeoneWaits
  <1>4. CASE Complete(tree'[d]) /\ connected_future_state'[d] = NoReq
    <2>1. ~ Discovering(d)'
      BY <1>1, <1>4, CompleteMeansOver
    <2> QED BY <1>4, <2>1 DEF SomeoneWaits
  <1> QED BY <1>3, <1>4

\* The first result: the services.
LEMMA ServicesCareful ==
    ASSUME TypeOK, NEW d \in Device, Careful(d), FoundServices(d)
    PROVE  Careful(d)'
  <1>0. /\ Occurs("DiscoveredServices") /\ Consume /\ cb' = cb /\ known' = known
        /\ tree'[d] = [has |-> Range(ServicesOf[d]), discovered |-> {}]
        /\ connected_future_state'[d] = connected_future_state[d]
    <2>1. tree'[d] = [has |-> Range(ServicesOf[d]), discovered |-> {}]
      BY TreeAfter
    <2> QED BY <2>1 DEF FoundServices, Grows
  <1>1. ServicesOp \in Discoveries /\ Reports(ServicesOp, d, Head(delegate))
    BY EventShape, ReportsLevel, Members DEF FoundServices, Occurs
  <1>2. /\ LinkCalm(d)' /\ LinkOrder(d)' /\ DiscoverOnce(d)'
        /\ cb[d].link # "connecting"
        /\ \A p : Later(0, d, p)' => Later(0, d, p) /\ p \notin Ancestry(ServicesOp)
        /\ \A p \in Discoveries : EventOf(p, d) /\ p # ServicesOp => EventOf(p, d)'
        /\ Later(0, d, ServicesOp)
        /\ \A i \in DOMAIN delegate' : delegate'[i].dev = d =>
                 delegate'[i].ev # "ConnectionFailed" /\ delegate'[i].req \in {NoReq, delegate[i + 1].req}
    BY <1>0, <1>1, ResultShift
  <1>3. tree[d] = NoTree
    BY <1>2 DEF Careful, TreeGrows
  <1>4. TreeGrows(d)'
    <2>1. TreeGrows(d)
      BY DEF Careful
    <2>2. ServicesOp \in Ancestry(ServicesOp)
      BY Members
    <2>3. ASSUME NEW c \in Char, Later(0, d, DescsOp(c))'
          PROVE  EventOf(CharsOp(ServiceOf[c]), d)'
      <3>1. EventOf(CharsOp(ServiceOf[c]), d)
        BY <1>2, <1>3, <2>1, <2>3 DEF TreeGrows, NoTree
      <3> QED BY <1>2, <3>1, Members, DiscoveriesDiffer
    <2> QED BY <1>0, <1>2, <2>1, <2>2, <2>3 DEF TreeGrows
  <1>5. SomeoneWaits(d)'
    <2>1. Discovering(d)' => Discovering(d)
      BY <1>0, <1>2 DEF Discovering
    <2>2. \A i \in DOMAIN delegate' : i + 1 \in DOMAIN delegate /\ delegate'[i] = delegate[i + 1]
      BY <1>0, TailEvents
    <2> QED BY <1>0, <2>1, <2>2 DEF Careful, SomeoneWaits
  <1> QED BY <1>2, <1>4, <1>5 DEF Careful

\* The characteristics of a service.
LEMMA CharsCareful ==
    ASSUME TypeOK, NEW d \in Device, NEW s \in Service, Careful(d), FoundChars(d, s)
    PROVE  Careful(d)'
  <1> DEFINE o == CharsOp(s)
             old == tree[d]
             new == tree'[d]
  <1>0. /\ Occurs("DiscoveredCharacteristics") /\ Consume /\ cb' = cb /\ known' = known
        /\ new = CharsTree(d, s) /\ s \in old.has
        /\ \/ connected_future_state'[d] = connected_future_state[d]
           \/ Complete(new) /\ connected_future_state'[d] = NoReq
    <2>1. new = CharsTree(d, s)
      BY TreeAfter
    <2>2. connected_future_state \in [Device -> Req \cup {NoReq}]
      BY DEF TypeOK
    <2> QED BY <2>1, <2>2 DEF FoundChars, Grows, Take
  <1>1. o \in Discoveries /\ Reports(o, d, Head(delegate))
    BY EventShape, ReportsLevel, Members DEF FoundChars, Occurs
  <1> HIDE DEF o, old, new
  <1>2. /\ LinkCalm(d)' /\ LinkOrder(d)' /\ DiscoverOnce(d)'
        /\ cb[d].link # "connecting"
        /\ \A p : Later(0, d, p)' => Later(0, d, p) /\ p \notin Ancestry(o)
        /\ \A p \in Discoveries : EventOf(p, d) /\ p # o => EventOf(p, d)'
        /\ Later(0, d, o)
    BY <1>0, <1>1, ResultShift
  <1>3. TreeGrows(d)
    BY DEF Careful
  <1>4. /\ Service \cap Char = {} /\ Char \cap Desc = {} /\ Desc \cap Service = {}
        /\ \A c \in Char : c \in Range(CharsOf[s]) <=> ServiceOf[c] = s
        /\ Range(CharsOf[s]) = CharsIn(s) /\ CharsIn(s) \subseteq Char
        /\ \A x : x \in Below(s) => x \in Desc \/ (x \in Char /\ ServiceOf[x] = s)
    <2>1. Service \cap Char = {} /\ Char \cap Desc = {} /\ Desc \cap Service = {}
      BY DelegateAssumption
    <2> QED BY <2>1, LayoutSets DEF CharsIn
  <1>5. /\ \A x : x \in old.has /\ x \notin Below(s) => x \in new.has
        /\ CharsIn(s) \subseteq new.has
        /\ \A x : x \in new.discovered => x \in old.discovered \ CharsIn(s) \/ (x = s /\ CharsIn(s) = {})
        /\ \A x : x \in old.discovered \ CharsIn(s) => x \in new.discovered
        /\ old.discovered \subseteq old.has \ Desc
    <2>1. old.discovered \subseteq old.has \ Desc
      BY <1>3 DEF TreeGrows, old
    <2>2. /\ \A x : x \in old.has /\ x \notin Below(s) => x \in new.has
          /\ Range(CharsOf[s]) \subseteq new.has
          /\ new.discovered = (old.discovered \ Range(CharsOf[s]))
                                 \cup (IF Range(CharsOf[s]) = {} THEN {s} ELSE {})
      BY <1>0 DEF CharsTree, old
    <2>3. \A x : x \in new.discovered <=> \/ x \in old.discovered \ CharsIn(s)
                                            \/ (x = s /\ CharsIn(s) = {})
      BY <1>4, <2>2
    <2>4. CharsIn(s) \subseteq new.has
      BY <1>4, <2>2
    <2> QED BY <2>1, <2>2, <2>3, <2>4
  <1>6. s \in new.has /\ s \notin old.discovered /\ \A c \in CharsIn(s) : c \notin old.discovered
    BY <1>0, <1>2, <1>3, <1>4, <1>5 DEF TreeGrows, o, old
  <1>7. new.discovered \subseteq new.has \ Desc
    BY <1>4, <1>5, <1>6
  <1>8. ~ Later(0, d, ServicesOp)' /\ ~ EventOf(ServicesOp, d)
    <2>1. ServicesOp \in Ancestry(o) /\ ServicesOp # o /\ ServicesOp \in Discoveries
      BY Members, DiscoveriesDiffer DEF Ancestry, o
    <2>2. Later(0, d, ServicesOp) => old = NoTree
      BY <1>3 DEF TreeGrows, old
    <2>3. EventOf(ServicesOp, d) => Later(0, d, ServicesOp)
      <3>1. \A j \in DOMAIN delegate : j > 0
        BY DEF TypeOK, DelegateTypeOK
      <3> QED BY <3>1 DEF EventOf, Later
    <2> QED BY <1>0, <1>2, <2>1, <2>2, <2>3 DEF NoTree
  <1>9. ASSUME NEW t \in Service, Later(0, d, CharsOp(t))'
        PROVE  /\ t \in Range(ServicesOf[d]) /\ t \in new.has /\ t \notin new.discovered
               /\ \A c \in CharsIn(t) : c \notin new.discovered
    <2>1. t # s
      BY <1>1, <1>2, <1>9, Members DEF o
    <2>2. /\ t \in Range(ServicesOf[d]) /\ t \in old.has /\ t \notin old.discovered
          /\ \A c \in CharsIn(t) : c \notin old.discovered
      BY <1>2, <1>3, <1>8, <1>9 DEF TreeGrows, old
    <2>3. CharsIn(t) \subseteq Char /\ t \notin Below(s)
      BY <1>4 DEF CharsIn
    <2> QED BY <1>4, <1>5, <2>1, <2>2, <2>3
  <1>10. ASSUME NEW c \in Char, Later(0, d, DescsOp(c))'
         PROVE  /\ \/ c \in new.has /\ ServiceOf[c] \in new.has
                   \/ EventOf(CharsOp(ServiceOf[c]), d)'
                /\ c \notin new.discovered
    <2>1. /\ \/ c \in old.has /\ ServiceOf[c] \in old.has
             \/ EventOf(CharsOp(ServiceOf[c]), d)
          /\ c \notin old.discovered
      BY <1>2, <1>3, <1>10 DEF TreeGrows, old
    <2>2. ServiceOf[c] \in Service /\ c \notin Service
      BY <1>4, Members
    <2>3. c \notin new.discovered
      BY <1>4, <1>5, <2>1, <2>2
    <2>4. CASE ServiceOf[c] = s
      BY <1>4, <1>5, <1>6, <2>3, <2>4
    <2>5. CASE ServiceOf[c] # s /\ c \in old.has /\ ServiceOf[c] \in old.has
      BY <1>4, <1>5, <2>2, <2>3, <2>5
    <2>6. CASE ServiceOf[c] # s /\ EventOf(CharsOp(ServiceOf[c]), d)
      BY <1>2, <2>2, <2>3, <2>6, Members, DiscoveriesDiffer DEF o
    <2> QED BY <2>1, <2>4, <2>5, <2>6
  <1>11. ASSUME NEW t \in Service, t \in new.discovered
         PROVE  CharsIn(t) \subseteq new.discovered
    <2>1. CASE t = s
      BY <1>5, <1>6, <1>11, <2>1
    <2>2. CASE t # s
      <3>1. CharsIn(t) \subseteq old.discovered
        BY <1>3, <1>5, <1>11, <2>2 DEF TreeGrows, old
      <3>2. CharsIn(t) \cap CharsIn(s) = {}
        BY <2>2 DEF CharsIn
      <3> QED BY <1>5, <3>1, <3>2
    <2> QED BY <2>1, <2>2
  <1>12. TreeGrows(d)'
    BY <1>0, <1>2, <1>7, <1>8, <1>9, <1>10, <1>11 DEF TreeGrows, new
  <1>13. SomeoneWaits(d)'
    <2>1. new.has # {}
      BY <1>6
    <2> QED BY <1>0, <1>1, <1>12, <2>1, ResultWaits DEF new
  <1> QED BY <1>2, <1>12, <1>13 DEF Careful

\* What is discovered is not tagged with a call.
LEMMA Untagged ==
    ASSUME TypeOK, EventTags, Occurs("DiscoveredCharacteristicDescriptors")
    PROVE  Head(delegate).req = NoReq
  <1>1. /\ 1 \in DOMAIN delegate /\ Head(delegate) = delegate[1]
        /\ Head(delegate).req \in Req \cup {NoReq}
        /\ Head(delegate).ev = "DiscoveredCharacteristicDescriptors"
    BY EventShape, EmptyIsSeq DEF Occurs, TypeOK, DelegateTypeOK
  <1>2. ASSUME NEW q \in Req, Reports(OwnOp(q), ask[q].dev, Head(delegate))
        PROVE  FALSE
    <2>1. OpOf(q) = "descs"
      BY <1>1, <1>2 DEF Reports, OwnOp, AttOp
    <2>2. ask[q].op \in CharOp \cup DescOp \cup LinkOp \cup {"write_without_response"}
      BY CallShape DEF Call
    <2> QED BY <2>1, <2>2 DEF OpOf, CharOp, DescOp, LinkOp
  <1> QED BY <1>1, <1>2 DEF EventTags

\* The descriptors of a characteristic.
LEMMA DescsCareful ==
    ASSUME TypeOK, EventTags, NEW d \in Device, NEW c \in Char, Careful(d), FoundDescs(d, c)
    PROVE  Careful(d)'
  <1> DEFINE o == DescsOp(c)
             s == ServiceOf[c]
             old == tree[d]
             new == tree'[d]
  <1>0. /\ Occurs("DiscoveredCharacteristicDescriptors") /\ Consume /\ cb' = cb /\ known' = known
        /\ new = DescsTree(d, c) /\ s \in old.has /\ c \in old.has
        /\ \/ connected_future_state'[d] = connected_future_state[d]
           \/ Complete(new) /\ connected_future_state'[d] = NoReq
    <2>1. new = DescsTree(d, c)
      BY TreeAfter
    <2>2. connected_future_state \in [Device -> Req \cup {NoReq}]
      BY DEF TypeOK
    <2> QED BY <2>1, <2>2 DEF FoundDescs, Grows, Take
  <1>1. o \in Discoveries /\ Reports(o, d, Head(delegate))
    <2>1. Head(delegate).req = NoReq
      BY <1>0, Untagged
    <2> QED BY <2>1, Members DEF FoundDescs, Occurs, Reports, DescsOp, AttOp
  <1>4. /\ Service \cap Char = {} /\ Char \cap Desc = {} /\ Desc \cap Service = {}
        /\ s \in Service /\ Range(CharsOf[s]) = CharsIn(s)
        /\ \A t \in Service : CharsIn(t) \subseteq Char
    <2>1. Service \cap Char = {} /\ Char \cap Desc = {} /\ Desc \cap Service = {}
      BY DelegateAssumption
    <2> QED BY <2>1, LayoutSets DEF CharsIn
  <1>5. /\ old.has \subseteq new.has
        /\ \A x : x \in new.discovered => \/ x \in old.discovered \/ x = c
                                          \/ (x = s /\ CharsIn(s) \subseteq old.discovered \cup {c})
        /\ old.discovered \cup {c} \subseteq new.discovered
    BY <1>0, <1>4 DEF DescsTree, LastChar, s, old
  <1> HIDE DEF o, s, old, new
  <1>2. /\ LinkCalm(d)' /\ LinkOrder(d)' /\ DiscoverOnce(d)'
        /\ cb[d].link # "connecting"
        /\ \A p : Later(0, d, p)' => Later(0, d, p) /\ p \notin Ancestry(o)
        /\ \A p \in Discoveries : EventOf(p, d) /\ p # o => EventOf(p, d)'
    BY <1>0, <1>1, ResultShift
  <1>3. TreeGrows(d)
    BY DEF Careful
  <1>6. /\ ServicesOp \in Ancestry(o) /\ CharsOp(s) \in Ancestry(o) /\ o \in Ancestry(o)
        /\ ServicesOp # o /\ \A t \in Service : CharsOp(t) # o
    BY <1>1, <1>4, Members, DiscoveriesDiffer DEF Ancestry, o, s
  <1>7. new.discovered \subseteq new.has \ Desc
    <2>1. old.discovered \subseteq old.has \ Desc
      BY <1>3 DEF TreeGrows, old
    <2> QED BY <1>0, <1>4, <1>5, <2>1
  <1>9. ASSUME NEW t \in Service, Later(0, d, CharsOp(t))'
        PROVE  /\ t \in Range(ServicesOf[d]) /\ t \notin new.discovered
               /\ t \in new.has \/ EventOf(ServicesOp, d)'
               /\ \A x \in CharsIn(t) : x \notin new.discovered
    <2>1. t # s
      BY <1>2, <1>6, <1>9
    <2>2. /\ t \in Range(ServicesOf[d]) /\ t \notin old.discovered
          /\ t \in old.has \/ EventOf(ServicesOp, d)
          /\ \A x \in CharsIn(t) : x \notin old.discovered
      BY <1>2, <1>3, <1>9 DEF TreeGrows, old
    <2>3. CharsIn(t) \subseteq Char /\ c \notin CharsIn(t)
      BY <2>1 DEF CharsIn, s
    <2>4. t \in new.has \/ EventOf(ServicesOp, d)'
      BY <1>2, <1>5, <1>6, <2>2, Members
    <2> QED BY <1>4, <1>5, <2>1, <2>2, <2>3, <2>4
  <1>10. ASSUME NEW e \in Char, Later(0, d, DescsOp(e))'
         PROVE  /\ \/ e \in new.has /\ ServiceOf[e] \in new.has
                   \/ EventOf(CharsOp(ServiceOf[e]), d)'
                /\ e \notin new.discovered
    <2>1. /\ \/ e \in old.has /\ ServiceOf[e] \in old.has
             \/ EventOf(CharsOp(ServiceOf[e]), d)
          /\ e \notin old.discovered
      BY <1>2, <1>3, <1>10 DEF TreeGrows, old
    <2>2. ServiceOf[e] \in Service /\ e \notin Service /\ CharsOp(ServiceOf[e]) \in Discoveries
      BY <1>4, Members
    <2>3. e # c
      BY <1>2, <1>6, <1>10 DEF o
    <2>4. e \notin new.discovered
      BY <1>4, <1>5, <2>1, <2>2, <2>3
    <2> QED BY <1>2, <1>5, <1>6, <2>1, <2>2, <2>4
  <1>11. ASSUME NEW t \in Service, t \in new.discovered
         PROVE  CharsIn(t) \subseteq new.discovered
    <2>1. t # c
      BY <1>4
    <2>2. CASE t \in old.discovered
      <3>1. CharsIn(t) \subseteq old.discovered
        BY <1>3, <2>2 DEF TreeGrows, old
      <3> QED BY <1>5, <3>1
    <2>3. CASE t \notin old.discovered
      BY <1>5, <1>11, <2>1, <2>3
    <2> QED BY <2>2, <2>3
  <1>12. TreeGrows(d)'
    <2>1. ~ Later(0, d, ServicesOp)'
      BY <1>2, <1>6
    <2> QED BY <1>0, <1>2, <1>7, <1>9, <1>10, <1>11, <2>1 DEF TreeGrows, new
  <1>13. SomeoneWaits(d)'
    <2>1. new.has # {}
      BY <1>0, <1>5
    <2> QED BY <1>0, <1>1, <1>12, <2>1, ResultWaits DEF new
  <1> QED BY <1>2, <1>12, <1>13 DEF Careful

\* The end of a link is the last that is heard of it.
LEMMA EndCareful ==
    ASSUME TypeOK, NEW d \in Device, Careful(d), cb' = cb,
           NEW kind \in {"ConnectionFailed", "DisconnectedDevice"}, Occurs(kind), Consume,
           Head(delegate).dev = d,
           tree'[d] \in {tree[d], NoTree}, connected_future_state'[d] = NoReq
    PROVE  Careful(d)'
  <1>1. /\ 1 \in DOMAIN delegate /\ Head(delegate) = delegate[1]
        /\ \A i \in DOMAIN delegate' : i > 0 /\ i + 1 \in DOMAIN delegate /\ delegate'[i] = delegate[i + 1]
        /\ \A i \in DOMAIN delegate : i > 0 /\ i \in Nat
        /\ \A i \in DOMAIN delegate' : i \in Nat
    BY TailEvents
  <1>2. OfLink(1, d) /\ delegate[1].ev = kind
    BY <1>1 DEF OfLink, Occurs
  <1>3. /\ cb[d].link = "disconnected" /\ cb[d].att = <<>>
        /\ \A j \in DOMAIN delegate : OfLink(j, d) => j \leq 1
    BY <1>1, <1>2 DEF Careful, LinkOrder
  <1>4. ASSUME NEW i \in DOMAIN delegate', OfLink(i, d)'
        PROVE  FALSE
    <2>1. i + 1 \in DOMAIN delegate /\ OfLink(i + 1, d)
      BY <1>1, <1>4 DEF OfLink
    <2>2. i + 1 \leq 1 /\ i > 0 /\ i \in Nat
      BY <1>1, <1>3, <2>1
    <2> QED BY <2>2
  <1>5. \A i : \A o \in Discoveries : ~ Later(i, d, o)'
    <2>1. \A o \in Discoveries : \A i \in DOMAIN delegate' : ~ Reports(o, d, delegate'[i])
      <3>1. \A o \in Discoveries : \A i \in DOMAIN delegate' : Reports(o, d, delegate'[i]) => OfLink(i, d)'
        BY ReportsOne DEF OfLink
      <3> QED BY <1>4, <3>1
    <2> QED BY <1>3, <2>1 DEF Later
  <1>6. LinkCalm(d)'
    BY <1>3 DEF LinkCalm, Careful
  <1>7. LinkOrder(d)'
    BY <1>3, <1>4 DEF LinkOrder
  <1>8. DiscoverOnce(d)'
    <2>1. \A o \in Discoveries : \A i \in DOMAIN delegate' : ~ Reports(o, d, delegate'[i])
      BY <1>4, ReportsOne DEF OfLink
    <2> QED BY <1>3, <2>1 DEF DiscoverOnce
  <1>9. TreeGrows(d)'
    <2>1. TreeGrows(d)
      BY DEF Careful
    <2>2. ~ (cb'[d].link = "connecting" \/ Later(0, d, ServicesOp)')
      BY <1>3, <1>5, Members
    <2>3. CASE tree'[d] = tree[d]
      BY <1>5, <2>1, <2>2, <2>3, Members DEF TreeGrows
    <2>4. CASE tree'[d] = NoTree
      BY <1>5, <2>2, <2>4, Members DEF TreeGrows, NoTree
    <2> QED BY <2>3, <2>4
  <1>10. SomeoneWaits(d)'
    <2>1. ~ Discovering(d)'
      <3>1. \A i \in DOMAIN delegate' : delegate'[i].dev = d => delegate'[i].ev # "ConnectionFailed"
        BY <1>4 DEF OfLink
      <3> QED BY <1>3, <1>5, <3>1 DEF Discovering
    <2> QED BY <2>1 DEF SomeoneWaits
  <1> QED BY <1>6, <1>7, <1>8, <1>9, <1>10 DEF Careful

\* No event that is handled makes a careful client's device less orderly.
LEMMA EventCareful ==
    ASSUME TypeOK, EventTags, LiveForms, NEW d \in Device, Careful(d)
    PROVE  Careful(d)'
  <1> DEFINE e == Head(delegate)
  <1>1. ASSUME Unmoved(d), cb' = cb, Occurs(e.ev), Consume,
               e.dev = d => e.ev \notin {"DiscoveredServices", "DiscoveredCharacteristics",
                                         "DiscoveredCharacteristicDescriptors"}
        PROVE  Careful(d)'
    BY <1>1, Passing
  <1>2. ASSUME NEW q \in Device, q # d,
               FoundServices(q) \/ (\E s : FoundChars(q, s)) \/ (\E c : FoundDescs(q, c))
                 \/ ReportsFailure(q) \/ Forgets(q)
        PROVE  Careful(d)'
    <2>1. Occurs(e.ev) /\ Consume /\ cb' = cb /\ e.dev # d
      BY <1>2 DEF FoundServices, FoundChars, FoundDescs, ReportsFailure, Forgets, Grows, Occurs
    <2>2. tree'[d] = tree[d]
      <3>1. tree' = tree \/ \E t : tree' = [tree EXCEPT ![q] = t]
        BY <1>2 DEF FoundServices, FoundChars, FoundDescs, ReportsFailure, Forgets, Grows
      <3> QED BY <1>2, <3>1, TreeAfter
    <2>3. connected_future_state'[d] = connected_future_state[d] /\ (d \in known => d \in known')
      <3>1. /\ \/ connected_future_state' = connected_future_state
               \/ connected_future_state' = Take(connected_future_state, q)
            /\ known' = known \/ known' = known \ {q}
        BY <1>2 DEF FoundServices, FoundChars, FoundDescs, ReportsFailure, Forgets, Grows
      <3> QED BY <1>2, <3>1 DEF Take, TypeOK
    <2> HIDE DEF e
    <2>4. Unmoved(d)
      BY <2>1, <2>2, <2>3 DEF Unmoved
    <2> QED BY <1>1, <2>1, <2>4
  <1>3. CASE delegate # <<>> /\ Unheeded
    <2>1. Unmoved(d) /\ cb' = cb /\ Occurs(e.ev) /\ Consume
      BY <1>3 DEF Unheeded, Ignore, futureVars, Unmoved, Occurs
    <2>2. 1 \in DOMAIN delegate /\ e = delegate[1]
      BY <2>1, TailEvents
    <2>3. e.dev = d /\ e.ev # "DiscoveredPeripheral" => d \in known
      BY <2>2 DEF Careful, LinkOrder, OfLink
    <2>4. e.dev = d => e.ev \notin {"DiscoveredServices", "DiscoveredCharacteristics",
                                    "DiscoveredCharacteristicDescriptors"}
      BY <1>3, <2>3 DEF Unheeded, CharEvent, DescEvent
    <2> QED BY <1>1, <2>1, <2>4
  <1>4. CASE OnDiscoveredPeripheral
    BY <1>1, <1>4 DEF OnDiscoveredPeripheral, futureVars, Unmoved, Occurs
  <1>5. ASSUME NEW k, NEW kind, Fulfilled(k, kind)
        PROVE  Careful(d)'
    <2>1. e.ev \notin {"DiscoveredServices", "DiscoveredCharacteristics", "DiscoveredCharacteristicDescriptors"}
      BY <1>5 DEF Fulfilled, AnsweredFrom
    <2> QED BY <1>1, <1>5, <2>1 DEF Fulfilled, Unmoved
  <1>6. CASE ReportsFailure(d) \/ Forgets(d)
    <2>1. /\ Occurs("ConnectionFailed") \/ Occurs("DisconnectedDevice")
          /\ Consume /\ cb' = cb /\ e.dev = d
          /\ connected_future_state' = Take(connected_future_state, d)
          /\ tree' = tree \/ tree' = [tree EXCEPT ![d] = NoTree]
      BY <1>6 DEF ReportsFailure, Forgets
    <2>2. connected_future_state'[d] = NoReq
      BY <2>1 DEF Take, TypeOK
    <2>3. tree'[d] \in {tree[d], NoTree}
      BY <2>1, TreeAfter
    <2> QED BY <2>1, <2>2, <2>3, EndCareful
  <1>7. CASE FoundServices(d) \/ (\E s \in Service : FoundChars(d, s)) \/ (\E c \in Char : FoundDescs(d, c))
    BY <1>7, ServicesCareful, CharsCareful, DescsCareful
  <1> QED
    <2>1. ASSUME NEW q \in Device,
                 \/ FoundServices(q)
                 \/ \E s \in Service : FoundChars(q, s)
                 \/ \E c \in Char : FoundDescs(q, c)
                 \/ ReportsFailure(q)
                 \/ Forgets(q)
          PROVE  Careful(d)'
      BY <1>2, <1>6, <1>7, <2>1
    <2> QED BY <1>3, <1>4, <1>5, <2>1 DEF LiveForms

----------------------------------------------------------------------------
(* The calls behind the pipeline of a careful device. *)

\* The calls whose answer the delegate never swallows, nor reports as something else.
Acked == {"write", "write_descriptor"}
            \cup (IF SubscriptionsSucceed THEN {"subscribe", "unsubscribe"} ELSE {})

\* While its operation is in the pipeline such a call waits for it.
PendingHeld(d) ==
    \A q \in Req : ask[q].dev = d /\ OpOf(q) \in Acked /\ Pending(q) => st[q] = "held"

\* A change of a subscription is always tagged with the call that asked for it.
Tagged ==
    \A i \in DOMAIN delegate :
        delegate[i].ev \in {"CharacteristicSubscribed", "CharacteristicUnsubscribed"}
        => delegate[i].req \in Req

\* Without errors, a subscription is never reported as its opposite.
Truthful ==
    SubscriptionsSucceed =>
        \A i \in DOMAIN delegate : delegate[i].req \in Req => Truly(OwnOp(delegate[i].req), delegate[i])

\* A future leaves its queue by the panic of the thread, by an answer, or with the attributes
\* of its device.
LEMMA HeldLeaves ==
    ASSUME IInv, [Next]_vars, NEW q \in Req, OpOf(q) \in CharOp \cup DescOp,
           st[q] = "held", st'[q] # "held"
    PROVE  \/ panic' # "none"
           \/ \E k \in Slot, kind \in {"Ok", "ReadResult"} :
                 Fulfilled(k, kind) /\ q = Head(future_state[k])
           \/ FoundServices(ask[q].dev)
           \/ \E s \in Service : FoundChars(ask[q].dev, s)
           \/ \E c \in Char : FoundDescs(ask[q].dev, c)
           \/ Forgets(ask[q].dev)
  <1>0. TypeOK /\ q # NoReq
    BY DelegateAssumption DEF IInv
  <1>1. ASSUME NEW r, NEW rep, NEW S, Settle(r, rep, S)
        PROVE  q = r \/ q \in S
    BY <1>1 DEF Settle
  <1>2. \A d \in Device : connected_future_state[d] # q /\ disconnected_future_state[d] # q
    BY SlotFuture
  <1>3. CASE HandleMessage
    <2>1. \A r \in Req : \A ops : Receive(r, ops) => r # q
      BY Received
    <2>2. CASE Scan
      BY <2>2 DEF Scan
    <2>3. ASSUME NEW r \in Req, RequestOnAttribute(r)
          PROVE  FALSE
      <3>1. r # q
        BY <2>1, <2>3 DEF RequestOnAttribute
      <3>2. st'[q] = st[q]
        BY <1>0, <2>3, <3>1 DEF RequestOnAttribute, TypeOK
      <3> QED BY <3>2
    <2>4. ASSUME NEW r \in Req, WriteWithoutResponse(r) \/ IsConnected(r)
          PROVE  FALSE
      <3>1. r # q
        BY <2>1, <2>4 DEF WriteWithoutResponse, IsConnected
      <3>2. \E rep : Settle(r, rep, {}) \/ Settle(NoReq, rep, {r})
        BY <2>4 DEF WriteWithoutResponse, IsConnected
      <3> QED BY <1>0, <1>1, <3>1, <3>2
    <2>5. ASSUME NEW r \in Req, ConnectPeripheral(r) \/ DisconnectPeripheral(r)
          PROVE  FALSE
      <3>1. r # q /\ ask[r].dev \in Device
        BY <1>0, <2>1, <2>5, CallShape DEF ConnectPeripheral, DisconnectPeripheral
      <3>2. st'[q] = st[q]
        <4>1. CASE ConnectPeripheral(r)
          BY <1>0, <1>2, <3>1, <4>1 DEF ConnectPeripheral, TypeOK
        <4>2. CASE DisconnectPeripheral(r)
          BY <1>0, <1>2, <3>1, <4>2 DEF DisconnectPeripheral, TypeOK
        <4> QED BY <2>5, <4>1, <4>2
      <3> QED BY <3>2
    <2> QED BY <1>3, <2>2, <2>3, <2>4, <2>5 DEF HandleMessage
  <1>4. CASE LiveForms
    <2>2. CASE (delegate # <<>> /\ Unheeded) \/ OnDiscoveredPeripheral
      BY <2>2 DEF Unheeded, Ignore, OnDiscoveredPeripheral
    <2>3. ASSUME NEW d \in Device, NEW A, q \in Held(SlotsOf(d, A))
          PROVE  ask[q].dev = d
      <3>1. PICK k \in Slot : k[1] = d /\ q \in Range(future_state[k])
        BY <2>3 DEF Held, SlotsOf
      <3>2. SlotOf(q) = k
        BY <3>1, Placed
      <3> QED BY <3>1, <3>2 DEF SlotOf
    <2>4. ASSUME NEW d \in Device, NEW t, NEW A, NEW check, Grows(d, t, SlotsOf(d, A), check)
          PROVE  ask[q].dev = d
      <3>1. \/ q = connected_future_state[d] \/ q = NoReq
            \/ q \in Held(SlotsOf(d, A))
        BY <1>1, <2>4 DEF Grows
      <3> QED BY <1>0, <1>2, <2>3, <3>1
    <2>5. ASSUME NEW d \in Device,
                 \/ FoundServices(d)
                 \/ \E s \in Service : FoundChars(d, s)
                 \/ \E c \in Char : FoundDescs(d, c)
          PROVE  ask[q].dev = d
      BY <2>4, <2>5 DEF FoundServices, FoundChars, FoundDescs
    <2>6. ASSUME NEW d \in Device, ReportsFailure(d)
          PROVE  FALSE
      BY <1>1, <1>2, <2>6 DEF ReportsFailure
    <2>7. ASSUME NEW d \in Device, Forgets(d)
          PROVE  ask[q].dev = d
      <3>1. q = disconnected_future_state[d] \/ q \in Held(SlotsOf(d, Attr)) \/ q \in Slots({d})
        BY <1>1, <2>7 DEF Forgets
      <3>2. q \notin Slots({d})
        BY <1>2 DEF Slots
      <3> QED BY <1>2, <2>3, <3>1, <3>2
    <2>8. ASSUME NEW k \in Slot, NEW kind \in {"Ok", "ReadResult"}, Fulfilled(k, kind)
          PROVE  q = Head(future_state[k])
      BY <1>1, <2>8 DEF Fulfilled
    <2>9. ASSUME NEW d \in Device,
                 \/ FoundServices(d)
                 \/ \E s \in Service : FoundChars(d, s)
                 \/ \E c \in Char : FoundDescs(d, c)
                 \/ ReportsFailure(d)
                 \/ Forgets(d)
          PROVE  \/ FoundServices(ask[q].dev)
                 \/ \E s \in Service : FoundChars(ask[q].dev, s)
                 \/ \E c \in Char : FoundDescs(ask[q].dev, c)
                 \/ Forgets(ask[q].dev)
      BY <2>5, <2>6, <2>7, <2>9
    <2> QED BY <1>4, <2>2, <2>8, <2>9 DEF LiveForms
  <1>5. CASE UNCHANGED st
    BY <1>5
  <1>6. CASE \E r \in Req : ClientCalls(r)
    BY <1>0, <1>6 DEF ClientCalls, TypeOK
  <1>7. CASE HandleEvent
    <2>1. CASE Dying
      BY <2>1 DEF Dying, Panic
    <2> QED BY <1>0, <1>4, <1>7, <2>1, EventForm
  <1>8. CASE Framework \/ ClientScans \/ UNCHANGED vars
    BY <1>5, <1>8 DEF Framework, internalVars, ClientScans, vars
  <1> QED BY <1>3, <1>6, <1>7, <1>8 DEF Next

\* The event in front is of a call that is still in the queue it is answered from.
LEMMA AckFindsCall ==
    ASSUME IInv, EventTags, Tagged, Truthful, delegate # <<>>, PendingHeld(Head(delegate).dev),
           NEW k \in Slot, NEW kind, AnsweredFrom(Head(delegate), k, kind),
           Head(delegate).ev \notin {"CharacteristicNotified", "DescriptorNotified"},
           k[2] \in {"subscribe", "unsubscribe"} => SubscriptionsSucceed
    PROVE  LET x == Head(delegate).req
           IN  /\ x \in Req /\ SlotOf(x) = k /\ OpOf(x) \in Acked /\ Pending(x) /\ st[x] = "held"
               /\ x \in Range(future_state[k])
  <1> DEFINE e == Head(delegate)
             x == e.req
  <1>0. TypeOK
    BY DEF IInv
  <1>1. 1 \in DOMAIN delegate /\ e = delegate[1] /\ Occurs(e.ev) /\ e \in CentralDelegateEvent
    BY <1>0 DEF TypeOK, DelegateTypeOK, Occurs
  <1>2. \/ e.ev = "CharacteristicWritten" /\ k = <<e.dev, "write", e.attr>>
        \/ e.ev = "DescriptorWritten" /\ k = <<e.dev, "write_descriptor", e.attr>>
        \/ e.ev = "CharacteristicSubscribed" /\ k = <<e.dev, "subscribe", e.attr>>
        \/ e.ev = "CharacteristicUnsubscribed" /\ k = <<e.dev, "unsubscribe", e.attr>>
    BY DEF AnsweredFrom
  <1>3. x \in Req
    <2>1. CASE e.ev = "DescriptorWritten"
      BY <1>1, <2>1 DEF CentralDelegateEvent, DeviceEvent, ServiceEvent, CharEvent
    <2> QED BY <1>1, <1>2, <2>1 DEF EventTags, Tagged
  <1>4. Reports(OwnOp(x), ask[x].dev, e)
    BY <1>1, <1>3 DEF EventTags
  <1>5. ask[x].dev = e.dev /\ ask[x].attr = e.attr
    BY <1>4 DEF Reports, OwnOp, AttOp
  <1>6. SubscriptionsSucceed => Truly(OwnOp(x), e)
    BY <1>1, <1>3 DEF Truthful
  <1> HIDE DEF e, x
  <1>7. OpOf(x) = k[2] /\ OpOf(x) \in Acked
    <2>1. CASE e.ev \in {"CharacteristicWritten", "DescriptorWritten"}
      BY <1>2, <1>4, <2>1 DEF Reports, OwnOp, AttOp, Acked
    <2>2. CASE e.ev \in {"CharacteristicSubscribed", "CharacteristicUnsubscribed"}
      <3>1. SubscriptionsSucceed
        BY <1>2, <2>2
      <3>2. OpOf(x) \in {"subscribe", "unsubscribe"}
        BY <1>4, <2>2 DEF Reports, OwnOp, AttOp
      <3>3. /\ OpOf(x) = "subscribe" => e.ev = "CharacteristicSubscribed"
            /\ OpOf(x) = "unsubscribe" => e.ev = "CharacteristicUnsubscribed"
        BY <1>6, <3>1 DEF Truly, OwnOp, AttOp
      <3> QED BY <1>2, <2>2, <3>1, <3>2, <3>3 DEF Acked
    <2> QED BY <1>2, <2>1, <2>2
  <1>8. SlotOf(x) = k
    BY <1>2, <1>5, <1>7 DEF SlotOf
  <1>9. Pending(x)
    BY <1>1 DEF Pending, x
  <1>10. st[x] = "held"
    BY <1>3, <1>5, <1>7, <1>9 DEF PendingHeld, e
  <1>11. x \in Range(future_state[k])
    <2>1. OpOf(x) \in CharOp \cup DescOp /\ ask[x].dev \in Device
      BY <1>0, <1>3, <1>8, CallShape
    <2>2. x # connected_future_state[ask[x].dev] /\ x # disconnected_future_state[ask[x].dev]
      BY <1>3, <2>1, SlotFuture
    <2> QED BY <1>3, <1>8, <1>10, <2>2 DEF IInv, FutureInOnePlace, HeldSomewhere
  <1> QED BY <1>3, <1>7, <1>8, <1>9, <1>10, <1>11 DEF x, e

\* A call is in the pipeline of its device only, and no event of the discovery is its.
LEMMA PendingPlaces ==
    ASSUME TypeOK, AttTags, EventTags, NEW q \in Req
    PROVE  /\ \A i \in DOMAIN delegate : delegate[i].req = q =>
                 delegate[i].dev = ask[q].dev /\ delegate[i].ev # "DiscoveredPeripheral"
           /\ \A d \in Device : \A j \in DOMAIN cb[d].att : cb[d].att[j].req = q => d = ask[q].dev
BY DEF AttTags, EventTags, Reports

\* What grows a tree is the result of a discovery, and its connect() waits.
LEMMA FoundReports ==
    ASSUME TypeOK, EventTags, NEW d \in Device, SomeoneWaits(d),
           \/ FoundServices(d)
           \/ \E s \in Service : FoundChars(d, s)
           \/ \E c \in Char : FoundDescs(d, c)
    PROVE  connected_future_state[d] # NoReq
  <1> DEFINE e == Head(delegate)
  <1>1. \E o \in Discoveries : Reports(o, d, e)
    <2>1. CASE FoundServices(d)
      <3>1. e \in CentralDelegateEvent /\ e.ev = "DiscoveredServices" /\ e.dev = d
        BY <2>1, EventShape DEF FoundServices, Occurs
      <3> QED BY <3>1, ReportsLevel, Members
    <2>2. ASSUME NEW s \in Service, FoundChars(d, s)
          PROVE  \E o \in Discoveries : Reports(o, d, e)
      <3>1. e \in CentralDelegateEvent /\ e.ev = "DiscoveredCharacteristics" /\ e.dev = d /\ e.attr = s
        BY <2>2, EventShape DEF FoundChars, Occurs
      <3> QED BY <3>1, ReportsLevel, Members
    <2>3. ASSUME NEW c \in Char, FoundDescs(d, c)
          PROVE  \E o \in Discoveries : Reports(o, d, e)
      <3>1. Occurs("DiscoveredCharacteristicDescriptors") /\ e.dev = d /\ e.attr = c
        BY <2>3 DEF FoundDescs
      <3>2. e.req = NoReq
        BY <3>1, Untagged
      <3>3. Reports(DescsOp(c), d, e)
        BY <3>1, <3>2 DEF Occurs, Reports, DescsOp, AttOp
      <3> QED BY <3>3, Members
    <2> QED BY <2>1, <2>2, <2>3
  <1>2. 1 \in DOMAIN delegate /\ e = delegate[1] /\ 1 > 0
    <2>1. delegate # <<>>
      BY DEF FoundServices, FoundChars, FoundDescs, Occurs
    <2> QED BY <2>1 DEF TypeOK, DelegateTypeOK
  <1>3. Discovering(d)
    BY <1>1, <1>2 DEF Discovering, Later
  <1> QED BY <1>3 DEF SomeoneWaits

\* A call that is still to be acknowledged is not answered by what is ahead of it.
LEMMA AckInOrder ==
    ASSUME IInv, TagInv, OrderInv, Tagged, Truthful, NEW k \in Slot, NEW kind, Fulfilled(k, kind),
           NEW q \in Req, q = Head(future_state[k]), PendingHeld(k[1]), OpOf(q) \in Acked
    PROVE  ~ Pending(q)'
  <1> DEFINE e == Head(delegate)
  <1>0. /\ TypeOK /\ AttTags /\ EventTags /\ Once
        /\ delegate # <<>> /\ cb' = cb /\ Occurs(e.ev) /\ Consume
    BY DEF IInv, TagInv, Fulfilled, Occurs
  <1>1. /\ 1 \in DOMAIN future_state[k] /\ q = future_state[k][1]
        /\ DOMAIN future_state[k] = 1..Len(future_state[k])
    BY <1>0 DEF Fulfilled, TypeOK
  <1>2. SlotOf(q) = k /\ q \in Range(future_state[k])
    BY <1>1, Placed DEF Range
  <1>3. AnsweredFrom(e, k, kind) /\ k = <<k[1], k[2], k[3]>> /\ k[1] = e.dev /\ ask[q].dev = k[1] /\ k[2] = OpOf(q)
    BY <1>2 DEF Fulfilled, AnsweredFrom, SlotOf
  <1>4. OpOf(q) \in Acked
    OBVIOUS
  <1>5. e.ev \notin {"CharacteristicNotified", "DescriptorNotified"}
    BY <1>3, <1>4 DEF AnsweredFrom, Acked
  <1>6. k[2] \in {"subscribe", "unsubscribe"} => SubscriptionsSucceed
    BY <1>3, <1>4 DEF Acked
  <1>7. PICK x \in Req : x = e.req /\ Pending(x) /\ x \in Range(future_state[k])
    BY <1>0, <1>3, <1>5, <1>6, AckFindsCall
  <1>8. ~ Pending(x)'
    BY <1>7, AckLeaves DEF TagInv
  <1>9. ASSUME Pending(q)'
        PROVE  FALSE
    <2>1. x # q
      BY <1>8, <1>9
    <2>2. k[1] \in Device
      BY DEF Slot
    <2>3. 1 \in DOMAIN delegate /\ e = delegate[1] /\ \A i \in DOMAIN delegate' :
             i + 1 \in DOMAIN delegate /\ 1 < i + 1 /\ delegate'[i] = delegate[i + 1]
      BY <1>0, TailEvents
    <2>4. Before(k[1], x, q)
      <3>1. CASE \E i \in DOMAIN delegate' : delegate'[i].req = q
        <4>1. PICK i \in DOMAIN delegate' : delegate'[i].req = q
          BY <3>1
        <4>2. delegate[i + 1].req = q /\ delegate[i + 1].dev = k[1]
          BY <1>0, <1>1, <1>3, <2>3, <4>1, PendingPlaces
        <4> QED BY <1>3, <1>7, <2>3, <4>2 DEF Before
      <3>2. CASE \E d \in Device : \E j \in DOMAIN cb[d].att : cb[d].att[j].req = q
        <4>1. \E j \in DOMAIN cb[k[1]].att : cb[k[1]].att[j].req = q
          BY <1>0, <1>1, <1>3, <3>2, PendingPlaces
        <4> QED BY <1>3, <1>7, <2>3, <4>1 DEF Before
      <3> QED BY <1>0, <1>9, <3>1, <3>2 DEF Pending
    <2>5. PICK j \in DOMAIN future_state[k] : future_state[k][j] = x
      BY <1>7 DEF Range
    <2>6. j < 1
      BY <1>1, <2>4, <2>5 DEF OrderInv
    <2> QED BY <1>1, <2>5, <2>6
  <1> QED BY <1>9

\* A call that is still to be acknowledged waits for that.
LEMMA PendingHeldStep ==
    ASSUME IInv, TagInv, OrderInv, Tagged, Truthful, [Next]_vars, panic' = "none",
           NEW d \in Device, Careful(d), PendingHeld(d)
    PROVE  PendingHeld(d)'
  <1>0. TypeOK /\ AttTags /\ EventTags /\ Once /\ ask' = ask
    BY ConsumedStays DEF IInv, TagInv
  <1> SUFFICES ASSUME NEW q \in Req, ask[q].dev = d, OpOf(q) \in Acked, Pending(q)', st'[q] # "held"
               PROVE  FALSE
    BY <1>0 DEF PendingHeld, OpOf
  <1>1. OpOf(q) \in CharOp \cup DescOp /\ q # NoReq
    BY DelegateAssumption DEF Acked, CharOp, DescOp
  <1>2. CASE ~ Pending(q)
    <2>1. RequestOnAttribute(q)
      BY <1>0, <1>2, PendingStep
    <2>2. cb' = cb /\ delegate' = delegate
      BY <1>0, <2>1 DEF RequestOnAttribute, TypeOK
    <2> QED BY <1>2, <2>2 DEF Pending
  <1>3. CASE Pending(q)
    <2>1. st[q] = "held"
      BY <1>3 DEF PendingHeld
    <2>2. ASSUME NEW k \in Slot, NEW kind \in {"Ok", "ReadResult"}, Fulfilled(k, kind),
                 q = Head(future_state[k])
          PROVE  FALSE
      <3>1. future_state[k] # <<>> /\ future_state[k] \in Seq(Req)
        BY <1>0, <2>2 DEF Fulfilled, TypeOK
      <3>2. q \in Range(future_state[k])
        BY <2>2, <3>1 DEF Range
      <3>3. k[1] = d
        BY <3>2, Placed DEF SlotOf
      <3> QED BY <2>2, <3>3, AckInOrder
    <2>3. ASSUME \/ FoundServices(d)
                 \/ \E s \in Service : FoundChars(d, s)
                 \/ \E c \in Char : FoundDescs(d, c)
          PROVE  FALSE
      <3>1. connected_future_state[d] # NoReq
        BY <1>0, <2>3, FoundReports DEF Careful
      <3>2. /\ \A i \in DOMAIN delegate : delegate[i].dev = d => delegate[i].req = NoReq
            /\ \A i \in DOMAIN cb[d].att : cb[d].att[i].req = NoReq
        BY <3>1 DEF Careful, SomeoneWaits
      <3> QED BY <1>0, <1>1, <1>3, <3>2, PendingPlaces DEF Pending
    <2>4. ASSUME Forgets(d)
          PROVE  FALSE
      <3>1. Occurs("DisconnectedDevice") /\ Consume /\ cb' = cb /\ Head(delegate).dev = d
        BY <2>4 DEF Forgets
      <3>2. /\ 1 \in DOMAIN delegate /\ Head(delegate) = delegate[1]
            /\ \A i \in DOMAIN delegate' :
                  i + 1 \in DOMAIN delegate /\ ~ i + 1 \leq 1 /\ delegate'[i] = delegate[i + 1]
        BY <1>0, <3>1, TailEvents
      <3>3. OfLink(1, d) /\ delegate[1].ev = "DisconnectedDevice"
        BY <3>1, <3>2 DEF OfLink, Occurs
      <3>4. cb[d].att = <<>> /\ \A j \in DOMAIN delegate : OfLink(j, d) => j \leq 1
        BY <3>2, <3>3 DEF Careful, LinkOrder
      <3>5. \A i \in DOMAIN delegate' : delegate'[i].req # q
        BY <1>0, <3>2, <3>4, PendingPlaces DEF OfLink
      <3>6. \A p \in Device : \A j \in DOMAIN cb[p].att : cb[p].att[j].req # q
        BY <1>0, <3>4, PendingPlaces
      <3> QED BY <3>1, <3>5, <3>6 DEF Pending
    <2> QED BY <1>1, <2>1, <2>2, <2>3, <2>4, HeldLeaves
  <1> QED BY <1>2, <1>3

----------------------------------------------------------------------------
(* The thread dies for a cause, and careful clients' writes have their own answer. *)

\* With the thread its channel is gone.
Silence == panic # "none" => delegate = <<>>

CarefulInv ==
    /\ Tagged /\ Silence /\ CalmInv
    /\ ~ FoundTwice => /\ Truthful
                       /\ \A d \in Device : Calm(d) => Careful(d) /\ PendingHeld(d)
    /\ PanicNeedsCause

\* Only the framework makes events.
LEMMA OldEvents ==
    ASSUME TypeOK, [Next]_vars
    PROVE  Framework \/ \A i \in DOMAIN delegate' : \E j \in DOMAIN delegate : delegate'[i] = delegate[j]
  <1>1. CASE HandleMessage
    BY <1>1, MessageForm
  <1>2. CASE HandleEvent
    BY <1>2, EventForm, EventsTaken
  <1>3. CASE ClientScans \/ (\E r \in Req : ClientCalls(r)) \/ UNCHANGED vars
    BY <1>3 DEF ClientScans, ClientCalls, vars, delegateVars
  <1> QED BY <1>1, <1>2, <1>3 DEF Next

\* A change of a subscription keeps its tag.
LEMMA TaggedStep ==
    ASSUME TypeOK, Tagged, [Next]_vars
    PROVE  Tagged'
  <1>1. CASE \A i \in DOMAIN delegate' : \E j \in DOMAIN delegate : delegate'[i] = delegate[j]
    BY <1>1 DEF Tagged
  <1>2. ASSUME NEW e \in CentralDelegateEvent, Send(e),
               e.ev \in {"CharacteristicSubscribed", "CharacteristicUnsubscribed"} => e.req \in Req
        PROVE  Tagged'
    <2>1. \A i \in DOMAIN delegate' : (i \in DOMAIN delegate /\ delegate'[i] = delegate[i]) \/ delegate'[i] = e
      BY <1>2, SentEvents
    <2> QED BY <1>2, <2>1 DEF Tagged
  <1>3. ASSUME NEW q \in Device, CallbackShapes(q)
        PROVE  Tagged'
    <2>1. CASE Reported(q)
      <3>1. PICK more \in Seq(AttOps), e \in CentralDelegateEvent :
               Finishes(q, more) /\ Send(e) /\ Reports(Head(cb[q].att), q, e)
        BY <2>1 DEF Reported
      <3>2. PICK o \in AttOps : o = Head(cb[q].att)
        BY <3>1, RestOfAtt DEF Finishes, TypeOK, DelegateTypeOK
      <3>3. e.ev \in {"CharacteristicSubscribed", "CharacteristicUnsubscribed"} => o.op \in CharOp
        BY <3>1, <3>2 DEF Reports, CharOp
      <3>4. o.op \in CharOp => e.req \in Req
        BY <3>1, <3>2, AttOpsByOp DEF Reports
      <3> QED BY <1>2, <3>1, <3>3, <3>4
    <2>2. CASE Silent(q)
      BY <2>2 DEF Silent, Tagged
    <2>3. CASE Unasked(q)
      BY <1>2, <2>3 DEF Unasked
    <2>4. ASSUME NEW v \in DeviceEvent, Send(Event(v, q, NoAttr, NoReq))
          PROVE  Tagged'
      <3>1. /\ Event(v, q, NoAttr, NoReq) \in CentralDelegateEvent
            /\ Event(v, q, NoAttr, NoReq).ev = v
        BY EventTypes DEF Event
      <3> QED BY <1>2, <2>4, <3>1 DEF DeviceEvent
    <2>5. CASE DidConnectPeripheral(q) \/ DidFailToConnectPeripheral(q) \/ DidDisconnectPeripheral(q)
      BY <2>4, <2>5 DEF DidConnectPeripheral, DidFailToConnectPeripheral, DidDisconnectPeripheral,
                        DeviceEvent
    <2> QED BY <1>3, <2>1, <2>2, <2>3, <2>5 DEF CallbackShapes
  <1> QED BY <1>1, <1>3, OldEvents, CallbackShape DEF Framework

\* A subscription that succeeds is reported as what it is.
LEMMA TruthfulStep ==
    ASSUME TypeOK, AttTags, ~ FoundTwice, Truthful, [Next]_vars
    PROVE  Truthful'
  <1>0. ask' = ask
    BY ConsumedStays
  <1> SUFFICES ASSUME SubscriptionsSucceed, NEW i \in DOMAIN delegate', delegate'[i].req \in Req
               PROVE  Truly(OwnOp(delegate'[i].req), delegate'[i])
    BY <1>0 DEF Truthful, OwnOp, OpOf
  <1>1. CASE \E j \in DOMAIN delegate : delegate'[i] = delegate[j]
    BY <1>1 DEF Truthful
  <1>2. CASE Framework
    <2>1. PICK q \in Device : Callback(q)
      BY <1>2 DEF Framework
    <2>2. ASSUME NEW e \in CentralDelegateEvent, Send(e), e.req \in Req => Truly(OwnOp(e.req), e)
          PROVE  Truly(OwnOp(delegate'[i].req), delegate'[i])
      <3>1. (i \in DOMAIN delegate /\ delegate'[i] = delegate[i]) \/ delegate'[i] = e
        BY <2>2, SentEvents
      <3> QED BY <1>1, <2>2, <3>1
    <2>3. CASE Completed(q)
      <3>0. PICK o : o = Head(cb[q].att)
        OBVIOUS
      <3>1. PICK more \in Seq(AttOps) :
               /\ Finishes(q, more)
               /\ \/ delegate' = delegate
                  \/ \E e \in CentralDelegateEvent : Send(e) /\ Reports(o, q, e) /\ Truly(o, e)
        BY <2>3, <3>0 DEF Completed
      <3>2. CASE delegate' = delegate
        BY <1>1, <3>2
      <3>3. ASSUME NEW e \in CentralDelegateEvent, Send(e), Reports(o, q, e), Truly(o, e)
            PROVE  Truly(OwnOp(delegate'[i].req), delegate'[i])
        <4>1. 1 \in DOMAIN cb[q].att /\ o = cb[q].att[1]
          BY <3>0, <3>1, RestOfAtt
        <4>2. e.req \in Req => o = OwnOp(e.req)
          BY <3>3, <4>1 DEF AttTags, Reports
        <4> QED BY <2>2, <3>3, <4>2
      <3> QED BY <3>1, <3>2, <3>3
    <2>4. CASE Announced(q)
      BY <2>2, <2>4, DelegateAssumption DEF Announced
    <2>5. ASSUME NEW v \in DeviceEvent, Send(Event(v, q, NoAttr, NoReq))
          PROVE  Truly(OwnOp(delegate'[i].req), delegate'[i])
      <3>1. /\ Event(v, q, NoAttr, NoReq) \in CentralDelegateEvent
            /\ Event(v, q, NoAttr, NoReq).req \notin Req
        BY EventTypes, DelegateAssumption DEF Event
      <3> QED BY <2>2, <2>5, <3>1
    <2>6. CASE DidConnectPeripheral(q) \/ DidFailToConnectPeripheral(q) \/ DidDisconnectPeripheral(q)
      BY <2>5, <2>6 DEF DidConnectPeripheral, DidFailToConnectPeripheral, DidDisconnectPeripheral,
                        DeviceEvent
    <2> QED BY <2>1, <2>3, <2>4, <2>6, CallbackExact
  <1> QED BY <1>1, <1>2, OldEvents

\* A call that was made was made for good.
LEMMA MadeStays ==
    ASSUME TypeOK, [Next]_vars
    PROVE  \A q \in Req : st[q] # "idle" => st'[q] # "idle"
  <1>1. ASSUME NEW r, NEW rep, NEW S, Settle(r, rep, S)
        PROVE  \A q \in Req : st[q] # "idle" => st'[q] # "idle"
    BY <1>1 DEF Settle
  <1>2. CASE HandleMessage
    <2>1. ASSUME NEW r \in Req, RequestOnAttribute(r) \/ ConnectPeripheral(r) \/ DisconnectPeripheral(r)
          PROVE  \A q \in Req : st[q] # "idle" => st'[q] # "idle"
      <3>1. CASE RequestOnAttribute(r)
        BY <3>1 DEF RequestOnAttribute, TypeOK
      <3>2. CASE ConnectPeripheral(r)
        BY <3>2 DEF ConnectPeripheral, TypeOK
      <3>3. CASE DisconnectPeripheral(r)
        BY <3>3 DEF DisconnectPeripheral, TypeOK
      <3> QED BY <2>1, <3>1, <3>2, <3>3
    <2>2. ASSUME NEW r \in Req, WriteWithoutResponse(r) \/ IsConnected(r)
          PROVE  \A q \in Req : st[q] # "idle" => st'[q] # "idle"
      BY <1>1, <2>2 DEF WriteWithoutResponse, IsConnected
    <2>3. CASE Scan
      BY <2>3 DEF Scan
    <2> QED BY <1>2, <2>1, <2>2, <2>3 DEF HandleMessage
  <1>3. CASE EventForms
    <2>1. ASSUME NEW why, Panic(why)
          PROVE  \A q \in Req : st[q] # "idle" => st'[q] # "idle"
      BY <2>1 DEF Panic
    <2>2. CASE (delegate # <<>> /\ Unheeded) \/ OnDiscoveredPeripheral
      BY <2>2 DEF Unheeded, Ignore, OnDiscoveredPeripheral
    <2>3. ASSUME NEW d, FoundServices(d) \/ (\E s : FoundChars(d, s)) \/ (\E c : FoundDescs(d, c))
                          \/ ReportsFailure(d) \/ Forgets(d)
          PROVE  \A q \in Req : st[q] # "idle" => st'[q] # "idle"
      BY <1>1, <2>3 DEF FoundServices, FoundChars, FoundDescs, Grows, ReportsFailure, Forgets
    <2>4. ASSUME NEW k, NEW kind, Fulfilled(k, kind)
          PROVE  \A q \in Req : st[q] # "idle" => st'[q] # "idle"
      BY <1>1, <2>4 DEF Fulfilled
    <2> QED BY <1>3, <2>1, <2>2, <2>3, <2>4 DEF EventForms, LiveForms
  <1>4. CASE HandleEvent
    BY <1>3, <1>4, EventForm
  <1>5. CASE Framework \/ UNCHANGED vars \/ ClientScans
    BY <1>5 DEF Framework, internalVars, vars, ClientScans
  <1>6. CASE \E r \in Req : ClientCalls(r)
    BY <1>6 DEF ClientCalls, TypeOK
  <1> QED BY <1>2, <1>4, <1>5, <1>6 DEF Next

\* The thread dies of an event, or goes on; once it is dead it gets no event.
LEMMA PanicForm ==
    ASSUME TypeOK, Silence, [Next]_vars
    PROVE  /\ Silence'
           /\ panic' = panic \/ (HandleEvent /\ Dying)
           /\ panic # "none" => panic' = panic
  <1>1. CASE HandleMessage
    BY <1>1, MessageForm DEF Silence
  <1>2. CASE HandleEvent
    <2>1. CASE Dying
      BY <1>2, <2>1 DEF Dying, Panic, Silence
    <2>2. CASE LiveForms
      <3>1. delegate # <<>> /\ panic' = panic
        BY <2>2 DEF LiveForms, Unheeded, Ignore, OnDiscoveredPeripheral, FoundServices, FoundChars,
                    FoundDescs, Grows, ReportsFailure, Forgets, Fulfilled, Occurs
      <3> QED BY <3>1 DEF Silence
    <2> QED BY <1>2, <2>1, <2>2, EventForm
  <1>3. CASE Framework
    BY <1>3 DEF Framework, Callback, Silence
  <1>4. CASE ClientScans \/ (\E r \in Req : ClientCalls(r)) \/ UNCHANGED vars
    BY <1>4 DEF ClientScans, ClientCalls, vars, delegateVars, Silence
  <1> QED BY <1>1, <1>2, <1>3, <1>4 DEF Next

\* What the thread can die of.
Causes ==
    \/ \E r \in Req : OpOf(r) = "read_descriptor" /\ st[r] # "idle"
    \/ hasty # {}
    \/ ~ SubscriptionsSucceed
    \/ FoundTwice

\* What a result is about is in the tree when it is handled.
LEMMA ResultKnown ==
    ASSUME TypeOK, NEW d \in Device, Careful(d), delegate # <<>>, NEW o \in Discoveries,
           Reports(o, d, Head(delegate))
    PROVE  /\ connected_future_state[d] # NoReq
           /\ \A s \in Service : o = CharsOp(s) => s \in tree[d].has
           /\ \A c \in Char : o = DescsOp(c) => c \in tree[d].has /\ ServiceOf[c] \in tree[d].has
  <1>1. /\ 1 \in DOMAIN delegate /\ Head(delegate) = delegate[1] /\ 1 > 0
        /\ \A i \in DOMAIN delegate : i = 1 \/ i > 1
    BY DEF TypeOK, DelegateTypeOK
  <1>2. Later(0, d, o)
    BY <1>1 DEF Later
  <1>3. connected_future_state[d] # NoReq
    BY <1>2 DEF Careful, SomeoneWaits, Discovering
  <1>4. ASSUME NEW p \in Ancestry(o), p # o
        PROVE  ~ EventOf(p, d)
    <2>1. ~ Later(1, d, p)
      BY <1>1 DEF Careful, DiscoverOnce
    <2>2. ~ Reports(p, d, Head(delegate))
      BY <1>4, ReportsOne, DiscoveriesDiffer, Members
    <2> QED BY <1>1, <2>1, <2>2 DEF EventOf, Later
  <1>5. ASSUME NEW s \in Service, o = CharsOp(s)
        PROVE  s \in tree[d].has
    <2>1. ServicesOp \in Ancestry(o) /\ ServicesOp # o
      BY <1>5, Members, DiscoveriesDiffer DEF Ancestry
    <2> QED BY <1>2, <1>4, <1>5, <2>1 DEF Careful, TreeGrows
  <1>6. ASSUME NEW c \in Char, o = DescsOp(c)
        PROVE  c \in tree[d].has /\ ServiceOf[c] \in tree[d].has
    <2>1. CharsOp(ServiceOf[c]) \in Ancestry(o) /\ CharsOp(ServiceOf[c]) # o
      BY <1>6, Members, DiscoveriesDiffer DEF Ancestry
    <2> QED BY <1>2, <1>4, <1>6, <2>1 DEF Careful, TreeGrows
  <1> QED BY <1>3, <1>5, <1>6

\* The thread dies of nothing else.
LEMMA DyingNeedsCause ==
    ASSUME IInv, TagInv, Tagged, Dying, panic = "none",
           ~ FoundTwice => Truthful /\ \A d \in Device : Calm(d) => Careful(d) /\ PendingHeld(d)
    PROVE  Causes
  <1> SUFFICES ASSUME ~ Causes
               PROVE  FALSE
    OBVIOUS
  <1> DEFINE e == Head(delegate)
             d == e.dev
  <1>0. TypeOK /\ EventTags /\ delegate # <<>>
    BY DEF IInv, TagInv, Dying
  <1>1. 1 \in DOMAIN delegate /\ e = delegate[1] /\ e \in CentralDelegateEvent /\ Occurs(e.ev) /\ d \in Device
    BY <1>0, EventShape DEF TypeOK, DelegateTypeOK, Occurs
  <1>2. Truthful /\ Careful(d) /\ PendingHeld(d) /\ SubscriptionsSucceed
    BY <1>1 DEF Causes, Calm
  <1>3. ASSUME e.ev = "DiscoveredCharacteristics",
               e.attr \notin tree[d].has \/ connected_future_state[d] = NoReq
        PROVE  FALSE
    <2>1. e.attr \in Service /\ Reports(CharsOp(e.attr), d, e)
      BY <1>1, <1>3, ReportsLevel
    <2>2. CharsOp(e.attr) \in Discoveries
      BY <2>1, Members
    <2> HIDE DEF e, d
    <2> QED BY <1>0, <1>1, <1>2, <1>3, <2>1, <2>2, ResultKnown DEF e
  <1>4. ASSUME e.ev = "DiscoveredCharacteristicDescriptors",
               \/ ServiceOf[e.attr] \notin tree[d].has
               \/ e.attr \notin tree[d].has
               \/ connected_future_state[d] = NoReq
        PROVE  FALSE
    <2>2. Occurs("DiscoveredCharacteristicDescriptors")
      BY <1>1, <1>4
    <2>1. e.attr \in Char
      BY <1>1, <1>4 DEF CentralDelegateEvent, DeviceEvent, ServiceEvent, CharEvent, DescEvent
    <2>3. e.req = NoReq
      BY <1>0, <2>2, Untagged
    <2>4. Reports(DescsOp(e.attr), d, e)
      BY <1>4, <2>3 DEF Reports, DescsOp, AttOp
    <2>5. DescsOp(e.attr) \in Discoveries
      BY <2>1, Members
    <2> HIDE DEF e, d
    <2> QED BY <1>0, <1>1, <1>2, <1>4, <2>1, <2>4, <2>5, ResultKnown DEF e
  <1>5. ASSUME e.ev = "ConnectionFailed", connected_future_state[d] = NoReq
        PROVE  FALSE
    BY <1>1, <1>2, <1>5 DEF Careful, SomeoneWaits, Discovering
  <1>6. ASSUME e.ev # "CharacteristicNotified", NEW k \in Slot, NEW kind,
               AnsweredFrom(e, k, kind), future_state[k] = <<>>
        PROVE  FALSE
    <2>1. CASE e.ev = "DescriptorNotified"
      <3>1. e.req \in Req
        BY <1>1, <2>1 DEF CentralDelegateEvent, DeviceEvent, ServiceEvent, CharEvent
      <3>2. Consumed(e.req) /\ Reports(OwnOp(e.req), ask[e.req].dev, e)
        BY <1>0, <1>1, <3>1 DEF EventTags
      <3>3. OpOf(e.req) = "read_descriptor"
        BY <2>1, <3>2 DEF Reports, OwnOp, AttOp
      <3> QED BY <3>1, <3>2, <3>3 DEF Causes, Consumed
    <2>2. CASE e.ev # "DescriptorNotified"
      <3>1. e.req \in Range(future_state[k])
        BY <1>0, <1>2, <1>6, <2>2, AckFindsCall
      <3> QED BY <1>6, <3>1 DEF Range
    <2> QED BY <2>1, <2>2
  <1> QED BY <1>3, <1>4, <1>5, <1>6 DEF Dying

\* A cause stays.
LEMMA PanicNeedsCauseStep ==
    ASSUME IInv, TagInv, CarefulInv, [Next]_vars
    PROVE  PanicNeedsCause'
  <1>0. TypeOK /\ ask' = ask /\ hasty \subseteq hasty' /\ \A q \in Req : st[q] # "idle" => st'[q] # "idle"
    BY ConsumedStays, HastyStep, MadeStays DEF IInv
  <1>1. Causes => Causes'
    BY <1>0 DEF Causes, OpOf
  <1>2. /\ PanicNeedsCause <=> (panic # "none" => Causes)
        /\ PanicNeedsCause' <=> (panic' # "none" => Causes')
    BY DEF PanicNeedsCause, Causes, SubscriptionsSucceed
  <1>3. panic' = panic \/ (Dying /\ panic = "none")
    BY <1>0, PanicForm DEF CarefulInv
  <1>4. Dying /\ panic = "none" => Causes
    BY DyingNeedsCause DEF CarefulInv
  <1> QED BY <1>1, <1>2, <1>3, <1>4 DEF CarefulInv

\* At first nobody was hasty, and nothing is asked for.
LEMMA CarefulStart == Init => CarefulInv
  <1> SUFFICES ASSUME Init
               PROVE  CarefulInv
    OBVIOUS
  <1>1. /\ delegate = <<>> /\ panic = "none" /\ tree = [d \in Device |-> NoTree]
        /\ connected_future_state = [d \in Device |-> NoReq]
        /\ \A d \in Device : cb[d].att = <<>> /\ cb[d].link = "disconnected" /\ cb[d].dial = FALSE
    BY DEF Init, DelegateInit, Unplugged
  <1>2. Tagged /\ Silence /\ Truthful /\ PanicNeedsCause
    BY <1>1 DEF Tagged, Silence, Truthful, PanicNeedsCause
  <1>3. \A d \in Device : LinkCalm(d)
    BY <1>1 DEF LinkCalm, LossQueued
  <1>4. \A d \in Device : \A i, o : ~ Later(i, d, o)
    BY <1>1 DEF Later
  <1>5. ASSUME NEW d \in Device
        PROVE  Careful(d) /\ PendingHeld(d)
    <2>1. LinkOrder(d) /\ DiscoverOnce(d)
      BY <1>1 DEF LinkOrder, DiscoverOnce
    <2>2. TreeGrows(d)
      BY <1>1, <1>4 DEF TreeGrows, NoTree
    <2>3. SomeoneWaits(d)
      BY <1>1, <1>4 DEF SomeoneWaits, Discovering
    <2>4. PendingHeld(d)
      BY <1>1 DEF PendingHeld, Pending
    <2> QED BY <1>3, <2>1, <2>2, <2>3, <2>4 DEF Careful
  <1> QED BY <1>2, <1>3, <1>5 DEF CarefulInv, CalmInv

\* Every step keeps careful clients' devices in order.
LEMMA CarefulStep == IInv /\ TagInv /\ PipelineInv /\ CarefulInv /\ [Next]_vars => CarefulInv'
  <1> SUFFICES ASSUME IInv, TagInv, PipelineInv, CarefulInv, [Next]_vars
               PROVE  CarefulInv'
    OBVIOUS
  <1>0. /\ TypeOK /\ AttTags /\ EventTags /\ UpInv /\ OrderInv
        /\ Tagged /\ Silence /\ CalmInv
    BY DEF IInv, TagInv, PipelineInv, CarefulInv
  <1>1. Tagged' /\ Silence' /\ CalmInv' /\ PanicNeedsCause'
    BY <1>0, TaggedStep, PanicForm, CalmStep, PanicNeedsCauseStep
  <1>2. ASSUME ~ FoundTwice
        PROVE  Truthful'
    BY <1>0, <1>2, TruthfulStep DEF CarefulInv
  <1>3. ASSUME ~ FoundTwice, NEW d \in Device, Calm(d)'
        PROVE  Careful(d)' /\ PendingHeld(d)'
    <2>1. panic' = "none" /\ d \notin hasty'
      BY <1>3 DEF Calm
    <2>2. panic = "none" /\ d \notin hasty
      BY <1>0, <2>1, PanicForm, HastyStep
    <2>3. Careful(d) /\ PendingHeld(d) /\ Truthful
      BY <1>3, <2>2 DEF CarefulInv, Calm
    <2>4. PendingHeld(d)'
      BY <1>0, <2>1, <2>3, PendingHeldStep
    <2>5. CASE Framework
      BY <1>0, <1>3, <2>3, <2>4, <2>5, CallbackCareful DEF Framework
    <2>6. CASE HandleMessage
      BY <1>0, <2>1, <2>3, <2>4, <2>6, MessageCareful
    <2>7. CASE HandleEvent
      <3>1. ~ Dying
        BY <2>1 DEF Dying, Panic
      <3> QED BY <1>0, <2>3, <2>4, <2>7, <3>1, EventForm, EventCareful
    <2>8. CASE ClientScans \/ (\E r \in Req : ClientCalls(r)) \/ UNCHANGED vars
      <3>1. UNCHANGED <<cb, delegate, tree, known, connected_future_state>>
        BY <2>8 DEF ClientScans, ClientCalls, vars, delegateVars, internalVars, futureVars
      <3>2. Unmoved(d)
        BY <3>1 DEF Unmoved
      <3> QED BY <2>3, <2>4, <3>1, <3>2, Aside
    <2> QED BY <2>4, <2>5, <2>6, <2>7, <2>8 DEF Next
  <1>4. FoundTwice' <=> FoundTwice
    BY DEF FoundTwice
  <1> QED BY <1>1, <1>2, <1>3, <1>4 DEF CarefulInv

\* The invariant of careful clients holds, with those it rests on.
LEMMA CarefulAlways == Spec => [](IInv /\ TagInv /\ CarefulInv)
  <1>1. Init => IInv /\ TreeInv /\ TagInv /\ PipelineInv /\ CarefulInv
    BY InitPlaces, TreeInvStart, TagInvStart, PipelineStart, CarefulStart
  <1>2. IInv /\ TreeInv /\ TagInv /\ PipelineInv /\ CarefulInv /\ [Next]_vars
          => IInv' /\ TreeInv' /\ TagInv' /\ PipelineInv' /\ CarefulInv'
    BY StepPlaces, TreeInvStep, TagInvStep, PipelineStep, CarefulStep
  <1> QED BY <1>1, <1>2, PTL DEF Spec

\* The thread dies only of the read of a descriptor, a hasty client, an error while changing a
\* subscription, or a device with attributes that the discovery reports twice.
THEOREM DiesForCause == Spec => []PanicNeedsCause
  <1>1. CarefulInv => PanicNeedsCause
    BY DEF CarefulInv
  <1> QED BY <1>1, CarefulAlways, PTL

\* Unless a client was hasty, or the device is found twice, a write is never answered by the
\* acknowledgement of one that is over.
THEOREM AcksNotStale == Spec => AckNotStale
  <1> DEFINE A == \A r \in Req :
                    LET q == reply'[r].src
                    IN  /\ st[r] = "held" /\ st'[r] = "answered"
                        /\ OpOf(r) \in {"write", "write_descriptor"}
                        => q = r \/ st[q] = "held" \/ hasty # {} \/ FoundTwice
  <1>1. ASSUME IInv, TagInv, CarefulInv, [Next]_vars
        PROVE  A
    <2> SUFFICES ASSUME NEW r \in Req, st[r] = "held", st'[r] = "answered",
                        OpOf(r) \in {"write", "write_descriptor"}, hasty = {}, ~ FoundTwice
                 PROVE  st[reply'[r].src] = "held"
      OBVIOUS
    <2>0. TypeOK /\ EventTags /\ Tagged /\ Silence /\ ask' = ask
      BY <1>1, ConsumedStays DEF IInv, TagInv, CarefulInv
    <2>1. reply'[r].kind = "Ok" /\ reply[r] = NoReply
      <3>1. ReplyFits /\ ReplyFits'
        BY <1>1, StepPlaces DEF IInv
      <3>2. OpOf(r)' = OpOf(r)
        BY <2>0 DEF OpOf
      <3>3. reply'[r].kind \in Fits(r)' /\ reply[r] = NoReply
        BY <3>1 DEF ReplyFits
      <3> QED BY <3>2, <3>3 DEF Fits
    <2>2. reply'[r] # reply[r]
      BY <2>1 DEF NoReply, Reply
    <2>3. PICK k \in Slot, kind \in {"Ok", "ReadResult"} :
             /\ Fulfilled(k, kind) /\ r = Head(future_state[k])
             /\ reply'[r].src = Head(delegate).req
      BY <1>1, <2>1, <2>2, ReplyStep
    <2>4. SlotOf(r) = k
      <3>1. future_state[k] # <<>> /\ future_state[k] \in Seq(Req)
        BY <2>0, <2>3 DEF Fulfilled, TypeOK
      <3>2. r \in Range(future_state[k])
        BY <2>3, <3>1 DEF Range
      <3> QED BY <1>1, <3>2, Placed
    <2>5. /\ delegate # <<>> /\ AnsweredFrom(Head(delegate), k, kind)
          /\ Head(delegate).dev \in Device
      <3>1. Occurs(Head(delegate).ev)
        BY <2>3 DEF Fulfilled
      <3> QED BY <2>0, <2>3, <3>1, EventShape DEF Fulfilled, Occurs
    <2>6. k[2] \in {"write", "write_descriptor"}
      BY <2>4 DEF SlotOf
    <2>7. Head(delegate).ev \notin {"CharacteristicNotified", "DescriptorNotified"}
      BY <2>5, <2>6 DEF AnsweredFrom
    <2>8. Truthful /\ PendingHeld(Head(delegate).dev)
      BY <1>1, <2>0, <2>5 DEF CarefulInv, Calm, Silence
    <2>9. st[Head(delegate).req] = "held"
      BY <1>1, <2>0, <2>5, <2>6, <2>7, <2>8, AckFindsCall
    <2> QED BY <2>3, <2>9
  <1>2. IInv /\ TagInv /\ CarefulInv /\ [Next]_vars => [A]_vars
    BY <1>1
  <1> QED BY <1>2, CarefulAlways, PTL DEF Spec, AckNotStale
=============================================================================
