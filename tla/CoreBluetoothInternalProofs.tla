-------------------- MODULE CoreBluetoothInternalProofs --------------------
(***************************************************************************)
(* Theorems of CoreBluetoothInternal, for every set of devices, attributes *)
(* and calls.                                                              *)
(***************************************************************************)
EXTENDS CoreBluetoothInternal, SequenceTheorems, TLAPS

----------------------------------------------------------------------------
(* The delegate. *)

\* The operations that the delegate and the thread ask the framework for are operations.
LEMMA AttOpTypes ==
    /\ AttOp("services", NoAttr, NoReq) \in AttOps
    /\ \A s \in Service : /\ AttOp("chars", s, NoReq) \in AttOps
                          /\ AttOp("included", s, NoReq) \in AttOps
    /\ \A c \in Char : AttOp("descs", c, NoReq) \in AttOps
    /\ \A o \in CharOp, c \in Char, r \in Req : AttOp(o, c, r) \in AttOps
    /\ \A o \in DescOp, x \in Desc, r \in Req : AttOp(o, x, r) \in AttOps
BY DEF AttOp, AttOps

\* The kind of an operation says what kind of attribute it is about, and whether it is of a call.
LEMMA AttOpsByOp ==
    ASSUME NEW o \in AttOps
    PROVE  /\ o.op \in {"chars", "included"} => o.attr \in Service
           /\ o.op = "descs" => o.attr \in Char
           /\ o.op \in CharOp => o.attr \in Char /\ o.req \in Req
           /\ o.op \in DescOp => o.attr \in Desc /\ o.req \in Req
BY DEF AttOps, CharOp, DescOp

\* The events the callbacks send are events of the delegate.
LEMMA EventTypes ==
    /\ \A d \in Device, v \in DeviceEvent : Event(v, d, NoAttr, NoReq) \in CentralDelegateEvent
    /\ \A d \in Device, s \in Service :
          Event("DiscoveredCharacteristics", d, s, NoReq) \in CentralDelegateEvent
    /\ \A d \in Device, c \in Char, r \in Req \cup {NoReq}, v \in CharEvent :
          Event(v, d, c, r) \in CentralDelegateEvent
    /\ \A d \in Device, a \in Desc, r \in Req, v \in DescEvent :
          Event(v, d, a, r) \in CentralDelegateEvent
BY DEF Event, CentralDelegateEvent, ServiceEvent

\* What a link record may become.
LEMMA LinkUpdate ==
    ASSUME DelegateTypeOK, NEW d \in Device, NEW e \in CentralDelegateEvent, Send(e)
    PROVE  delegate' \in Seq(CentralDelegateEvent)
BY DEF DelegateTypeOK, Send

\* The operation a callback reports is the oldest one of the device.
LEMMA CompletedOp ==
    ASSUME DelegateTypeOK, NEW d \in Device, NEW ops, Completes(d, ops)
    PROVE  /\ Head(cb[d].att) \in AttOps
           /\ Head(cb[d].att).op \in ops
           /\ Tail(cb[d].att) \in Seq(AttOps)
BY DEF DelegateTypeOK, Completes


CbType == [Device -> [link : {"disconnected", "connecting", "connected", "disconnecting"},
                      dial : BOOLEAN, att : Seq(AttOps), notifying : SUBSET Char,
                      cached : SUBSET Char, failed : BOOLEAN]]

\* The empty sequence is a sequence of anything.
LEMMA EmptyIsSeq == \A S : <<>> \in Seq(S)
OBVIOUS

\* The framework takes the oldest operation off, and what the callback asked for is added.
LEMMA DoneOf ==
    ASSUME DelegateTypeOK, NEW d \in Device, NEW ops, Completes(d, ops),
           NEW more \in Seq(AttOps)
    PROVE  Done(d, more) \in CbType
  <1>1. Tail(cb[d].att) \o more \in Seq(AttOps)
    BY CompletedOp, ConcatProperties
  <1> QED BY <1>1 DEF Done, DelegateTypeOK, CbType

\* Writing one field of one peripheral keeps the framework's state typed.
LEMMA CbUpdates ==
    ASSUME NEW f \in CbType, NEW d \in Device
    PROVE  /\ \A v \in {"disconnected", "connecting", "connected", "disconnecting"} :
                 [f EXCEPT ![d].link = v] \in CbType
           /\ \A v \in BOOLEAN : [f EXCEPT ![d].dial = v] \in CbType
           /\ \A v \in Seq(AttOps) : [f EXCEPT ![d].att = v] \in CbType
           /\ \A v \in SUBSET Char : [f EXCEPT ![d].notifying = v] \in CbType
           /\ \A v \in BOOLEAN : [f EXCEPT ![d].failed = v] \in CbType
           /\ \A v \in SUBSET Char : [f EXCEPT ![d].cached = v] \in CbType
  <1>1. \A v \in {"disconnected", "connecting", "connected", "disconnecting"} :
           [f EXCEPT ![d].link = v] \in CbType
    BY DEF CbType
  <1>2. \A v \in BOOLEAN : [f EXCEPT ![d].dial = v] \in CbType
    BY DEF CbType
  <1>3. \A v \in Seq(AttOps) : [f EXCEPT ![d].att = v] \in CbType
    BY DEF CbType
  <1>4. \A v \in SUBSET Char : [f EXCEPT ![d].notifying = v] \in CbType
    BY DEF CbType
  <1>5. \A v \in BOOLEAN : [f EXCEPT ![d].failed = v] \in CbType
    BY DEF CbType
  <1>6. \A v \in SUBSET Char : [f EXCEPT ![d].cached = v] \in CbType
    BY DEF CbType
  <1> QED BY <1>1, <1>2, <1>3, <1>4, <1>5, <1>6

\* Every callback of the delegate keeps the framework and the event channel typed.
LEMMA AttCallbackType ==
    ASSUME DelegateTypeOK, NEW d \in Device, AttCallback(d)
    PROVE  cb' \in CbType /\ delegate' \in Seq(CentralDelegateEvent)
  <1> DEFINE o == Head(cb[d].att)
  <1>1. CASE DidDiscoverServices(d)
    <2> DEFINE found == ServicesOf[d]
               next == [i \in 1..(2 * Len(found)) |->
                          IF i % 2 = 1 THEN AttOp("chars", found[(i + 1) \div 2], NoReq)
                                       ELSE AttOp("included", found[i \div 2], NoReq)]
    <2>1. found \in Seq(Service)
      BY DelegateAssumption
    <2>2. ASSUME NEW i \in 1..(2 * Len(found))
          PROVE  next[i] \in AttOps
      <3>1. CASE i % 2 = 1
        <4>1. (i + 1) \div 2 \in 1..Len(found)
          BY <2>1, <3>1
        <4> QED BY <2>1, <3>1, <4>1, AttOpTypes
      <3>2. CASE i % 2 # 1
        <4>1. i \div 2 \in 1..Len(found)
          BY <2>1, <3>2
        <4> QED BY <2>1, <3>2, <4>1, AttOpTypes
      <3> QED BY <3>1, <3>2
    <2>3. next \in Seq(AttOps)
      <3>1. 2 * Len(found) \in Nat
        BY <2>1
      <3> HIDE DEF found
      <3>2. next \in [1..(2 * Len(found)) -> AttOps]
        BY <2>2
      <3> QED BY <3>1, <3>2
    <2>4. cb' = Done(d, next) /\ Completes(d, {"services"})
      BY <1>1 DEF DidDiscoverServices
    <2>5. cb' \in CbType
      BY <2>3, <2>4, DoneOf DEF CbType
    <2> QED BY <1>1, <2>5, LinkUpdate, EventTypes DEF DidDiscoverServices, DeviceEvent
  <1>2. CASE DidDiscoverIncludedServices(d)
    <2> DEFINE found == Includes[o.attr]
               next == [i \in 1..Len(found) |-> AttOp("chars", found[i], NoReq)]
    <2>1. Completes(d, {"included"}) /\ cb' = Done(d, next) /\ delegate' = delegate
      BY <1>2 DEF DidDiscoverIncludedServices
    <2>2. o.attr \in Service
      BY <2>1, CompletedOp, AttOpsByOp
    <2>3. found \in Seq(Service)
      BY <2>2, DelegateAssumption
    <2>4. next \in Seq(AttOps)
      BY <2>3, AttOpTypes
    <2> QED BY <2>1, <2>4, DoneOf DEF CbType, DelegateTypeOK
  <1>3. CASE DidDiscoverCharacteristics(d)
    <2> DEFINE found == CharsOf[o.attr]
               next == [i \in 1..Len(found) |-> AttOp("descs", found[i], NoReq)]
    <2>1. Completes(d, {"chars"}) /\ cb' = Done(d, next)
          /\ Send(Event("DiscoveredCharacteristics", d, o.attr, NoReq))
      BY <1>3 DEF DidDiscoverCharacteristics
    <2>2. o.attr \in Service
      BY <2>1, CompletedOp, AttOpsByOp
    <2>3. found \in Seq(Char)
      BY <2>2, DelegateAssumption
    <2>4. next \in Seq(AttOps)
      BY <2>3, AttOpTypes
    <2>5. cb' \in CbType
      BY <2>1, <2>4, DoneOf DEF CbType
    <2> QED BY <2>1, <2>2, <2>5, LinkUpdate, EventTypes
  <1>4. CASE DidDiscoverDescriptors(d)
    <2>1. Completes(d, {"descs"})
          /\ cb' = [Done(d, <<>>) EXCEPT ![d].cached = @ \cup {o.attr}]
          /\ Send(Event("DiscoveredCharacteristicDescriptors", d, o.attr, NoReq))
      BY <1>4 DEF DidDiscoverDescriptors
    <2>2. o.attr \in Char
      BY <2>1, CompletedOp, AttOpsByOp
    <2>3. Done(d, <<>>) \in CbType
      BY <2>1, DoneOf, EmptyIsSeq
    <2>4. cb' \in CbType
      <3> DEFINE f == Done(d, <<>>)
                 more == f[d].cached \cup {o.attr}
      <3>1. cb' = [f EXCEPT ![d].cached = more]
        BY <2>1
      <3> HIDE DEF f
      <3>2. f \in CbType
        BY <2>3 DEF f
      <3>3. more \in SUBSET Char
        BY <2>2, <3>2 DEF CbType
      <3> HIDE DEF more
      <3> QED BY <3>1, <3>2, <3>3, CbUpdates
    <2> QED BY <2>1, <2>2, <2>4, LinkUpdate, EventTypes DEF CharEvent
  <1>5. CASE DidUpdateValueForCharacteristic(d)
    <2>1. CASE Completes(d, {"read"}) /\ cb' = Done(d, <<>>)
               /\ Send(Event("CharacteristicNotified", d, o.attr, o.req))
      <3>1. o.attr \in Char /\ o.req \in Req
        BY <2>1, CompletedOp, AttOpsByOp DEF CharOp
      <3> QED BY <2>1, <3>1, DoneOf, EmptyIsSeq, LinkUpdate, EventTypes DEF CharEvent
    <2>2. CASE cb' = cb /\ \E c \in cb[d].notifying :
                   Send(Event("CharacteristicNotified", d, c, NoReq))
      <3>1. PICK c \in cb[d].notifying : Send(Event("CharacteristicNotified", d, c, NoReq))
        BY <2>2
      <3>2. c \in Char
        BY DEF DelegateTypeOK
      <3> QED BY <2>2, <3>1, <3>2, LinkUpdate, EventTypes DEF CharEvent, CbType, DelegateTypeOK
    <2> QED BY <1>5, <2>1, <2>2 DEF DidUpdateValueForCharacteristic
  <1>6. CASE DidWriteValueForCharacteristic(d)
    <2>1. Completes(d, {"write"}) /\ cb' = Done(d, <<>>)
               /\ Send(Event("CharacteristicWritten", d, o.attr, o.req))
      BY <1>6 DEF DidWriteValueForCharacteristic
    <2>2. o.attr \in Char /\ o.req \in Req
      BY <2>1, CompletedOp, AttOpsByOp DEF CharOp
    <2> QED BY <2>1, <2>2, DoneOf, EmptyIsSeq, LinkUpdate, EventTypes DEF CharEvent
  <1>7. CASE DidUpdateNotificationState(d)
    <2> DEFINE on == IF o.op = "subscribe" THEN cb[d].notifying \cup {o.attr}
                                           ELSE cb[d].notifying \ {o.attr}
               is(n) == IF o.attr \in n THEN "CharacteristicSubscribed"
                                         ELSE "CharacteristicUnsubscribed"
    <2>1. Completes(d, {"subscribe", "unsubscribe"})
      BY <1>7 DEF DidUpdateNotificationState
    <2>2. o.attr \in Char /\ o.req \in Req
      BY <2>1, CompletedOp, AttOpsByOp DEF CharOp
    <2>3. Done(d, <<>>) \in CbType
      BY <2>1, DoneOf, EmptyIsSeq
    <2>4. \A n : is(n) \in CharEvent
      BY DEF CharEvent
    <2>5. CASE cb' = [Done(d, <<>>) EXCEPT ![d].notifying = on]
               /\ Send(Event(is(on), d, o.attr, o.req))
      <3>1. on \in SUBSET Char
        BY <2>2 DEF DelegateTypeOK
      <3>2. cb' \in CbType
        BY <2>3, <2>5, <3>1, CbUpdates
      <3>3. Event(is(on), d, o.attr, o.req) \in CentralDelegateEvent
        BY <2>2, <2>4, EventTypes
      <3> QED BY <2>5, <3>2, <3>3, LinkUpdate
    <2>6. CASE cb' = [Done(d, <<>>) EXCEPT ![d].failed = TRUE]
               /\ Send(Event(is(cb[d].notifying), d, o.attr, o.req))
      <3>1. cb' \in CbType
        BY <2>3, <2>6, CbUpdates
      <3>2. Event(is(cb[d].notifying), d, o.attr, o.req) \in CentralDelegateEvent
        BY <2>2, <2>4, EventTypes
      <3> QED BY <2>6, <3>1, <3>2, LinkUpdate
    <2> QED BY <1>7, <2>5, <2>6 DEF DidUpdateNotificationState
  <1>8. CASE DidUpdateValueForDescriptor(d)
    <2>1. Completes(d, {"read_descriptor"}) /\ cb' = Done(d, <<>>)
               /\ Send(Event("DescriptorNotified", d, o.attr, o.req))
      BY <1>8 DEF DidUpdateValueForDescriptor
    <2>2. o.attr \in Desc /\ o.req \in Req
      BY <2>1, CompletedOp, AttOpsByOp DEF DescOp
    <2> QED BY <2>1, <2>2, DoneOf, EmptyIsSeq, LinkUpdate, EventTypes DEF DescEvent
  <1>9. CASE DidWriteValueForDescriptor(d)
    <2>1. Completes(d, {"write_descriptor"}) /\ cb' = Done(d, <<>>)
               /\ Send(Event("DescriptorWritten", d, o.attr, o.req))
      BY <1>9 DEF DidWriteValueForDescriptor
    <2>2. o.attr \in Desc /\ o.req \in Req
      BY <2>1, CompletedOp, AttOpsByOp DEF DescOp
    <2> QED BY <2>1, <2>2, DoneOf, EmptyIsSeq, LinkUpdate, EventTypes DEF DescEvent
  <1>10. CASE OperationFails(d)
    <2>1. Completes(d, MayFail \ {"subscribe", "unsubscribe"})
          /\ cb' = [Done(d, <<>>) EXCEPT ![d].failed = TRUE] /\ delegate' = delegate
      BY <1>10 DEF OperationFails
    <2>2. Done(d, <<>>) \in CbType
      BY <2>1, DoneOf, EmptyIsSeq
    <2>3. cb' \in CbType
      BY <2>1, <2>2, CbUpdates
    <2> QED BY <2>1, <2>3 DEF DelegateTypeOK
  <1> QED BY <1>1, <1>2, <1>3, <1>4, <1>5, <1>6, <1>7, <1>8, <1>9, <1>10 DEF AttCallback

\* The callbacks of the manager keep the types of the delegate.
LEMMA LinkCallbackType ==
    ASSUME DelegateTypeOK, NEW d \in Device, LinkCallback(d)
    PROVE  cb' \in CbType /\ delegate' \in Seq(CentralDelegateEvent)
  <1>1. CASE DidDiscoverPeripheral(d)
    BY <1>1, LinkUpdate, EventTypes DEF DidDiscoverPeripheral, DeviceEvent, DelegateTypeOK, CbType
  <1>2. CASE DidConnectPeripheral(d)
    <2>1. Append(cb[d].att, AttOp("services", NoAttr, NoReq)) \in Seq(AttOps)
      BY AttOpTypes DEF DelegateTypeOK
    <2>2. cb' \in CbType
      BY <1>2, <2>1 DEF DidConnectPeripheral, DelegateTypeOK, CbType
    <2> QED BY <1>2, <2>2, LinkUpdate, EventTypes DEF DidConnectPeripheral, DeviceEvent
  <1>3. CASE DidFailToConnectPeripheral(d)
    <2>1. cb' \in CbType
      BY <1>3 DEF DidFailToConnectPeripheral, DelegateTypeOK, CbType
    <2> QED BY <1>3, <2>1, LinkUpdate, EventTypes DEF DidFailToConnectPeripheral, DeviceEvent
  <1>4. CASE DidDisconnectPeripheral(d)
    <2>1. cb' \in CbType
      BY <1>4, EmptyIsSeq DEF DidDisconnectPeripheral, DelegateTypeOK, CbType, Unplugged
    <2> QED BY <1>4, <2>1, LinkUpdate, EventTypes DEF DidDisconnectPeripheral, DeviceEvent
  <1> QED BY <1>1, <1>2, <1>3, <1>4 DEF LinkCallback

\* All callbacks do.
LEMMA CallbackType ==
    ASSUME DelegateTypeOK, NEW d \in Device, Callback(d)
    PROVE  DelegateTypeOK'
BY AttCallbackType, LinkCallbackType DEF Callback, DelegateTypeOK, CbType

\* The three things the thread asks of the framework.
LEMMA RequestTypes ==
    ASSUME DelegateTypeOK, NEW d \in Device
    PROVE  /\ Connect(d) => cb' \in CbType
           /\ CancelConnection(d) => cb' \in CbType
           /\ \A o, a, r : AttOp(o, a, r) \in AttOps /\ Ask(d, o, a, r) => cb' \in CbType
  <1>1. ASSUME Connect(d)
        PROVE  cb' \in CbType
    <2> DEFINE half == [cb EXCEPT ![d].dial = TRUE]
               link == IF half[d].link = "disconnected" THEN "connecting" ELSE half[d].link
    <2>1. cb \in CbType
      BY DEF DelegateTypeOK, CbType
    <2>2. half \in CbType
      BY <2>1, CbUpdates
    <2>3. cb' = [half EXCEPT ![d].link = link]
      BY <1>1 DEF Connect
    <2> HIDE DEF half
    <2>4. link \in {"disconnected", "connecting", "connected", "disconnecting"}
      BY <2>2 DEF CbType
    <2> HIDE DEF link
    <2> QED BY <2>2, <2>3, <2>4, CbUpdates
  <1>2. ASSUME CancelConnection(d)
        PROVE  cb' \in CbType
    <2> DEFINE half == [cb EXCEPT ![d].link = "disconnecting"]
    <2>1. half \in CbType
      BY CbUpdates DEF DelegateTypeOK, CbType
    <2>2. cb' = cb \/ cb' = [half EXCEPT ![d].dial = FALSE]
      BY <1>2 DEF CancelConnection
    <2>3. cb \in CbType
      BY DEF CbType, DelegateTypeOK
    <2> HIDE DEF half
    <2>4. [half EXCEPT ![d].dial = FALSE] \in CbType
      BY <2>1, CbUpdates
    <2> QED BY <2>2, <2>3, <2>4
  <1>3. ASSUME NEW o, NEW a, NEW r, AttOp(o, a, r) \in AttOps, Ask(d, o, a, r)
        PROVE  cb' \in CbType
    <2>1. Append(cb[d].att, AttOp(o, a, r)) \in Seq(AttOps)
      BY <1>3 DEF DelegateTypeOK
    <2> DEFINE more == Append(cb[d].att, AttOp(o, a, r))
    <2>2. cb' = [cb EXCEPT ![d].att = more] \/ cb' = cb
      BY <1>3 DEF Ask
    <2>3. cb \in CbType
      BY DEF DelegateTypeOK, CbType
    <2> HIDE DEF more
    <2>4. more \in Seq(AttOps)
      BY <2>1 DEF more
    <2>5. [cb EXCEPT ![d].att = more] \in CbType
      BY <2>3, <2>4, CbUpdates
    <2> QED BY <2>2, <2>3, <2>5
  <1> QED BY <1>1, <1>2, <1>3

----------------------------------------------------------------------------
(* Type correctness of the thread. *)

ReplyType == [kind : ReplyKind, src : Req \cup {NoReq}, seen : SUBSET Attr]

\* A call on an attribute has a queue, and the operation it asks for is of its kind.
LEMMA CallShape ==
    ASSUME TypeOK, NEW r \in Req
    PROVE  /\ ask[r] \in Call
           /\ ask[r].dev \in Device
           /\ OpOf(r) \in CharOp \cup DescOp => SlotOf(r) \in Slot
           /\ SlotOf(r) \in Slot => OpOf(r) \in CharOp \cup DescOp
           /\ OpOf(r) \in CharOp \cup DescOp => AttOp(OpOf(r), ask[r].attr, r) \in AttOps
  <1>1. ask[r] \in Call
    BY CallAssumption DEF TypeOK
  <1>2. ask[r].dev \in Device
    BY <1>1 DEF Call
  <1>3. ASSUME OpOf(r) \in CharOp
        PROVE  ask[r].attr \in Char
    BY <1>1, <1>3 DEF OpOf, Call, CharOp, DescOp, LinkOp
  <1>4. ASSUME OpOf(r) \in DescOp
        PROVE  ask[r].attr \in Desc
    BY <1>1, <1>4 DEF OpOf, Call, CharOp, DescOp, LinkOp
  <1>5. SlotOf(r) \in Slot => OpOf(r) \in CharOp \cup DescOp
    BY DEF SlotOf, Slot
  <1> QED BY <1>1, <1>2, <1>3, <1>4, <1>5, AttOpTypes DEF SlotOf, Slot

\* To answer one future and drop others keeps the types of both.
LEMMA SettleType ==
    ASSUME TypeOK, NEW r, NEW rep \in ReplyType, NEW S, Settle(r, rep, S)
    PROVE  st' \in [Req -> Status] /\ reply' \in [Req -> ReplyType]
  <1>1. Twice \in ReplyType
    BY DEF Twice, Reply, ReplyType, ReplyKind
  <1> QED BY <1>1 DEF Settle, TypeOK, ReplyType, Status

\* The replies the thread makes are replies.
LEMMA ReplyTypes ==
    /\ NoReply \in ReplyType
    /\ \A k \in ReplyKind, q \in Req \cup {NoReq}, A \in SUBSET Attr : Reply(k, q, A) \in ReplyType
BY DEF NoReply, Reply, ReplyType, ReplyKind

\* The death of the thread keeps the types.
LEMMA PanicType ==
    ASSUME TypeOK, NEW why \in PanicReason, Panic(why)
    PROVE  TypeOK'
BY EmptyIsSeq DEF TypeOK, DelegateTypeOK, Panic, Status, NoTree

\* What the event in front is about: a device, and an attribute of the kind its name says.
LEMMA EventShape ==
    ASSUME TypeOK, NEW kind, Occurs(kind)
    PROVE  /\ Head(delegate) \in CentralDelegateEvent
           /\ Head(delegate).dev \in Device
           /\ Head(delegate).req \in Req \cup {NoReq}
           /\ Tail(delegate) \in Seq(CentralDelegateEvent)
           /\ kind \in ServiceEvent => Head(delegate).attr \in Service
           /\ kind \in CharEvent => Head(delegate).attr \in Char
           /\ kind \in DescEvent => Head(delegate).attr \in Desc
  <1>1. Head(delegate) \in CentralDelegateEvent /\ Tail(delegate) \in Seq(CentralDelegateEvent)
    BY DEF Occurs, TypeOK, DelegateTypeOK
  <1>2. Head(delegate).ev = kind
    BY DEF Occurs
  <1> QED BY <1>1, <1>2 DEF CentralDelegateEvent, ServiceEvent, CharEvent, DescEvent, DeviceEvent

\* The messages behind the first one are messages.
LEMMA MessageShape ==
    ASSUME TypeOK, messages # <<>>
    PROVE  Tail(messages) \in Seq(Req \cup ScanMessage)
BY DEF TypeOK

\* An event about something unknown keeps the types.
LEMMA IgnoreType ==
    ASSUME TypeOK, NEW kind, Occurs(kind), Ignore
    PROVE  TypeOK'
BY EventShape DEF TypeOK, DelegateTypeOK, Ignore, Consume, futureVars

\* The parts of TypeOK that no handler changes by more than one place.
LEMMA QueueTypes ==
    ASSUME TypeOK
    PROVE  /\ \A k \in Slot, r \in Req : [future_state EXCEPT ![k] = Push(@, r)] \in [Slot -> Seq(Req)]
           /\ \A k \in Slot : future_state[k] # <<>> =>
                 /\ Head(future_state[k]) \in Req
                 /\ Pop(k) \in [Slot -> Seq(Req)]
           /\ \A K : [k \in Slot |-> IF k \in K THEN <<>> ELSE future_state[k]] \in [Slot -> Seq(Req)]
           /\ \A d \in Device : /\ Take(connected_future_state, d) \in [Device -> Req \cup {NoReq}]
                               /\ Take(disconnected_future_state, d) \in [Device -> Req \cup {NoReq}]
BY EmptyIsSeq DEF TypeOK, Push, Pop, Take

\* The handlers of messages keep the types.
LEMMA MessageType ==
    ASSUME TypeOK, HandleMessage
    PROVE  TypeOK'
  <1>0. Tail(messages) \in Seq(Req \cup ScanMessage)
    BY MessageShape DEF HandleMessage, Scan, RequestOnAttribute, WriteWithoutResponse,
       ConnectPeripheral, DisconnectPeripheral, IsConnected, Receive
  <1>1. CASE Scan
    BY <1>0, <1>1 DEF TypeOK, DelegateTypeOK, Scan, futureVars
  <1>2. ASSUME NEW r \in Req, RequestOnAttribute(r)
        PROVE  TypeOK'
    <2>1. OpOf(r) \in CharOp \cup DescOp /\ messages' = Tail(messages)
      BY <1>2 DEF RequestOnAttribute, Receive
    <2>2. cb' \in CbType
      BY <1>2, <2>1, CallShape, RequestTypes DEF RequestOnAttribute, TypeOK, DelegateTypeOK, CbType
    <2>3. future_state' \in [Slot -> Seq(Req)]
      <3>1. SlotOf(r) \in Slot
        BY <2>1, CallShape
      <3>2. [future_state EXCEPT ![SlotOf(r)] = Push(@, r)] \in [Slot -> Seq(Req)]
        BY <3>1, QueueTypes
      <3>3. \/ future_state' = [future_state EXCEPT ![SlotOf(r)] = Push(@, r)]
            \/ future_state' = future_state
        BY <1>2 DEF RequestOnAttribute
      <3> QED BY <3>2, <3>3 DEF TypeOK
    <2>4. st' \in [Req -> Status]
      BY <1>2 DEF RequestOnAttribute, TypeOK, Status
    <2>5. hasty' \subseteq Device
      BY <1>2, CallShape DEF RequestOnAttribute, Notice, TypeOK
    <2> QED BY <1>0, <1>2, <2>1, <2>2, <2>3, <2>4, <2>5
            DEF RequestOnAttribute, TypeOK, DelegateTypeOK, CbType
  <1>3. ASSUME NEW r \in Req, WriteWithoutResponse(r)
        PROVE  TypeOK'
    <2>1. Reply("Ok", r, {}) \in ReplyType
      BY ReplyTypes DEF ReplyKind
    <2>2. st' \in [Req -> Status] /\ reply' \in [Req -> ReplyType]
      BY <1>3, <2>1, ReplyTypes, SettleType DEF WriteWithoutResponse
    <2> QED BY <1>0, <1>3, <2>2
            DEF WriteWithoutResponse, Receive, TypeOK, DelegateTypeOK, ReplyType, futureVars
  <1>4. ASSUME NEW r \in Req, ConnectPeripheral(r)
        PROVE  TypeOK'
    <2>1. cb' \in CbType
      BY <1>4, CallShape, RequestTypes DEF ConnectPeripheral, TypeOK, DelegateTypeOK, CbType
    <2>2. connected_future_state' \in [Device -> Req \cup {NoReq}]
      BY <1>4, CallShape DEF ConnectPeripheral, TypeOK
    <2>3. st' \in [Req -> Status]
      BY <1>4 DEF ConnectPeripheral, TypeOK, Status
    <2>4. hasty' \subseteq Device
      BY <1>4, CallShape DEF ConnectPeripheral, Notice, TypeOK
    <2> QED BY <1>0, <1>4, <2>1, <2>2, <2>3, <2>4
            DEF ConnectPeripheral, Receive, TypeOK, DelegateTypeOK, CbType
  <1>5. ASSUME NEW r \in Req, DisconnectPeripheral(r)
        PROVE  TypeOK'
    <2>1. cb' \in CbType
      BY <1>5, CallShape, RequestTypes DEF DisconnectPeripheral, TypeOK, DelegateTypeOK, CbType
    <2>2. disconnected_future_state' \in [Device -> Req \cup {NoReq}]
      BY <1>5, CallShape DEF DisconnectPeripheral, TypeOK
    <2>3. st' \in [Req -> Status]
      BY <1>5 DEF DisconnectPeripheral, TypeOK, Status
    <2> QED BY <1>0, <1>5, <2>1, <2>2, <2>3
            DEF DisconnectPeripheral, Receive, TypeOK, DelegateTypeOK, CbType
  <1>6. ASSUME NEW r \in Req, IsConnected(r)
        PROVE  TypeOK'
    <2>1. \A s \in {"State(Connected)", "State(_)"} : Reply(s, NoReq, {}) \in ReplyType
      BY ReplyTypes DEF ReplyKind
    <2>2. st' \in [Req -> Status] /\ reply' \in [Req -> ReplyType]
      BY <1>6, <2>1, ReplyTypes, SettleType DEF IsConnected
    <2> QED BY <1>0, <1>6, <2>2
            DEF IsConnected, Receive, TypeOK, DelegateTypeOK, ReplyType, futureVars
  <1> QED BY <1>1, <1>2, <1>3, <1>4, <1>5, <1>6 DEF HandleMessage

\* A result of the discovery keeps the types, whatever tree it makes.
LEMMA DiscoveredType ==
    ASSUME TypeOK, NEW kind, Occurs(kind), NEW d \in Device, NEW K, NEW check \in BOOLEAN,
           NEW t \in [has : SUBSET Attr, discovered : SUBSET Attr],
           Discovered(d, t, K, check)
    PROVE  TypeOK'
  <1> DEFINE all == check /\ Complete(t)
             r == connected_future_state[d]
             why == "We should still have a future at this point!"
  <1>1. CASE all /\ r = NoReq
    <2>1. Panic(why)
      BY <1>1 DEF Discovered
    <2> QED BY <2>1, PanicType DEF PanicReason
  <1>2. CASE ~ (all /\ r = NoReq)
    <2>1. Reply("Connected", NoReq, t.has) \in ReplyType
      BY ReplyTypes DEF ReplyKind
    <2>2. st' \in [Req -> Status] /\ reply' \in [Req -> ReplyType]
      BY <1>2, <2>1, SettleType DEF Discovered
    <2>3. connected_future_state' \in [Device -> Req \cup {NoReq}]
      <3>1. \/ connected_future_state' = connected_future_state
            \/ connected_future_state' = Take(connected_future_state, d)
        BY <1>2 DEF Discovered
      <3>2. connected_future_state \in [Device -> Req \cup {NoReq}]
        BY DEF TypeOK
      <3> QED BY <3>1, <3>2 DEF Take
    <2>4. future_state' \in [Slot -> Seq(Req)]
      <3>1. future_state' = [k \in Slot |-> IF k \in K THEN <<>> ELSE future_state[k]]
        BY <1>2 DEF Discovered
      <3> QED BY <3>1, QueueTypes
    <2>5. /\ tree' \in [Device -> [has : SUBSET Attr, discovered : SUBSET Attr]]
          /\ handles' \in [Device -> SUBSET Attr]
          /\ delegate' \in Seq(CentralDelegateEvent)
      <3>1. delegate' \in Seq(CentralDelegateEvent)
        BY <1>2, EventShape DEF Discovered, Consume
      <3>2. tree' \in [Device -> [has : SUBSET Attr, discovered : SUBSET Attr]]
        BY <1>2 DEF Discovered, TypeOK
      <3>3. t.has \in SUBSET Attr
        OBVIOUS
      <3>4. handles' = handles \/ handles' = [handles EXCEPT ![d] = @ \cup t.has]
        BY <1>2 DEF Discovered
      <3>5. handles' \in [Device -> SUBSET Attr]
        BY <3>3, <3>4 DEF TypeOK
      <3> QED BY <3>1, <3>2, <3>5
    <2> QED BY <1>2, <2>2, <2>3, <2>4, <2>5 DEF Discovered, TypeOK, DelegateTypeOK, ReplyType
  <1> QED BY <1>1, <1>2

\* The answer of an attribute operation keeps the types.
LEMMA FulfilType ==
    ASSUME TypeOK, NEW kind, Occurs(kind), NEW k \in Slot, NEW a, NEW rep \in ReplyKind,
           Fulfil(k, a, rep)
    PROVE  TypeOK'
  <1> DEFINE e == Head(delegate)
  <1>1. CASE ~ Has(e.dev, a)
    BY <1>1, IgnoreType DEF Fulfil
  <1>2. CASE Has(e.dev, a) /\ future_state[k] = <<>>
    BY <1>2, PanicType DEF Fulfil, PanicReason
  <1>3. CASE Has(e.dev, a) /\ future_state[k] # <<>>
    <2>1. Reply(rep, e.req, {}) \in ReplyType
      BY ReplyTypes, EventShape
    <2>2. st' \in [Req -> Status] /\ reply' \in [Req -> ReplyType]
      BY <1>3, <2>1, SettleType DEF Fulfil
    <2>3. future_state' \in [Slot -> Seq(Req)]
      BY <1>3, QueueTypes DEF Fulfil
    <2>4. delegate' \in Seq(CentralDelegateEvent)
      BY <1>3, EventShape DEF Fulfil, Consume
    <2> QED BY <1>3, <2>2, <2>3, <2>4 DEF Fulfil, TypeOK, DelegateTypeOK, ReplyType
  <1> QED BY <1>1, <1>2, <1>3

TreeType == [has : SUBSET Attr, discovered : SUBSET Attr]

\* The layout lists services, characteristics and descriptors.
LEMMA LayoutTypes ==
    /\ \A d \in Device : Range(ServicesOf[d]) \subseteq Service
    /\ \A s \in Service : Range(CharsOf[s]) \subseteq Char
    /\ \A c \in Char : Range(DescsOf[c]) \subseteq Desc
BY DelegateAssumption DEF Range

\* The handlers of events keep the types.
LEMMA EventType ==
    ASSUME TypeOK, HandleEvent
    PROVE  TypeOK'
  <1> DEFINE e == Head(delegate)
             d == e.dev
  <1>1. CASE OnDiscoveredPeripheral
    <2>1. Occurs("DiscoveredPeripheral")
      BY <1>1 DEF OnDiscoveredPeripheral
    <2>2. d \in Device /\ delegate' \in Seq(CentralDelegateEvent)
      BY <1>1, <2>1, EventShape DEF OnDiscoveredPeripheral, Consume
    <2> QED BY <1>1, <2>2 DEF OnDiscoveredPeripheral, TypeOK, DelegateTypeOK, Attr, futureVars
  <1>2. CASE OnDiscoveredServices
    <2> DEFINE t == [has |-> Range(ServicesOf[d]), discovered |-> {}]
    <2>1. Occurs("DiscoveredServices")
      BY <1>2 DEF OnDiscoveredServices
    <2>2. d \in Device
      BY <2>1, EventShape
    <2>3. t \in TreeType
      BY <2>2, LayoutTypes DEF TreeType, Attr
    <2>4. Ignore \/ Discovered(d, t, SlotsOf(d, Attr), FALSE)
      BY <1>2 DEF OnDiscoveredServices
    <2> QED BY <2>1, <2>2, <2>3, <2>4, IgnoreType, DiscoveredType DEF TreeType
  <1>3. CASE OnDiscoveredCharacteristics
    <2> DEFINE s     == e.attr
               chars == Range(CharsOf[s])
               below == chars \cup UNION {Range(DescsOf[c]) : c \in chars}
               new   == chars \cup UNION {Range(DescsOf[c]) : c \in chars \cap cb[d].cached}
               t     == [has |-> (tree[d].has \ below) \cup new,
                         discovered |-> (tree[d].discovered \ chars)
                                           \cup (IF chars = {} THEN {s} ELSE {})]
               why   == "Got characteristics for a service we don't know about"
    <2>1. Occurs("DiscoveredCharacteristics")
      BY <1>3 DEF OnDiscoveredCharacteristics
    <2>2. d \in Device /\ s \in Service
      BY <2>1, EventShape DEF ServiceEvent
    <2>3. chars \subseteq Char /\ new \subseteq Char \cup Desc
      BY <2>2, LayoutTypes
    <2>4. tree[d].has \subseteq Attr /\ tree[d].discovered \subseteq Attr
      BY <2>2 DEF TypeOK
    <2>5. t \in TreeType
      BY <2>2, <2>3, <2>4 DEF TreeType, Attr
    <2>6. Ignore \/ Panic(why) \/ Discovered(d, t, SlotsOf(d, below), chars = {})
      BY <1>3 DEF OnDiscoveredCharacteristics
    <2> QED BY <2>1, <2>2, <2>5, <2>6, IgnoreType, DiscoveredType, PanicType DEF TreeType, PanicReason
  <1>4. CASE OnDiscoveredCharacteristicDescriptors
    <2> DEFINE c     == e.attr
               s     == ServiceOf[c]
               descs == Range(DescsOf[c])
               done  == tree[d].discovered \cup {c}
               full  == Range(CharsOf[s]) \subseteq done
               t     == [has |-> tree[d].has \cup descs,
                         discovered |-> IF full THEN done \cup {s} ELSE done]
               why   == "Got descriptors for something we don't know about"
    <2>1. Occurs("DiscoveredCharacteristicDescriptors")
      BY <1>4 DEF OnDiscoveredCharacteristicDescriptors
    <2>2. d \in Device /\ c \in Char
      BY <2>1, EventShape DEF CharEvent
    <2>3. descs \subseteq Desc /\ s \in Service
      BY <2>2, LayoutTypes, DelegateAssumption
    <2>4. tree[d].has \subseteq Attr /\ tree[d].discovered \subseteq Attr
      BY <2>2 DEF TypeOK
    <2>5. t \in TreeType
      BY <2>2, <2>3, <2>4 DEF TreeType, Attr
    <2>6. Ignore \/ Panic(why) \/ Discovered(d, t, SlotsOf(d, descs), full)
      BY <1>4 DEF OnDiscoveredCharacteristicDescriptors
    <2>7. full \in BOOLEAN
      OBVIOUS
    <2> HIDE DEF t, full
    <2> QED BY <2>1, <2>2, <2>5, <2>6, <2>7, IgnoreType, DiscoveredType, PanicType DEF TreeType, PanicReason
  <1>5. CASE OnPeripheralConnect
    BY <1>5, IgnoreType DEF OnPeripheralConnect
  <1>6. CASE OnPeripheralConnectionFailed
    <2> DEFINE r == connected_future_state[d]
               why == "connected_future_state.take().unwrap()"
    <2>1. Occurs("ConnectionFailed")
      BY <1>6 DEF OnPeripheralConnectionFailed
    <2>2. d \in Device /\ Tail(delegate) \in Seq(CentralDelegateEvent)
      BY <2>1, EventShape
    <2>3. CASE Ignore
      BY <2>1, <2>3, IgnoreType
    <2>4. CASE Panic(why)
      BY <2>4, PanicType DEF PanicReason
    <2>5. CASE ~ Ignore /\ ~ Panic(why)
      <3>1. Settle(r, Reply("Err", NoReq, {}), {}) /\ Consume
            /\ connected_future_state' = Take(connected_future_state, d)
            /\ UNCHANGED <<cb, scanning, panic, ask, messages, handles, known, tree,
                           hasty, disconnected_future_state, future_state>>
        BY <1>6, <2>5 DEF OnPeripheralConnectionFailed
      <3>2. st' \in [Req -> Status] /\ reply' \in [Req -> ReplyType]
        BY <3>1, SettleType, ReplyTypes DEF ReplyKind
      <3>3. connected_future_state' \in [Device -> Req \cup {NoReq}]
        BY <2>2, <3>1, QueueTypes
      <3> QED BY <2>2, <3>1, <3>2, <3>3 DEF TypeOK, DelegateTypeOK, ReplyType, Consume
    <2> QED BY <2>3, <2>4, <2>5
  <1>7. CASE OnPeripheralDisconnect
    <2> DEFINE r == disconnected_future_state[d]
               S == Held(SlotsOf(d, Attr)) \cup Slots({d})
    <2>1. Occurs("DisconnectedDevice")
      BY <1>7 DEF OnPeripheralDisconnect
    <2>2. d \in Device /\ Tail(delegate) \in Seq(CentralDelegateEvent)
      BY <2>1, EventShape
    <2>3. CASE d \notin known
      BY <1>7, <2>1, <2>3, IgnoreType DEF OnPeripheralDisconnect
    <2>4. CASE d \in known
      <3>1. Settle(r, Reply("Ok", NoReq, {}), S)
        BY <1>7, <2>4 DEF OnPeripheralDisconnect
      <3>2. st' \in [Req -> Status] /\ reply' \in [Req -> ReplyType]
        BY <3>1, SettleType, ReplyTypes DEF ReplyKind
      <3>3. /\ connected_future_state' \in [Device -> Req \cup {NoReq}]
            /\ disconnected_future_state' \in [Device -> Req \cup {NoReq}]
        BY <1>7, <2>2, <2>4, QueueTypes DEF OnPeripheralDisconnect
      <3>4. future_state' = [k \in Slot |-> IF k \in SlotsOf(d, Attr) THEN <<>> ELSE future_state[k]]
        BY <1>7, <2>4 DEF OnPeripheralDisconnect
      <3>5. future_state' \in [Slot -> Seq(Req)]
        BY <3>4, QueueTypes
      <3>6. tree' \in [Device -> TreeType] /\ known' \subseteq Device
        BY <1>7, <2>4 DEF OnPeripheralDisconnect, TypeOK, TreeType, NoTree
      <3> QED BY <1>7, <2>2, <2>4, <3>2, <3>3, <3>5, <3>6
              DEF OnPeripheralDisconnect, TypeOK, DelegateTypeOK, ReplyType, TreeType, Consume
    <2> QED BY <2>3, <2>4
  <1>8. CASE OnCharacteristicSubscribed
    <2>1. Occurs("CharacteristicSubscribed")
          /\ Fulfil(<<d, "subscribe", e.attr>>, e.attr, "Ok")
      BY <1>8 DEF OnCharacteristicSubscribed
    <2>2. <<d, "subscribe", e.attr>> \in Slot
      BY <2>1, EventShape DEF CharEvent, Slot, CharOp
    <2> QED BY <2>1, <2>2, FulfilType DEF ReplyKind
  <1>9. CASE OnCharacteristicUnsubscribed
    <2>1. Occurs("CharacteristicUnsubscribed")
          /\ Fulfil(<<d, "unsubscribe", e.attr>>, e.attr, "Ok")
      BY <1>9 DEF OnCharacteristicUnsubscribed
    <2>2. <<d, "unsubscribe", e.attr>> \in Slot
      BY <2>1, EventShape DEF CharEvent, Slot, CharOp
    <2> QED BY <2>1, <2>2, FulfilType DEF ReplyKind
  <1>10. CASE OnCharacteristicRead
    <2>1. Occurs("CharacteristicNotified")
          /\ (Ignore \/ Fulfil(<<d, "read", e.attr>>, e.attr, "ReadResult"))
      BY <1>10 DEF OnCharacteristicRead
    <2>2. <<d, "read", e.attr>> \in Slot
      BY <2>1, EventShape DEF CharEvent, Slot, CharOp
    <2> QED BY <2>1, <2>2, FulfilType, IgnoreType DEF ReplyKind
  <1>11. CASE OnCharacteristicWritten
    <2>1. Occurs("CharacteristicWritten")
          /\ Fulfil(<<d, "write", e.attr>>, e.attr, "Ok")
      BY <1>11 DEF OnCharacteristicWritten
    <2>2. <<d, "write", e.attr>> \in Slot
      BY <2>1, EventShape DEF CharEvent, Slot, CharOp
    <2> QED BY <2>1, <2>2, FulfilType DEF ReplyKind
  <1>12. CASE OnDescriptorRead
    <2>1. Occurs("DescriptorNotified")
          /\ Fulfil(<<d, "read", CharOf[e.attr]>>, e.attr, "ReadResult")
      BY <1>12 DEF OnDescriptorRead
    <2>2. d \in Device /\ CharOf[e.attr] \in Char
      BY <2>1, EventShape, DelegateAssumption DEF DescEvent
    <2>3. <<d, "read", CharOf[e.attr]>> \in Slot
      BY <2>2 DEF Slot, CharOp
    <2> QED BY <2>1, <2>3, FulfilType DEF ReplyKind
  <1>13. CASE OnDescriptorWritten
    <2>1. Occurs("DescriptorWritten")
          /\ Fulfil(<<d, "write_descriptor", e.attr>>, e.attr, "Ok")
      BY <1>13 DEF OnDescriptorWritten
    <2>2. <<d, "write_descriptor", e.attr>> \in Slot
      BY <2>1, EventShape DEF DescEvent, Slot, DescOp
    <2> QED BY <2>1, <2>2, FulfilType DEF ReplyKind
  <1> QED BY <1>1, <1>2, <1>3, <1>4, <1>5, <1>6, <1>7, <1>8, <1>9, <1>10, <1>11, <1>12, <1>13
          DEF HandleEvent

\* The first state has the types.
LEMMA InitType == Init => TypeOK
  <1> SUFFICES ASSUME Init
               PROVE  TypeOK
    OBVIOUS
  <1>1. DelegateTypeOK
    BY EmptyIsSeq DEF Init, DelegateInit, DelegateTypeOK, Unplugged
  <1> QED BY <1>1, EmptyIsSeq, ReplyTypes
          DEF Init, DelegateInit, TypeOK, PanicReason, Status, NoTree, ReplyType

\* Every step keeps them.
LEMMA StepType == TypeOK /\ [Next]_vars => TypeOK'
  <1> SUFFICES ASSUME TypeOK, [Next]_vars
               PROVE  TypeOK'
    OBVIOUS
  <1>1. CASE ClientScans
    <2>1. messages' \in Seq(Req \cup ScanMessage)
      BY <1>1, ScanAssumption DEF ClientScans, TypeOK
    <2> QED BY <1>1, <2>1 DEF ClientScans, TypeOK, DelegateTypeOK, futureVars
  <1>2. ASSUME NEW r \in Req, ClientCalls(r)
        PROVE  TypeOK'
    <2>1. messages' \in Seq(Req \cup ScanMessage) /\ st' \in [Req -> Status]
      <3>1. Append(messages, r) \in Seq(Req \cup ScanMessage)
        BY DEF TypeOK
      <3>2. messages' = Append(messages, r) \/ messages' = messages
        BY <1>2 DEF ClientCalls
      <3>3. st' \in [Req -> Status]
        BY <1>2 DEF ClientCalls, TypeOK, Status
      <3> QED BY <3>1, <3>2, <3>3 DEF TypeOK
    <2> QED BY <1>2, <2>1 DEF ClientCalls, TypeOK, DelegateTypeOK, futureVars
  <1>3. CASE HandleMessage
    BY <1>3, MessageType
  <1>4. CASE HandleEvent
    BY <1>4, EventType
  <1>5. CASE Framework
    <2>1. PICK d \in Device : Callback(d) /\ UNCHANGED internalVars
      BY <1>5 DEF Framework
    <2>2. DelegateTypeOK' /\ panic' = panic
      BY <2>1, CallbackType DEF TypeOK, Callback
    <2> QED BY <2>1, <2>2 DEF TypeOK, internalVars, futureVars
  <1>6. CASE UNCHANGED vars
    BY <1>6 DEF vars, delegateVars, internalVars, futureVars, TypeOK, DelegateTypeOK
  <1> QED BY <1>1, <1>2, <1>3, <1>4, <1>5, <1>6 DEF Next

\* The types of the framework, of the event channel and of the thread's whole state hold
\* for every number of devices, attributes and calls: no handler gives an event of the
\* delegate to a queue of the wrong kind of attribute.
THEOREM TypeCorrect == Spec => []TypeOK
BY InitType, StepType, PTL DEF Spec

----------------------------------------------------------------------------
(* Every future in one place. *)

\* A queue that gains a future has the others besides, and no duplicate if it had none.
LEMMA AppendRange ==
    ASSUME NEW T, NEW s \in Seq(T), NEW y \in T
    PROVE  /\ Range(Append(s, y)) = Range(s) \cup {y}
           /\ Distinct(s) /\ y \notin Range(s) => Distinct(Append(s, y))
  <1> DEFINE a == Append(s, y)
             n == Len(s)
  <1>1. /\ n \in Nat /\ DOMAIN s = 1..n /\ DOMAIN a = 1..(n + 1) /\ a[n + 1] = y
        /\ \A i \in 1..n : a[i] = s[i]
    OBVIOUS
  <1> HIDE DEF a, n
  <1>2. \A i \in 1..(n + 1) : i \in 1..n \/ i = n + 1
    BY <1>1
  <1>3. 1..n \subseteq 1..(n + 1) /\ n + 1 \in 1..(n + 1)
    BY <1>1
  <1>4. Range(a) = Range(s) \cup {y}
    <2>1. Range(a) \subseteq Range(s) \cup {y}
      BY <1>1, <1>2 DEF Range
    <2>2. Range(s) \subseteq Range(a) /\ y \in Range(a)
      BY <1>1, <1>3 DEF Range
    <2> QED BY <2>1, <2>2
  <1>5. ASSUME Distinct(s), y \notin Range(s)
        PROVE  Distinct(a)
    BY <1>1, <1>2, <1>5 DEF Range, Distinct
  <1> QED BY <1>4, <1>5 DEF a

\* A queue that loses its oldest future has the others left.
LEMMA TailRange ==
    ASSUME NEW T, NEW s \in Seq(T), s # <<>>
    PROVE  /\ Range(s) = Range(Tail(s)) \cup {Head(s)}
           /\ Head(s) \in Range(s)
           /\ Distinct(s) => Distinct(Tail(s)) /\ Head(s) \notin Range(Tail(s))
  <1> DEFINE h == Head(s)
             u == Tail(s)
             n == Len(s)
  <1>1. /\ n \in Nat \ {0} /\ DOMAIN s = 1..n /\ h = s[1]
        /\ DOMAIN u = 1..(n - 1) /\ \A i \in 1..(n - 1) : u[i] = s[i + 1]
    OBVIOUS
  <1> HIDE DEF h, u, n
  <1>2. ASSUME NEW i \in 1..n, i # 1
        PROVE  i - 1 \in 1..(n - 1) /\ s[i] = u[i - 1]
    BY <1>1, <1>2
  <1>3. \A i \in 1..(n - 1) : i + 1 \in 1..n
    BY <1>1
  <1>4. Range(s) \subseteq Range(u) \cup {h}
    BY <1>1, <1>2 DEF Range
  <1>5. Range(u) \cup {h} \subseteq Range(s) /\ h \in Range(s)
    BY <1>1, <1>3 DEF Range
  <1>6. ASSUME Distinct(s)
        PROVE  Distinct(u) /\ h \notin Range(u)
    <2>1. \A i, j \in 1..n : s[i] = s[j] => i = j
      BY <1>1, <1>6 DEF Distinct
    <2>2. ASSUME NEW i \in 1..(n - 1), NEW j \in 1..(n - 1), u[i] = u[j]
          PROVE  i = j
      <3>1. i + 1 = j + 1
        BY <1>1, <1>3, <2>1, <2>2
      <3> QED BY <1>1, <3>1
    <2>3. ASSUME NEW i \in 1..(n - 1)
          PROVE  u[i] # h
      <3>1. i + 1 # 1 /\ 1 \in 1..n
        BY <1>1
      <3> QED BY <1>1, <1>3, <2>1, <3>1
    <2> QED BY <1>1, <2>2, <2>3 DEF Range, Distinct
  <1> QED BY <1>4, <1>5, <1>6 DEF h, u

\* An empty queue has no future.
LEMMA EmptyRange == Range(<<>>) = {} /\ Distinct(<<>>)
BY DEF Range, Distinct

\* What a waiting future's place says of its call.
LEMMA Placed ==
    ASSUME IInv
    PROVE  /\ \A k \in Slot : \A q \in Range(future_state[k]) :
                 /\ q \in Req /\ st[q] = "held" /\ SlotOf(q) = k
                 /\ OpOf(q) \in CharOp \cup DescOp
           /\ \A d \in Device : connected_future_state[d] # NoReq =>
                 LET q == connected_future_state[d]
                 IN  q \in Req /\ st[q] = "held" /\ ask[q].dev = d /\ OpOf(q) = "connect"
           /\ \A d \in Device : disconnected_future_state[d] # NoReq =>
                 LET q == disconnected_future_state[d]
                 IN  q \in Req /\ st[q] = "held" /\ ask[q].dev = d /\ OpOf(q) = "disconnect"
  <1>1. ASSUME NEW k \in Slot, NEW q \in Range(future_state[k])
        PROVE  /\ q \in Req /\ st[q] = "held" /\ SlotOf(q) = k
               /\ OpOf(q) \in CharOp \cup DescOp
    <2>1. q \in Req
      BY <1>1 DEF IInv, TypeOK, Range
    <2>2. st[q] = "held" /\ SlotOf(q) = k
      BY <1>1 DEF IInv, FutureInOnePlace, QueuesHold
    <2> QED BY <2>1, <2>2, CallShape DEF IInv
  <1>2. ASSUME NEW d \in Device, connected_future_state[d] # NoReq
        PROVE  LET q == connected_future_state[d]
               IN  q \in Req /\ st[q] = "held" /\ ask[q].dev = d /\ OpOf(q) = "connect"
    BY <1>2 DEF IInv, TypeOK, FutureInOnePlace, LinkSlotHolds
  <1>3. ASSUME NEW d \in Device, disconnected_future_state[d] # NoReq
        PROVE  LET q == disconnected_future_state[d]
               IN  q \in Req /\ st[q] = "held" /\ ask[q].dev = d /\ OpOf(q) = "disconnect"
    BY <1>3 DEF IInv, TypeOK, FutureInOnePlace, LinkSlotHolds
  <1> QED BY <1>1, <1>2, <1>3

\* The link operations are not operations on attributes, and neither is the one without a response.
LEMMA OpsDiffer ==
    /\ "connect" \notin CharOp \cup DescOp
    /\ "disconnect" \notin CharOp \cup DescOp
    /\ "is_connected" \notin CharOp \cup DescOp
    /\ "write_without_response" \notin CharOp \cup DescOp
BY DEF CharOp, DescOp

\* No future is both in a slot and in a queue.
LEMMA SlotFuture ==
    ASSUME IInv, NEW d \in Device, NEW q \in Req, OpOf(q) \in CharOp \cup DescOp
    PROVE  connected_future_state[d] # q /\ disconnected_future_state[d] # q
  <1>1. q # NoReq
    BY DelegateAssumption
  <1>2. ASSUME connected_future_state[d] = q
        PROVE  FALSE
    <2>1. OpOf(q) = "connect"
      BY <1>1, <1>2, Placed
    <2> QED BY <2>1, OpsDiffer
  <1>3. ASSUME disconnected_future_state[d] = q
        PROVE  FALSE
    <2>1. OpOf(q) = "disconnect"
      BY <1>1, <1>3, Placed
    <2> QED BY <2>1, OpsDiffer
  <1> QED BY <1>2, <1>3

\* A step that touches no future keeps both parts of the invariant.
LEMMA PlacesUnchanged ==
    ASSUME IInv, UNCHANGED <<ask, st, reply, messages, futureVars>>
    PROVE  FutureInOnePlace' /\ ReplyFits'
BY DEF IInv, futureVars, FutureInOnePlace, ReplyFits, QueuesHold, LinkSlotHolds, MessagesHold,
       HeldSomewhere, SlotOf, OpOf, Fits

\* The message channel holds the same futures if it and the set of sent ones are the same.
LEMMA MessagesUnchanged ==
    ASSUME IInv, messages' = messages,
           \A q \in Req : st'[q] = "sent" <=> st[q] = "sent"
    PROVE  MessagesHold'
BY DEF IInv, FutureInOnePlace, MessagesHold

\* A future that is taken from the message channel is no longer sent, and was in no other place.
LEMMA Received ==
    ASSUME IInv, NEW r \in Req, NEW ops, Receive(r, ops)
    PROVE  /\ st[r] = "sent" /\ reply[r] = NoReply /\ OpOf(r) \in ops
           /\ (st'[r] # "sent" /\ \A q \in Req \ {r} : st'[q] = "sent" <=> st[q] = "sent")
                 => MessagesHold'
  <1> DEFINE M == Req \cup ScanMessage
  <1>1. messages \in Seq(M) /\ messages # <<>> /\ r = Head(messages) /\ messages' = Tail(messages)
    BY DEF IInv, TypeOK, Receive
  <1>2. Range(messages) = Range(messages') \cup {r} /\ r \in Range(messages)
    BY <1>1, TailRange
  <1>3. st[r] = "sent" /\ reply[r] = NoReply
    BY <1>2 DEF IInv, FutureInOnePlace, MessagesHold, ReplyFits
  <1>4. /\ Len(messages) \in Nat \ {0} /\ DOMAIN messages = 1..Len(messages) /\ r = messages[1]
        /\ DOMAIN messages' = 1..(Len(messages) - 1)
        /\ \A i \in 1..(Len(messages) - 1) : messages'[i] = messages[i + 1]
    BY <1>1
  <1>5. \A i, j \in DOMAIN messages : messages[i] = messages[j] /\ messages[i] \in Req => i = j
    BY DEF IInv, FutureInOnePlace, MessagesHold
  <1>6. \A i, j \in DOMAIN messages' : messages'[i] = messages'[j] /\ messages'[i] \in Req => i = j
    BY <1>4, <1>5
  <1>7. r \notin Range(messages')
    BY <1>4, <1>5 DEF Range
  <1>8. ASSUME st'[r] # "sent", \A q \in Req \ {r} : st'[q] = "sent" <=> st[q] = "sent"
        PROVE  MessagesHold'
    BY <1>2, <1>6, <1>7, <1>8 DEF IInv, FutureInOnePlace, MessagesHold
  <1> QED BY <1>3, <1>8 DEF Receive

SlotsHold == LinkSlotHolds(connected_future_state, "connect")
               /\ LinkSlotHolds(disconnected_future_state, "disconnect")

\* The futures of X leave their places, and no other future moves.
LEMMA Leave ==
    ASSUME IInv, ask' = ask, NEW X,
           \A q \in Req : st'[q] = "held" <=> (st[q] = "held" /\ q \notin X),
           \A k \in Slot : /\ Distinct(future_state'[k])
                          /\ Range(future_state'[k]) = Range(future_state[k]) \ X,
           \A d \in Device :
              /\ connected_future_state'[d] =
                    IF connected_future_state[d] \in X THEN NoReq ELSE connected_future_state[d]
              /\ disconnected_future_state'[d] =
                    IF disconnected_future_state[d] \in X THEN NoReq ELSE disconnected_future_state[d]
    PROVE  QueuesHold' /\ SlotsHold' /\ HeldSomewhere'
  <1>1. \A q \in Req : OpOf(q)' = OpOf(q) /\ SlotOf(q)' = SlotOf(q)
    BY DEF OpOf, SlotOf
  <1>2. QueuesHold'
    <2> SUFFICES ASSUME NEW k \in Slot, NEW q \in Range(future_state'[k])
                 PROVE  st'[q] = "held" /\ SlotOf(q)' = k
      BY DEF QueuesHold
    <2>1. q \in Range(future_state[k]) /\ q \notin X
      OBVIOUS
    <2> QED BY <1>1, <2>1, Placed
  <1>3. SlotsHold'
    <2>1. \A q : OpOf(q)' = OpOf(q)
      BY DEF OpOf
    <2>2. \A d \in Device : /\ connected_future_state[d] \in Req \cup {NoReq}
                           /\ disconnected_future_state[d] \in Req \cup {NoReq}
      BY DEF IInv, TypeOK
    <2>3. /\ LinkSlotHolds(connected_future_state, "connect")
          /\ LinkSlotHolds(disconnected_future_state, "disconnect")
      BY DEF IInv, FutureInOnePlace
    <2>4. LinkSlotHolds(connected_future_state, "connect")'
      BY <2>1, <2>2, <2>3 DEF LinkSlotHolds
    <2>5. LinkSlotHolds(disconnected_future_state, "disconnect")'
      BY <2>1, <2>2, <2>3 DEF LinkSlotHolds
    <2> QED BY <2>4, <2>5 DEF SlotsHold
  <1>4. HeldSomewhere'
    <2> SUFFICES ASSUME NEW q \in Req, st'[q] = "held"
                 PROVE  \/ q = connected_future_state'[ask[q].dev]
                        \/ q = disconnected_future_state'[ask[q].dev]
                        \/ SlotOf(q) \in Slot /\ q \in Range(future_state'[SlotOf(q)])
      BY <1>1 DEF HeldSomewhere
    <2>1. st[q] = "held" /\ q \notin X /\ ask[q].dev \in Device
      BY CallShape DEF IInv
    <2>2. \/ q = connected_future_state[ask[q].dev]
          \/ q = disconnected_future_state[ask[q].dev]
          \/ SlotOf(q) \in Slot /\ q \in Range(future_state[SlotOf(q)])
      BY <2>1 DEF IInv, FutureInOnePlace, HeldSomewhere
    <2> QED BY <2>1, <2>2
  <1> QED BY <1>2, <1>3, <1>4

\* Queues and slots hold what they held if nothing about held futures has changed.
LEMMA NoneLeave ==
    ASSUME IInv, UNCHANGED <<ask, futureVars>>, \A q \in Req : st'[q] = "held" <=> st[q] = "held"
    PROVE  QueuesHold' /\ SlotsHold' /\ HeldSomewhere'
  <1> DEFINE X == {}
  <1>0. ask' = ask
    OBVIOUS
  <1>1. \A q \in Req : st'[q] = "held" <=> (st[q] = "held" /\ q \notin X)
    OBVIOUS
  <1>2. \A k \in Slot : /\ Distinct(future_state'[k])
                       /\ Range(future_state'[k]) = Range(future_state[k]) \ X
    BY DEF futureVars, IInv, FutureInOnePlace, QueuesHold
  <1>3. \A d \in Device :
            /\ connected_future_state'[d] = IF connected_future_state[d] \in X
                                             THEN NoReq ELSE connected_future_state[d]
            /\ disconnected_future_state'[d] = IF disconnected_future_state[d] \in X
                                                THEN NoReq ELSE disconnected_future_state[d]
    BY DEF futureVars
  <1> HIDE DEF X
  <1> QED BY <1>0, <1>1, <1>2, <1>3, Leave

\* To answer a future that has no reply, with one that fits, keeps ReplyFits; only it and those dropped change their place.
LEMMA SettleFits ==
    ASSUME IInv, ask' = ask, NEW r, NEW rep, NEW S, Settle(r, rep, S),
           r \in Req => reply[r] = NoReply /\ rep.kind \in Fits(r),
           \A q \in Req : q \in S => st[q] # "answered"
    PROVE  /\ ReplyFits'
           /\ \A q \in Req : st'[q] = "sent" <=> (st[q] = "sent" /\ q # r /\ q \notin S)
           /\ \A q \in Req : st'[q] = "held" <=> (st[q] = "held" /\ q # r /\ q \notin S)
  <1>1. \A q \in Req : Fits(q)' = Fits(q)
    BY DEF OpOf, Fits
  <1>2. ASSUME NEW q \in Req
        PROVE  /\ st'[q] = IF q = r THEN "answered" ELSE IF q \in S THEN "dropped" ELSE st[q]
               /\ reply'[q] = IF q # r THEN reply[q] ELSE IF reply[q] = NoReply THEN rep ELSE Twice
    BY DEF Settle
  <1>3. \A q \in Req : IF st[q] = "answered" THEN reply[q].kind \in Fits(q)
                                           ELSE reply[q] = NoReply
    BY DEF IInv, ReplyFits
  <1>4. ReplyFits'
    BY <1>1, <1>2, <1>3 DEF ReplyFits
  <1> QED BY <1>2, <1>4

\* The death of the thread drops every future that is somewhere.
LEMMA PanicPlaces ==
    ASSUME IInv, NEW why, Panic(why)
    PROVE  FutureInOnePlace' /\ ReplyFits'
  <1>1. \A q \in Req : st'[q] = IF st[q] \in {"sent", "held"} THEN "dropped" ELSE st[q]
    BY DEF Panic
  <1>2. QueuesHold'
    BY EmptyRange DEF Panic, QueuesHold
  <1>3. SlotsHold'
    BY DEF Panic, SlotsHold, LinkSlotHolds
  <1>4. MessagesHold'
    BY <1>1, EmptyRange DEF Panic, MessagesHold
  <1>5. HeldSomewhere'
    BY <1>1 DEF HeldSomewhere
  <1>6. ReplyFits'
    BY <1>1 DEF Panic, IInv, ReplyFits, Fits, OpOf
  <1> QED BY <1>2, <1>3, <1>4, <1>5, <1>6 DEF FutureInOnePlace, SlotsHold

\* A slot that does not change keeps its future while no held future moves.
LEMMA SlotKept ==
    ASSUME IInv, ask' = ask, \A q \in Req : st[q] = "held" => st'[q] = "held"
    PROVE  /\ connected_future_state' = connected_future_state
                 => LinkSlotHolds(connected_future_state, "connect")'
           /\ disconnected_future_state' = disconnected_future_state
                 => LinkSlotHolds(disconnected_future_state, "disconnect")'
  <1>1. \A q : OpOf(q)' = OpOf(q)
    BY DEF OpOf
  <1>2. \A d \in Device : /\ connected_future_state[d] \in Req \cup {NoReq}
                         /\ disconnected_future_state[d] \in Req \cup {NoReq}
    BY DEF IInv, TypeOK
  <1>3. /\ LinkSlotHolds(connected_future_state, "connect")
        /\ LinkSlotHolds(disconnected_future_state, "disconnect")
    BY DEF IInv, FutureInOnePlace
  <1> QED BY <1>1, <1>2, <1>3 DEF LinkSlotHolds

\* The slots hold what they held if nobody held is answered.
LEMMA SlotsKept ==
    ASSUME IInv, ask' = ask, \A q \in Req : st[q] = "held" => st'[q] = "held",
           UNCHANGED <<connected_future_state, disconnected_future_state>>
    PROVE  SlotsHold'
BY SlotKept DEF SlotsHold

\* The client's future is dropped with the message it came in.
LEMMA DropPlaces ==
    ASSUME IInv, NEW r \in Req, NEW ops, Receive(r, ops), st' = [st EXCEPT ![r] = "dropped"],
           UNCHANGED <<ask, reply, futureVars>>
    PROVE  FutureInOnePlace' /\ ReplyFits'
  <1>1. st[r] = "sent" /\ reply[r] = NoReply
    BY Received
  <1>2. st'[r] = "dropped" /\ \A q \in Req \ {r} : st'[q] = st[q]
    BY DEF IInv, TypeOK
  <1>3. MessagesHold'
    BY <1>2, Received
  <1>4. ReplyFits'
    <2>1. \A q \in Req : Fits(q)' = Fits(q)
      BY DEF Fits, OpOf
    <2> QED BY <1>1, <1>2, <2>1 DEF IInv, ReplyFits
  <1>5. QueuesHold' /\ SlotsHold' /\ HeldSomewhere'
    BY <1>1, <1>2, NoneLeave
  <1> QED BY <1>3, <1>4, <1>5 DEF FutureInOnePlace, SlotsHold

\* A request on an attribute takes its future from the channel to its queue, or drops it.
LEMMA RequestPlaces ==
    ASSUME IInv, NEW r \in Req, RequestOnAttribute(r)
    PROVE  FutureInOnePlace' /\ ReplyFits'
  <1>1. st[r] = "sent" /\ reply[r] = NoReply /\ OpOf(r) \in CharOp \cup DescOp
    BY Received DEF RequestOnAttribute
  <1>2. SlotOf(r) \in Slot
    BY <1>1, CallShape DEF IInv
  <1>3. \A q \in Req : OpOf(q)' = OpOf(q) /\ SlotOf(q)' = SlotOf(q) /\ Fits(q)' = Fits(q)
    BY DEF RequestOnAttribute, OpOf, SlotOf, Fits
  <1>4. \A q \in Req \ {r} : st'[q] = st[q]
    BY DEF RequestOnAttribute, IInv, TypeOK
  <1>5. st'[r] \in {"held", "dropped"}
    BY DEF RequestOnAttribute, IInv, TypeOK
  <1>6. MessagesHold'
    BY <1>4, <1>5, Received DEF RequestOnAttribute
  <1>7. ReplyFits'
    BY <1>1, <1>3, <1>4, <1>5 DEF RequestOnAttribute, IInv, ReplyFits
  <1>8. SlotsHold'
    <2>1. \A q \in Req : st[q] = "held" => st'[q] = "held"
      BY <1>1, <1>4
    <2> QED BY <2>1, SlotsKept DEF RequestOnAttribute
  <1>9. CASE Has(ask[r].dev, ask[r].attr)
    <2>1. st'[r] = "held" /\ future_state' = [future_state EXCEPT ![SlotOf(r)] = Append(@, r)]
      BY <1>9 DEF RequestOnAttribute, Push, IInv, TypeOK
    <2>2. r \notin Range(future_state[SlotOf(r)])
      BY <1>1, <1>2, Placed
    <2>3. /\ Range(future_state'[SlotOf(r)]) = Range(future_state[SlotOf(r)]) \cup {r}
          /\ Distinct(future_state'[SlotOf(r)])
      <3>1. future_state[SlotOf(r)] \in Seq(Req) /\ Distinct(future_state[SlotOf(r)])
        BY <1>2 DEF IInv, TypeOK, FutureInOnePlace, QueuesHold
      <3>2. future_state'[SlotOf(r)] = Append(future_state[SlotOf(r)], r)
        BY <1>2, <2>1 DEF IInv, TypeOK
      <3> QED BY <2>2, <3>1, <3>2, AppendRange
    <2>4. \A k \in Slot \ {SlotOf(r)} : future_state'[k] = future_state[k]
      BY <2>1 DEF IInv, TypeOK
    <2>5. QueuesHold'
      <3> SUFFICES ASSUME NEW k \in Slot
                   PROVE  Distinct(future_state'[k]) /\ \A q \in Range(future_state'[k]) :
                                                          st'[q] = "held" /\ SlotOf(q)' = k
        BY DEF QueuesHold
      <3>1. CASE k = SlotOf(r)
        BY <1>1, <1>3, <1>4, <2>1, <2>3, <3>1, Placed
      <3>2. CASE k # SlotOf(r)
        BY <1>1, <1>3, <1>4, <2>4, <3>2, Placed DEF IInv, FutureInOnePlace, QueuesHold
      <3> QED BY <3>1, <3>2
    <2>6. HeldSomewhere'
      <3> SUFFICES ASSUME NEW q \in Req, st'[q] = "held"
                   PROVE  \/ q = connected_future_state'[ask'[q].dev]
                          \/ q = disconnected_future_state'[ask'[q].dev]
                          \/ SlotOf(q)' \in Slot /\ q \in Range(future_state'[SlotOf(q)'])
        BY DEF HeldSomewhere
      <3>1. CASE q = r
        BY <1>2, <1>3, <2>3, <3>1
      <3>2. CASE q # r
        <4>1. st[q] = "held"
          BY <1>4, <3>2
        <4>2. \/ q = connected_future_state[ask[q].dev]
              \/ q = disconnected_future_state[ask[q].dev]
              \/ SlotOf(q) \in Slot /\ q \in Range(future_state[SlotOf(q)])
          BY <4>1 DEF IInv, FutureInOnePlace, HeldSomewhere
        <4> QED BY <1>3, <2>3, <2>4, <4>2 DEF RequestOnAttribute
      <3> QED BY <3>1, <3>2
    <2> QED BY <1>6, <1>7, <1>8, <2>5, <2>6 DEF FutureInOnePlace, SlotsHold
  <1>10. CASE ~ Has(ask[r].dev, ask[r].attr)
    <2>1. /\ Receive(r, CharOp \cup DescOp) /\ st' = [st EXCEPT ![r] = "dropped"]
          /\ UNCHANGED <<ask, reply, futureVars>>
      BY <1>10 DEF RequestOnAttribute, futureVars
    <2> QED BY <2>1, DropPlaces
  <1> QED BY <1>9, <1>10

\* A handler that answers r, drops the futures of S, and takes all of them from their places.
LEMMA SettleLeaves ==
    ASSUME IInv, ask' = ask, messages' = messages, NEW r, NEW rep, NEW S, Settle(r, rep, S),
           r \in Req => st[r] = "held" /\ rep.kind \in Fits(r),
           \A q \in Req : q \in S => st[q] = "held",
           NEW X, \A q \in Req : q \in X <=> q = r \/ q \in S,
           \A k \in Slot : /\ Distinct(future_state'[k])
                          /\ Range(future_state'[k]) = Range(future_state[k]) \ X,
           \A d \in Device :
              /\ connected_future_state'[d] =
                    IF connected_future_state[d] \in X THEN NoReq ELSE connected_future_state[d]
              /\ disconnected_future_state'[d] =
                    IF disconnected_future_state[d] \in X THEN NoReq ELSE disconnected_future_state[d]
    PROVE  FutureInOnePlace' /\ ReplyFits'
  <1>1. r \in Req => reply[r] = NoReply
    BY DEF IInv, ReplyFits
  <1>2. /\ ReplyFits'
        /\ \A q \in Req : st'[q] = "sent" <=> (st[q] = "sent" /\ q # r /\ q \notin S)
        /\ \A q \in Req : st'[q] = "held" <=> (st[q] = "held" /\ q # r /\ q \notin S)
    BY <1>1, SettleFits
  <1>3. MessagesHold'
    <2>1. \A q \in Req : st'[q] = "sent" <=> st[q] = "sent"
      BY <1>2
    <2> QED BY <2>1, MessagesUnchanged
  <1>4. \A q \in Req : st'[q] = "held" <=> (st[q] = "held" /\ q \notin X)
    BY <1>2
  <1>5. QueuesHold' /\ SlotsHold' /\ HeldSomewhere'
    BY <1>4, Leave
  <1> QED BY <1>2, <1>3, <1>5 DEF FutureInOnePlace, SlotsHold

\* The futures of the queues K are held, and in no queue outside K.
LEMMA HeldIn ==
    ASSUME IInv, NEW K \in SUBSET Slot
    PROVE  /\ Held(K) \subseteq Req
           /\ \A q \in Held(K) : st[q] = "held" /\ OpOf(q) \in CharOp \cup DescOp
           /\ \A k \in Slot \ K : Range(future_state[k]) \cap Held(K) = {}
           /\ \A k \in K : Range(future_state[k]) \subseteq Held(K)
BY Placed DEF Held

\* The answer of an attribute operation goes to the oldest future of its queue, which leaves it.
LEMMA FulfilPlaces ==
    ASSUME IInv, NEW kind, Occurs(kind), NEW k \in Slot, NEW a, NEW rep \in ReplyKind,
           \A q \in Req : SlotOf(q) = k => rep \in Fits(q),
           Fulfil(k, a, rep)
    PROVE  FutureInOnePlace' /\ ReplyFits'
  <1> DEFINE e == Head(delegate)
             r == Head(future_state[k])
             X == {Head(future_state[k])}
  <1>1. CASE Ignore
    BY <1>1, PlacesUnchanged DEF Ignore
  <1>2. CASE Panic("future_state.pop_back().unwrap()")
    BY <1>2, PanicPlaces
  <1>3. CASE ~ Ignore /\ ~ Panic("future_state.pop_back().unwrap()")
    <2>1. /\ future_state[k] # <<>> /\ Settle(r, Reply(rep, e.req, {}), {}) /\ future_state' = Pop(k)
          /\ UNCHANGED <<ask, messages, connected_future_state, disconnected_future_state>>
      BY <1>3 DEF Fulfil
    <2>2. future_state[k] \in Seq(Req) /\ Distinct(future_state[k])
      BY DEF IInv, TypeOK, FutureInOnePlace, QueuesHold
    <2>3. r \in Range(future_state[k])
      BY <2>1, <2>2, TailRange
    <2>4. r \in Req /\ st[r] = "held" /\ SlotOf(r) = k /\ OpOf(r) \in CharOp \cup DescOp
      BY <2>3, Placed
    <2>5. Reply(rep, e.req, {}).kind \in Fits(r)
      BY <2>4 DEF Reply
    <2>6. ASSUME NEW j \in Slot
          PROVE  /\ Distinct(future_state'[j])
                 /\ Range(future_state'[j]) = Range(future_state[j]) \ X
      <3>1. CASE j = k
        <4>1. future_state'[j] = Tail(future_state[k])
          BY <2>1, <3>1 DEF Pop, IInv, TypeOK
        <4>2. Distinct(Tail(future_state[k])) /\ r \notin Range(Tail(future_state[k]))
              /\ Range(future_state[k]) = Range(Tail(future_state[k])) \cup {r}
          BY <2>1, <2>2, TailRange
        <4> QED BY <3>1, <4>1, <4>2
      <3>2. CASE j # k
        <4>1. future_state'[j] = future_state[j]
          BY <2>1, <3>2 DEF Pop, IInv, TypeOK
        <4>2. r \notin Range(future_state[j])
          BY <2>4, <3>2, Placed
        <4>3. Distinct(future_state[j])
          BY DEF IInv, FutureInOnePlace, QueuesHold
        <4> QED BY <4>1, <4>2, <4>3
      <3> QED BY <3>1, <3>2
    <2>7. \A d \in Device : connected_future_state[d] # r /\ disconnected_future_state[d] # r
      BY <2>4, SlotFuture
    <2>8. \A d \in Device :
             /\ connected_future_state'[d] =
                    IF connected_future_state[d] \in X THEN NoReq ELSE connected_future_state[d]
             /\ disconnected_future_state'[d] =
                    IF disconnected_future_state[d] \in X THEN NoReq ELSE disconnected_future_state[d]
      BY <2>1, <2>7
    <2>9. \A q \in Req : q \in X <=> q = r \/ q \in {}
      OBVIOUS
    <2>10. ask' = ask /\ messages' = messages
      BY <2>1
    <2>11. \A q \in Req : q \in {} => st[q] = "held"
      OBVIOUS
    <2> DEFINE ans == Reply(rep, e.req, {})
    <2>12. Settle(r, ans, {})
      BY <2>1
    <2>13. r \in Req => st[r] = "held" /\ ans.kind \in Fits(r)
      BY <2>4, <2>5
    <2> HIDE DEF X, r, ans
    <2> QED BY <2>6, <2>8, <2>9, <2>10, <2>11, <2>12, <2>13, SettleLeaves
  <1> QED BY <1>1, <1>2, <1>3

\* A result of the discovery drops the futures of what it replaces, and answers connect() or not.
LEMMA DiscoveredPlaces ==
    ASSUME IInv, NEW d \in Device, NEW t, NEW K \in SUBSET Slot, NEW check,
           Discovered(d, t, K, check)
    PROVE  FutureInOnePlace' /\ ReplyFits'
  <1> DEFINE all == check /\ Complete(t)
             r == IF all THEN connected_future_state[d] ELSE NoReq
             X == Held(K) \cup {r}
             rep == Reply("Connected", NoReq, t.has)
  <1>1. CASE Panic("We should still have a future at this point!")
    BY <1>1, PanicPlaces
  <1>2. CASE ~ Panic("We should still have a future at this point!")
    <2>1. /\ Settle(r, rep, Held(K))
          /\ future_state' = [k \in Slot |-> IF k \in K THEN <<>> ELSE future_state[k]]
          /\ connected_future_state' = IF all THEN Take(connected_future_state, d)
                                              ELSE connected_future_state
          /\ UNCHANGED <<ask, messages, disconnected_future_state>>
          /\ all => connected_future_state[d] # NoReq
      BY <1>2 DEF Discovered
    <2>2. r \in Req => all /\ st[r] = "held" /\ ask[r].dev = d /\ OpOf(r) = "connect"
      BY <2>1, Placed, DelegateAssumption
    <2>3. r \in Req => rep.kind \in Fits(r)
      BY <2>2 DEF Fits, Reply
    <2>4. ASSUME NEW k \in Slot
          PROVE  /\ Distinct(future_state'[k])
                 /\ Range(future_state'[k]) = Range(future_state[k]) \ X
      <3>1. r \notin Range(future_state[k])
        BY <2>2, Placed, OpsDiffer
      <3>2. CASE k \in K
        BY <2>1, <3>2, HeldIn, EmptyRange
      <3>3. CASE k \notin K
        <4>1. future_state'[k] = future_state[k]
          BY <2>1, <3>3
        <4>2. Range(future_state[k]) \cap Held(K) = {}
          BY <3>3, HeldIn
        <4> QED BY <3>1, <4>1, <4>2 DEF IInv, FutureInOnePlace, QueuesHold
      <3> QED BY <3>2, <3>3
    <2>5. ASSUME NEW b \in Device
          PROVE  /\ connected_future_state'[b] =
                    IF connected_future_state[b] \in X THEN NoReq ELSE connected_future_state[b]
                 /\ disconnected_future_state'[b] =
                    IF disconnected_future_state[b] \in X THEN NoReq ELSE disconnected_future_state[b]
      <3>1. connected_future_state[b] \notin Held(K) /\ disconnected_future_state[b] \notin Held(K)
        <4>1. \A q \in Held(K) : q \in Req /\ OpOf(q) \in CharOp \cup DescOp
          BY HeldIn
        <4>2. \A q \in Held(K) : connected_future_state[b] # q /\ disconnected_future_state[b] # q
          BY <4>1, SlotFuture
        <4> QED BY <4>2
      <3>2. disconnected_future_state[b] = r => r = NoReq
        BY <2>1, <2>2, Placed, DelegateAssumption DEF IInv, TypeOK
      <3>3. connected_future_state[b] = r => r = NoReq \/ (all /\ b = d)
        BY <2>1, <2>2, Placed, DelegateAssumption DEF IInv, TypeOK
      <3>4. all => connected_future_state[d] = r
        OBVIOUS
      <3>5. connected_future_state'[b] = IF all /\ b = d THEN NoReq ELSE connected_future_state[b]
        BY <2>1 DEF Take, IInv, TypeOK
      <3> HIDE DEF r, all
      <3> QED BY <2>1, <3>1, <3>2, <3>3, <3>4, <3>5
    <2>6. \A q \in Req : q \in X <=> q = r \/ q \in Held(K)
      OBVIOUS
    <2>7. \A q \in Req : q \in Held(K) => st[q] = "held"
      BY HeldIn
    <2> HIDE DEF X, r, rep
    <2> QED BY <2>1, <2>2, <2>3, <2>4, <2>5, <2>6, <2>7, SettleLeaves
  <1> QED BY <1>1, <1>2

\* The handlers that answer the call they receive, or drop it.
LEMMA AnswerPlaces ==
    ASSUME IInv, NEW r \in Req, NEW ops, Receive(r, ops), UNCHANGED <<ask, futureVars>>,
           NEW rep, OpOf(r) \in ops => rep.kind \in Fits(r),
           Settle(r, rep, {}) \/ Settle(NoReq, NoReply, {r})
    PROVE  FutureInOnePlace' /\ ReplyFits'
  <1>1. st[r] = "sent" /\ reply[r] = NoReply /\ OpOf(r) \in ops
    BY Received
  <1>2. /\ ReplyFits'
        /\ st'[r] \in {"answered", "dropped"}
        /\ \A q \in Req \ {r} : st'[q] = "sent" <=> st[q] = "sent"
        /\ \A q \in Req \ {r} : st'[q] = "held" <=> st[q] = "held"
    <2>1. CASE Settle(r, rep, {})
      <3>1. /\ ReplyFits'
            /\ \A q \in Req : st'[q] = "sent" <=> (st[q] = "sent" /\ q # r /\ q \notin {})
            /\ \A q \in Req : st'[q] = "held" <=> (st[q] = "held" /\ q # r /\ q \notin {})
        BY <1>1, <2>1, SettleFits
      <3> QED BY <2>1, <3>1 DEF Settle
    <2>2. CASE Settle(NoReq, NoReply, {r})
      <3>1. NoReq \notin Req
        BY DelegateAssumption
      <3>2. \A q \in Req : q \in {r} => st[q] # "answered"
        BY <1>1
      <3>3. /\ ReplyFits'
            /\ \A q \in Req : st'[q] = "sent" <=> (st[q] = "sent" /\ q # NoReq /\ q \notin {r})
            /\ \A q \in Req : st'[q] = "held" <=> (st[q] = "held" /\ q # NoReq /\ q \notin {r})
        BY <2>2, <3>1, <3>2, SettleFits
      <3> QED BY <2>2, <3>1, <3>3 DEF Settle
    <2> QED BY <2>1, <2>2
  <1>3. MessagesHold'
    BY <1>2, Received
  <1>4. QueuesHold' /\ SlotsHold' /\ HeldSomewhere'
    BY <1>1, <1>2, NoneLeave
  <1> QED BY <1>2, <1>3, <1>4 DEF FutureInOnePlace, SlotsHold

\* connect() puts its future into its slot, and drops the one that was there.
LEMMA ConnectPlaces ==
    ASSUME IInv, NEW r \in Req, ConnectPeripheral(r)
    PROVE  FutureInOnePlace' /\ ReplyFits'
  <1> DEFINE d == ask[r].dev
             old == connected_future_state[d]
  <1>1. st[r] = "sent" /\ reply[r] = NoReply /\ OpOf(r) = "connect"
    BY Received DEF ConnectPeripheral
  <1>2. d \in Device
    BY CallShape DEF IInv
  <1>3. CASE d \notin known
    BY <1>3, DropPlaces DEF ConnectPeripheral, futureVars
  <1>4. CASE d \in known
    <2>1. /\ Receive(r, {"connect"})
          /\ connected_future_state' = [connected_future_state EXCEPT ![d] = r]
          /\ st' = [q \in Req |-> IF q = r THEN "held" ELSE IF q = old THEN "dropped" ELSE st[q]]
          /\ UNCHANGED <<ask, reply, disconnected_future_state, future_state>>
      BY <1>4 DEF ConnectPeripheral
    <2>2. old \in Req => st[old] = "held" /\ OpOf(old) = "connect"
      BY ZenonT(60), <1>2, Placed, DelegateAssumption
    <2>3. \A q : OpOf(q)' = OpOf(q) /\ SlotOf(q)' = SlotOf(q) /\ Fits(q)' = Fits(q)
      <3>1. ask' = ask
        BY <2>1
      <3>2. \A q : OpOf(q)' = OpOf(q)
        BY <3>1 DEF OpOf
      <3>3. \A q : SlotOf(q)' = SlotOf(q)
        BY <3>1, <3>2 DEF SlotOf
      <3>4. \A q : Fits(q)' = Fits(q)
        BY <3>2 DEF Fits
      <3> QED BY <3>2, <3>3, <3>4
    <2>4. /\ connected_future_state'[d] = r
          /\ \A b \in Device \ {d} : connected_future_state'[b] = connected_future_state[b]
      BY <1>2, <2>1 DEF IInv, TypeOK
    <2>5. st'[r] = "held" /\ \A q \in Req \ {r} : q # old => st'[q] = st[q]
      BY <2>1
    <2>6. old \in Req => st'[old] = "dropped"
      BY <1>1, <2>1, <2>2
    <2> HIDE DEF d, old
    <2>7. MessagesHold'
      BY <2>1, <2>2, <2>5, <2>6, Received
    <2>8. ReplyFits'
      BY <1>1, <2>1, <2>2, <2>3, <2>5, <2>6 DEF IInv, ReplyFits
    <2>9. QueuesHold'
      <3> SUFFICES ASSUME NEW k \in Slot
                   PROVE  Distinct(future_state'[k]) /\ \A q \in Range(future_state'[k]) :
                                                         st'[q] = "held" /\ SlotOf(q)' = k
        BY DEF QueuesHold
      <3>1. \A q \in Range(future_state[k]) : q \in Req /\ st[q] = "held" /\ SlotOf(q) = k
                                                /\ OpOf(q) \in CharOp \cup DescOp
        BY Placed
      <3>2. \A q \in Range(future_state[k]) : q # r /\ q # old
        BY <1>1, <1>2, <3>1, SlotFuture DEF old
      <3>3. Distinct(future_state[k])
        BY DEF IInv, FutureInOnePlace, QueuesHold
      <3> QED BY <2>1, <2>3, <2>5, <3>1, <3>2, <3>3
    <2>10. LinkSlotHolds(connected_future_state, "connect")'
      <3> SUFFICES ASSUME NEW b \in Device, NEW q, q = connected_future_state'[b], q # NoReq
                   PROVE  st'[q] = "held" /\ ask'[q].dev = b /\ OpOf(q) = "connect"
        BY <2>3 DEF LinkSlotHolds
      <3>1. CASE b = d
        BY <1>1, <2>1, <2>4, <2>5, <3>1 DEF d
      <3>2. CASE b # d
        <4>1. connected_future_state'[b] = connected_future_state[b]
          BY <2>4, <3>2
        <4>2. q \in Req /\ st[q] = "held" /\ ask[q].dev = b /\ OpOf(q) = "connect"
          BY <4>1, Placed
        <4>3. q # r /\ q # old
          <5>1. old \in Req => ask[old].dev = d
            BY <1>2, Placed, DelegateAssumption DEF old
          <5> QED BY <1>1, <3>2, <4>2, <5>1
        <4> QED BY <2>1, <2>5, <4>2, <4>3
      <3> QED BY <3>1, <3>2
    <2>11. LinkSlotHolds(disconnected_future_state, "disconnect")'
      <3> SUFFICES ASSUME NEW b \in Device, NEW q, q = disconnected_future_state[b], q # NoReq
                   PROVE  st'[q] = "held" /\ ask[q].dev = b /\ OpOf(q) = "disconnect"
        BY <2>1, <2>3 DEF LinkSlotHolds
      <3>1. q \in Req /\ st[q] = "held" /\ ask[q].dev = b /\ OpOf(q) = "disconnect"
        BY Placed
      <3>2. q # r /\ q # old
        BY <1>1, <2>2, <3>1
      <3>3. st'[q] = "held"
        BY <2>5, <3>1, <3>2
      <3> QED BY <3>1, <3>3
    <2>12. HeldSomewhere'
      <3> SUFFICES ASSUME NEW q \in Req, st'[q] = "held"
                   PROVE  \/ q = connected_future_state'[ask[q].dev]
                          \/ q = disconnected_future_state[ask[q].dev]
                          \/ SlotOf(q) \in Slot /\ q \in Range(future_state[SlotOf(q)])
        BY <2>1, <2>3 DEF HeldSomewhere
      <3>1. CASE q = r
        BY <2>4, <3>1 DEF d
      <3>2. CASE q # r
        <4>1. q # old /\ st[q] = "held"
          BY <2>5, <2>6, <3>2
        <4>2. \/ q = connected_future_state[ask[q].dev]
              \/ q = disconnected_future_state[ask[q].dev]
              \/ SlotOf(q) \in Slot /\ q \in Range(future_state[SlotOf(q)])
          BY <4>1 DEF IInv, FutureInOnePlace, HeldSomewhere
        <4>3. ask[q].dev \in Device
          BY CallShape DEF IInv
        <4> QED BY <2>4, <4>1, <4>2, <4>3 DEF old
      <3> QED BY <3>1, <3>2
    <2> QED BY <2>7, <2>8, <2>9, <2>10, <2>11, <2>12 DEF FutureInOnePlace
  <1> QED BY <1>3, <1>4

\* disconnect() puts its future into its slot, and drops the one that was there.
LEMMA DisconnectPlaces ==
    ASSUME IInv, NEW r \in Req, DisconnectPeripheral(r)
    PROVE  FutureInOnePlace' /\ ReplyFits'
  <1> DEFINE d == ask[r].dev
             old == disconnected_future_state[d]
  <1>1. st[r] = "sent" /\ reply[r] = NoReply /\ OpOf(r) = "disconnect"
    BY Received DEF DisconnectPeripheral
  <1>2. d \in Device
    BY CallShape DEF IInv
  <1>3. CASE d \notin known
    BY <1>3, DropPlaces DEF DisconnectPeripheral, futureVars
  <1>4. CASE d \in known
    <2>1. /\ Receive(r, {"disconnect"})
          /\ disconnected_future_state' = [disconnected_future_state EXCEPT ![d] = r]
          /\ st' = [q \in Req |-> IF q = r THEN "held" ELSE IF q = old THEN "dropped" ELSE st[q]]
          /\ UNCHANGED <<ask, reply, connected_future_state, future_state>>
      BY <1>4 DEF DisconnectPeripheral
    <2>2. old \in Req => st[old] = "held" /\ OpOf(old) = "disconnect"
      BY ZenonT(60), <1>2, Placed, DelegateAssumption
    <2>3. \A q : OpOf(q)' = OpOf(q) /\ SlotOf(q)' = SlotOf(q) /\ Fits(q)' = Fits(q)
      <3>1. ask' = ask
        BY <2>1
      <3>2. \A q : OpOf(q)' = OpOf(q)
        BY <3>1 DEF OpOf
      <3>3. \A q : SlotOf(q)' = SlotOf(q)
        BY <3>1, <3>2 DEF SlotOf
      <3>4. \A q : Fits(q)' = Fits(q)
        BY <3>2 DEF Fits
      <3> QED BY <3>2, <3>3, <3>4
    <2>4. /\ disconnected_future_state'[d] = r
          /\ \A b \in Device \ {d} : disconnected_future_state'[b] = disconnected_future_state[b]
      BY <1>2, <2>1 DEF IInv, TypeOK
    <2>5. st'[r] = "held" /\ \A q \in Req \ {r} : q # old => st'[q] = st[q]
      BY <2>1
    <2>6. old \in Req => st'[old] = "dropped"
      BY <1>1, <2>1, <2>2
    <2> HIDE DEF d, old
    <2>7. MessagesHold'
      BY <2>1, <2>2, <2>5, <2>6, Received
    <2>8. ReplyFits'
      BY <1>1, <2>1, <2>2, <2>3, <2>5, <2>6 DEF IInv, ReplyFits
    <2>9. QueuesHold'
      <3> SUFFICES ASSUME NEW k \in Slot
                   PROVE  Distinct(future_state'[k]) /\ \A q \in Range(future_state'[k]) :
                                                         st'[q] = "held" /\ SlotOf(q)' = k
        BY DEF QueuesHold
      <3>1. \A q \in Range(future_state[k]) : q \in Req /\ st[q] = "held" /\ SlotOf(q) = k
                                                /\ OpOf(q) \in CharOp \cup DescOp
        BY Placed
      <3>2. \A q \in Range(future_state[k]) : q # r /\ q # old
        BY <1>1, <1>2, <3>1, SlotFuture DEF old
      <3>3. Distinct(future_state[k])
        BY DEF IInv, FutureInOnePlace, QueuesHold
      <3> QED BY <2>1, <2>3, <2>5, <3>1, <3>2, <3>3
    <2>10. LinkSlotHolds(disconnected_future_state, "disconnect")'
      <3> SUFFICES ASSUME NEW b \in Device, NEW q, q = disconnected_future_state'[b], q # NoReq
                   PROVE  st'[q] = "held" /\ ask'[q].dev = b /\ OpOf(q) = "disconnect"
        BY <2>3 DEF LinkSlotHolds
      <3>1. CASE b = d
        BY <1>1, <2>1, <2>4, <2>5, <3>1 DEF d
      <3>2. CASE b # d
        <4>1. disconnected_future_state'[b] = disconnected_future_state[b]
          BY <2>4, <3>2
        <4>2. q \in Req /\ st[q] = "held" /\ ask[q].dev = b /\ OpOf(q) = "disconnect"
          BY <4>1, Placed
        <4>3. q # r /\ q # old
          <5>1. old \in Req => ask[old].dev = d
            BY <1>2, Placed, DelegateAssumption DEF old
          <5> QED BY <1>1, <3>2, <4>2, <5>1
        <4> QED BY <2>1, <2>5, <4>2, <4>3
      <3> QED BY <3>1, <3>2
    <2>11. LinkSlotHolds(connected_future_state, "connect")'
      <3> SUFFICES ASSUME NEW b \in Device, NEW q, q = connected_future_state[b], q # NoReq
                   PROVE  st'[q] = "held" /\ ask[q].dev = b /\ OpOf(q) = "connect"
        BY <2>1, <2>3 DEF LinkSlotHolds
      <3>1. q \in Req /\ st[q] = "held" /\ ask[q].dev = b /\ OpOf(q) = "connect"
        BY Placed
      <3>2. q # r /\ q # old
        BY <1>1, <2>2, <3>1
      <3>3. st'[q] = "held"
        BY <2>5, <3>1, <3>2
      <3> QED BY <3>1, <3>3
    <2>12. HeldSomewhere'
      <3> SUFFICES ASSUME NEW q \in Req, st'[q] = "held"
                   PROVE  \/ q = disconnected_future_state'[ask[q].dev]
                          \/ q = connected_future_state[ask[q].dev]
                          \/ SlotOf(q) \in Slot /\ q \in Range(future_state[SlotOf(q)])
        BY <2>1, <2>3 DEF HeldSomewhere
      <3>1. CASE q = r
        BY <2>4, <3>1 DEF d
      <3>2. CASE q # r
        <4>1. q # old /\ st[q] = "held"
          BY <2>5, <2>6, <3>2
        <4>2. \/ q = disconnected_future_state[ask[q].dev]
              \/ q = connected_future_state[ask[q].dev]
              \/ SlotOf(q) \in Slot /\ q \in Range(future_state[SlotOf(q)])
          BY <4>1 DEF IInv, FutureInOnePlace, HeldSomewhere
        <4>3. ask[q].dev \in Device
          BY CallShape DEF IInv
        <4> QED BY <2>4, <4>1, <4>2, <4>3 DEF old
      <3> QED BY <3>1, <3>2
    <2> QED BY <2>7, <2>8, <2>9, <2>10, <2>11, <2>12 DEF FutureInOnePlace
  <1> QED BY <1>3, <1>4

\* A failed connection answers connect(), which leaves its slot, or kills the thread.
LEMMA FailurePlaces ==
    ASSUME IInv, OnPeripheralConnectionFailed
    PROVE  FutureInOnePlace' /\ ReplyFits'
  <1> DEFINE d == Head(delegate).dev
             r == connected_future_state[d]
             rep == Reply("Err", NoReq, {})
             X == {connected_future_state[d]}
  <1>1. d \in Device
    BY EventShape DEF OnPeripheralConnectionFailed, IInv
  <1>2. CASE Ignore
    BY <1>2, PlacesUnchanged DEF Ignore
  <1>3. CASE Panic("connected_future_state.take().unwrap()")
    BY <1>3, PanicPlaces
  <1>4. CASE ~ Ignore /\ ~ Panic("connected_future_state.take().unwrap()")
    <2>1. /\ r # NoReq /\ Settle(r, rep, {})
          /\ connected_future_state' = Take(connected_future_state, d)
          /\ UNCHANGED <<ask, messages, disconnected_future_state, future_state>>
      BY <1>4 DEF OnPeripheralConnectionFailed
    <2>2. r \in Req /\ st[r] = "held" /\ ask[r].dev = d /\ OpOf(r) = "connect"
      BY <1>1, <2>1, Placed
    <2>3. rep.kind \in Fits(r)
      BY <2>2 DEF Fits, Reply
    <2>4. ASSUME NEW k \in Slot
          PROVE  /\ Distinct(future_state'[k])
                 /\ Range(future_state'[k]) = Range(future_state[k]) \ X
      <3>1. r \notin Range(future_state[k])
        BY <2>2, Placed, OpsDiffer
      <3>2. Distinct(future_state[k])
        BY DEF IInv, FutureInOnePlace, QueuesHold
      <3> QED BY <2>1, <3>1, <3>2
    <2>5. ASSUME NEW b \in Device
          PROVE  /\ connected_future_state'[b] =
                    IF connected_future_state[b] \in X THEN NoReq ELSE connected_future_state[b]
                 /\ disconnected_future_state'[b] =
                    IF disconnected_future_state[b] \in X THEN NoReq ELSE disconnected_future_state[b]
      <3>1. connected_future_state[b] = r => b = d
        BY <2>1, <2>2, Placed
      <3>2. disconnected_future_state[b] # r
        BY <2>1, <2>2, Placed
      <3>3. connected_future_state'[b] = IF b = d THEN NoReq ELSE connected_future_state[b]
        BY <2>1 DEF Take, IInv, TypeOK
      <3> QED BY <2>1, <3>1, <3>2, <3>3
    <2>6. \A q \in Req : q \in X <=> q = r \/ q \in {}
      OBVIOUS
    <2> HIDE DEF X, r, rep
    <2> QED BY <2>1, <2>2, <2>3, <2>4, <2>5, <2>6, SettleLeaves
  <1> QED BY <1>2, <1>3, <1>4

\* A disconnection answers disconnect() and drops all futures of the peripheral.
LEMMA DisconnectedPlaces ==
    ASSUME IInv, OnPeripheralDisconnect
    PROVE  FutureInOnePlace' /\ ReplyFits'
  <1> DEFINE d == Head(delegate).dev
             r == disconnected_future_state[d]
             rep == Reply("Ok", NoReq, {})
             K == SlotsOf(d, Attr)
             S == Held(K) \cup Slots({d})
             X == S \cup {r}
  <1>1. d \in Device /\ K \in SUBSET Slot
    BY EventShape DEF OnPeripheralDisconnect, IInv, SlotsOf
  <1>2. CASE Ignore
    BY <1>2, PlacesUnchanged DEF Ignore
  <1>3. CASE ~ Ignore
    <2>1. /\ Settle(r, rep, S)
          /\ connected_future_state' = Take(connected_future_state, d)
          /\ disconnected_future_state' = Take(disconnected_future_state, d)
          /\ future_state' = [k \in Slot |-> IF k \in K THEN <<>> ELSE future_state[k]]
          /\ UNCHANGED <<ask, messages>>
      BY <1>3 DEF OnPeripheralDisconnect
    <2>2. r \in Req => st[r] = "held" /\ ask[r].dev = d /\ OpOf(r) = "disconnect"
      BY ZenonT(60), <1>1, Placed, DelegateAssumption
    <2>3. r \in Req => rep.kind \in Fits(r)
      <3>1. r \in Req => Fits(r) = {"Ok"}
        BY <2>2 DEF Fits
      <3>2. rep.kind = "Ok"
        BY DEF Reply
      <3> QED BY <3>1, <3>2
    <2>4. \A q \in Slots({d}) : /\ q \in Req /\ st[q] = "held" /\ ask[q].dev = d
                                /\ OpOf(q) \in {"connect", "disconnect"}
      BY <1>1, Placed, DelegateAssumption DEF Slots
    <2>5. \A q \in Req : q \in S => st[q] = "held"
      BY <1>1, <2>4, HeldIn
    <2>6. ASSUME NEW k \in Slot
          PROVE  /\ Distinct(future_state'[k])
                 /\ Range(future_state'[k]) = Range(future_state[k]) \ X
      <3>1. CASE k \in K
        BY <1>1, <2>1, <3>1, HeldIn, EmptyRange
      <3>2. CASE k \notin K
        <4>1. future_state'[k] = future_state[k] /\ Distinct(future_state[k])
          BY <2>1, <3>2 DEF IInv, FutureInOnePlace, QueuesHold
        <4>2. Range(future_state[k]) \cap Held(K) = {}
          BY <1>1, <3>2, HeldIn
        <4>3. \A q \in Range(future_state[k]) : q \in Req /\ OpOf(q) \in CharOp \cup DescOp
          BY Placed
        <4>4. \A q \in Range(future_state[k]) : q \notin Slots({d}) /\ q # r
          BY <2>2, <2>4, <4>3, OpsDiffer
        <4> QED BY <4>1, <4>2, <4>4
      <3> QED BY <3>1, <3>2
    <2>7. ASSUME NEW b \in Device
          PROVE  /\ connected_future_state'[b] =
                    IF connected_future_state[b] \in X THEN NoReq ELSE connected_future_state[b]
                 /\ disconnected_future_state'[b] =
                    IF disconnected_future_state[b] \in X THEN NoReq ELSE disconnected_future_state[b]
      <3>1. /\ connected_future_state'[b] = IF b = d THEN NoReq ELSE connected_future_state[b]
            /\ disconnected_future_state'[b] = IF b = d THEN NoReq ELSE disconnected_future_state[b]
        BY <2>1 DEF Take, IInv, TypeOK
      <3>2. CASE b = d
        <4>1. /\ connected_future_state[d] \in X \cup {NoReq}
              /\ disconnected_future_state[d] \in X
          BY <1>1 DEF Slots, IInv, TypeOK
        <4> QED BY <3>1, <3>2, <4>1
      <3>3. CASE b # d
        <4>1. ASSUME NEW q, q = connected_future_state[b] \/ q = disconnected_future_state[b],
                     q # NoReq
              PROVE  q \notin X
          <5>1. q \in Req /\ ask[q].dev = b /\ OpOf(q) \in {"connect", "disconnect"}
            BY <4>1, Placed
          <5>2. q \notin Held(K)
            BY <1>1, <5>1, HeldIn, OpsDiffer
          <5>3. q \notin Slots({d}) /\ q # r
            BY <2>2, <2>4, <3>3, <5>1
          <5> QED BY <5>2, <5>3
        <4> QED BY <3>1, <3>3, <4>1
      <3> QED BY <3>2, <3>3
    <2>8. \A q \in Req : q \in X <=> q = r \/ q \in S
      OBVIOUS
    <2> HIDE DEF X, S, r, rep
    <2> QED BY <2>1, <2>2, <2>3, <2>5, <2>6, <2>7, <2>8, SettleLeaves
  <1> QED BY <1>2, <1>3

\* A message enters the channel at its end, and a future only once.
LEMMA SentOnce ==
    ASSUME IInv, NEW y \in Req \cup ScanMessage, messages' = Append(messages, y),
           y \in Req => st[y] # "sent",
           \A q \in Req : st'[q] = "sent" <=> (st[q] = "sent" \/ q = y)
    PROVE  MessagesHold'
  <1> DEFINE n == Len(messages)
  <1>1. messages \in Seq(Req \cup ScanMessage)
    BY DEF IInv, TypeOK
  <1>2. /\ n \in Nat /\ DOMAIN messages = 1..n /\ DOMAIN messages' = 1..(n + 1)
        /\ messages'[n + 1] = y /\ \A i \in 1..n : messages'[i] = messages[i]
    BY <1>1
  <1>3. Range(messages') = Range(messages) \cup {y}
    BY <1>1, AppendRange
  <1>4. /\ \A q \in Req : st[q] = "sent" <=> q \in Range(messages)
        /\ \A i, j \in 1..n : messages[i] = messages[j] /\ messages[i] \in Req => i = j
    BY <1>2 DEF IInv, FutureInOnePlace, MessagesHold
  <1> HIDE DEF n
  <1>5. \A i \in 1..(n + 1) : i \in 1..n \/ i = n + 1
    BY <1>2
  <1>6. y \in Req => \A i \in 1..n : messages[i] # y
    BY <1>2, <1>4 DEF Range
  <1>7. \A i, j \in 1..(n + 1) : messages'[i] = messages'[j] /\ messages'[i] \in Req => i = j
    BY <1>2, <1>4, <1>5, <1>6
  <1> QED BY <1>2, <1>3, <1>4, <1>7 DEF MessagesHold

\* A client puts the future of a new call into the channel.
LEMMA ClientPlaces ==
    ASSUME IInv, ClientScans \/ \E r \in Req : ClientCalls(r)
    PROVE  FutureInOnePlace' /\ ReplyFits'
  <1>1. CASE ClientScans
    <2>1. PICK m \in ScanMessage : messages' = Append(messages, m)
      BY <1>1, ScanAssumption DEF ClientScans
    <2>2. UNCHANGED <<ask, st, reply, futureVars>>
      BY <1>1 DEF ClientScans
    <2>3. m \notin Req
      BY ScanAssumption
    <2>4. MessagesHold'
      BY <2>1, <2>2, <2>3, SentOnce
    <2>5. QueuesHold' /\ SlotsHold' /\ HeldSomewhere'
      BY <2>2, NoneLeave
    <2>6. ReplyFits'
      BY <2>2 DEF IInv, ReplyFits, Fits, OpOf
    <2> QED BY <2>4, <2>5, <2>6 DEF FutureInOnePlace, SlotsHold
  <1>2. ASSUME NEW r \in Req, ClientCalls(r)
        PROVE  FutureInOnePlace' /\ ReplyFits'
    <2>1. st[r] = "idle" /\ UNCHANGED <<ask, reply, futureVars>>
      BY <1>2 DEF ClientCalls
    <2>2. \A q \in Req \ {r} : st'[q] = st[q]
      BY <1>2 DEF ClientCalls, IInv, TypeOK
    <2>3. \/ messages' = Append(messages, r) /\ st'[r] = "sent"
          \/ messages' = messages /\ st'[r] = "refused"
      BY <1>2 DEF ClientCalls, IInv, TypeOK
    <2>4. MessagesHold'
      <3>1. CASE messages' = Append(messages, r) /\ st'[r] = "sent"
        BY <2>1, <2>2, <3>1, SentOnce
      <3>2. CASE messages' = messages /\ st'[r] = "refused"
        BY <2>1, <2>2, <3>2, MessagesUnchanged
      <3> QED BY <2>3, <3>1, <3>2
    <2>5. QueuesHold' /\ SlotsHold' /\ HeldSomewhere'
      BY <2>1, <2>2, <2>3, NoneLeave
    <2>6. ReplyFits'
      BY <2>1, <2>2, <2>3 DEF IInv, ReplyFits, Fits, OpOf
    <2> QED BY <2>4, <2>5, <2>6 DEF FutureInOnePlace, SlotsHold
  <1> QED BY <1>1, <1>2

\* A scan message holds no future.
LEMMA ScanPlaces ==
    ASSUME IInv, Scan
    PROVE  FutureInOnePlace' /\ ReplyFits'
  <1> DEFINE n == Len(messages)
  <1>1. messages \in Seq(Req \cup ScanMessage) /\ messages # <<>> /\ messages' = Tail(messages)
        /\ Head(messages) \notin Req /\ UNCHANGED <<ask, st, reply, futureVars>>
    BY ScanAssumption DEF IInv, TypeOK, Scan
  <1>2. /\ n \in Nat \ {0} /\ DOMAIN messages = 1..n /\ DOMAIN messages' = 1..(n - 1)
        /\ \A i \in 1..(n - 1) : messages'[i] = messages[i + 1]
    BY <1>1
  <1>3. Range(messages) = Range(messages') \cup {Head(messages)}
    BY <1>1, TailRange
  <1>4. /\ \A q \in Req : st[q] = "sent" <=> q \in Range(messages)
        /\ \A i, j \in 1..n : messages[i] = messages[j] /\ messages[i] \in Req => i = j
    BY <1>2 DEF IInv, FutureInOnePlace, MessagesHold
  <1> HIDE DEF n
  <1>5. \A i, j \in 1..(n - 1) : messages'[i] = messages'[j] /\ messages'[i] \in Req => i = j
    BY <1>2, <1>4
  <1>6. MessagesHold'
    BY <1>1, <1>2, <1>3, <1>4, <1>5 DEF MessagesHold
  <1>7. QueuesHold' /\ SlotsHold' /\ HeldSomewhere'
    BY <1>1, NoneLeave
  <1>8. ReplyFits'
    BY <1>1 DEF IInv, ReplyFits, Fits, OpOf
  <1> QED BY <1>6, <1>7, <1>8 DEF FutureInOnePlace, SlotsHold

\* The handlers of messages keep both parts of the invariant.
LEMMA MessagePlaces ==
    ASSUME IInv, HandleMessage
    PROVE  FutureInOnePlace' /\ ReplyFits'
  <1>1. ASSUME NEW r \in Req, WriteWithoutResponse(r)
        PROVE  FutureInOnePlace' /\ ReplyFits'
    <2>1. OpOf(r) \in {"write_without_response"} => Reply("Ok", r, {}).kind \in Fits(r)
      BY DEF Fits, Reply
    <2>2. /\ Receive(r, {"write_without_response"}) /\ UNCHANGED <<ask, futureVars>>
          /\ Settle(r, Reply("Ok", r, {}), {}) \/ Settle(NoReq, NoReply, {r})
      BY <1>1 DEF WriteWithoutResponse
    <2> QED BY <2>1, <2>2, AnswerPlaces
  <1>2. ASSUME NEW r \in Req, IsConnected(r)
        PROVE  FutureInOnePlace' /\ ReplyFits'
    <2>1. PICK state \in {"State(Connected)", "State(_)"} :
             /\ Receive(r, {"is_connected"}) /\ UNCHANGED <<ask, futureVars>>
             /\ Settle(r, Reply(state, NoReq, {}), {}) \/ Settle(NoReq, NoReply, {r})
      BY <1>2 DEF IsConnected
    <2>2. OpOf(r) \in {"is_connected"} => Reply(state, NoReq, {}).kind \in Fits(r)
      BY DEF Fits, Reply
    <2> QED BY <2>1, <2>2, AnswerPlaces
  <1> QED BY <1>1, <1>2, ScanPlaces, RequestPlaces, ConnectPlaces, DisconnectPlaces DEF HandleMessage

\* A queue has futures of its operation only, so one kind of reply fits them all.
LEMMA QueueFits ==
    ASSUME NEW q, NEW d, NEW op, NEW a, SlotOf(q) = <<d, op, a>>
    PROVE  /\ op = "read" => "ReadResult" \in Fits(q)
           /\ op \in {"write", "subscribe", "unsubscribe", "write_descriptor"} => "Ok" \in Fits(q)
BY DEF SlotOf, Fits

\* The handlers of events keep both parts of the invariant.
LEMMA EventPlaces ==
    ASSUME IInv, HandleEvent
    PROVE  FutureInOnePlace' /\ ReplyFits'
  <1> DEFINE e == Head(delegate)
             d == e.dev
  <1>0. TypeOK
    BY DEF IInv
  <1>1. CASE OnDiscoveredPeripheral
    BY <1>1, PlacesUnchanged DEF OnDiscoveredPeripheral
  <1>2. CASE OnDiscoveredServices
    <2>1. d \in Device /\ SlotsOf(d, Attr) \subseteq Slot
      BY <1>0, <1>2, EventShape DEF OnDiscoveredServices, SlotsOf
    <2>2. Ignore \/ \E t : Discovered(d, t, SlotsOf(d, Attr), FALSE)
      BY <1>2 DEF OnDiscoveredServices
    <2> QED BY <2>1, <2>2, DiscoveredPlaces, PlacesUnchanged DEF Ignore
  <1>3. CASE OnDiscoveredCharacteristics
    <2>1. d \in Device
      BY <1>0, <1>3, EventShape DEF OnDiscoveredCharacteristics
    <2>2. \A A : SlotsOf(d, A) \subseteq Slot
      BY DEF SlotsOf
    <2>3. \/ Ignore
          \/ Panic("Got characteristics for a service we don't know about")
          \/ \E t, A, full : Discovered(d, t, SlotsOf(d, A), full)
      BY <1>3 DEF OnDiscoveredCharacteristics
    <2> QED BY <2>1, <2>2, <2>3, DiscoveredPlaces, PlacesUnchanged, PanicPlaces DEF Ignore
  <1>4. CASE OnDiscoveredCharacteristicDescriptors
    <2>1. d \in Device
      BY <1>0, <1>4, EventShape DEF OnDiscoveredCharacteristicDescriptors
    <2>2. \A A : SlotsOf(d, A) \subseteq Slot
      BY DEF SlotsOf
    <2>3. \/ Ignore
          \/ Panic("Got descriptors for something we don't know about")
          \/ \E t, A, full : Discovered(d, t, SlotsOf(d, A), full)
      BY <1>4 DEF OnDiscoveredCharacteristicDescriptors
    <2> QED BY <2>1, <2>2, <2>3, DiscoveredPlaces, PlacesUnchanged, PanicPlaces DEF Ignore
  <1>5. CASE OnPeripheralConnect
    BY <1>5, PlacesUnchanged DEF OnPeripheralConnect, Ignore
  <1>6. CASE OnPeripheralConnectionFailed
    BY <1>6, FailurePlaces
  <1>7. CASE OnPeripheralDisconnect
    BY <1>7, DisconnectedPlaces
  <1>8. CASE OnCharacteristicSubscribed
    <2>1. Occurs("CharacteristicSubscribed")
          /\ Fulfil(<<d, "subscribe", e.attr>>, e.attr, "Ok")
      BY <1>8 DEF OnCharacteristicSubscribed
    <2>2. <<d, "subscribe", e.attr>> \in Slot
      BY <1>0, <2>1, EventShape DEF CharEvent, Slot, CharOp
    <2>3. \A q \in Req : SlotOf(q) = <<d, "subscribe", e.attr>> => "Ok" \in Fits(q)
      BY QueueFits
    <2> QED BY <2>1, <2>2, <2>3, FulfilPlaces DEF ReplyKind
  <1>9. CASE OnCharacteristicUnsubscribed
    <2>1. Occurs("CharacteristicUnsubscribed")
          /\ Fulfil(<<d, "unsubscribe", e.attr>>, e.attr, "Ok")
      BY <1>9 DEF OnCharacteristicUnsubscribed
    <2>2. <<d, "unsubscribe", e.attr>> \in Slot
      BY <1>0, <2>1, EventShape DEF CharEvent, Slot, CharOp
    <2>3. \A q \in Req : SlotOf(q) = <<d, "unsubscribe", e.attr>> => "Ok" \in Fits(q)
      BY QueueFits
    <2> QED BY <2>1, <2>2, <2>3, FulfilPlaces DEF ReplyKind
  <1>10. CASE OnCharacteristicRead
    <2>1. Occurs("CharacteristicNotified")
          /\ (Ignore \/ Fulfil(<<d, "read", e.attr>>, e.attr, "ReadResult"))
      BY <1>10 DEF OnCharacteristicRead
    <2>2. <<d, "read", e.attr>> \in Slot
      BY <1>0, <2>1, EventShape DEF CharEvent, Slot, CharOp
    <2>3. \A q \in Req : SlotOf(q) = <<d, "read", e.attr>> => "ReadResult" \in Fits(q)
      BY QueueFits
    <2> QED BY <2>1, <2>2, <2>3, FulfilPlaces, PlacesUnchanged DEF ReplyKind, Ignore
  <1>11. CASE OnCharacteristicWritten
    <2>1. Occurs("CharacteristicWritten")
          /\ Fulfil(<<d, "write", e.attr>>, e.attr, "Ok")
      BY <1>11 DEF OnCharacteristicWritten
    <2>2. <<d, "write", e.attr>> \in Slot
      BY <1>0, <2>1, EventShape DEF CharEvent, Slot, CharOp
    <2>3. \A q \in Req : SlotOf(q) = <<d, "write", e.attr>> => "Ok" \in Fits(q)
      BY QueueFits
    <2> QED BY <2>1, <2>2, <2>3, FulfilPlaces DEF ReplyKind
  <1>12. CASE OnDescriptorRead
    <2>1. Occurs("DescriptorNotified")
          /\ Fulfil(<<d, "read", CharOf[e.attr]>>, e.attr, "ReadResult")
      BY <1>12 DEF OnDescriptorRead
    <2>2. <<d, "read", CharOf[e.attr]>> \in Slot
      BY <1>0, <2>1, EventShape, DelegateAssumption DEF DescEvent, Slot, CharOp
    <2>3. \A q \in Req : SlotOf(q) = <<d, "read", CharOf[e.attr]>> => "ReadResult" \in Fits(q)
      BY QueueFits
    <2> QED BY <2>1, <2>2, <2>3, FulfilPlaces DEF ReplyKind
  <1>13. CASE OnDescriptorWritten
    <2>1. Occurs("DescriptorWritten")
          /\ Fulfil(<<d, "write_descriptor", e.attr>>, e.attr, "Ok")
      BY <1>13 DEF OnDescriptorWritten
    <2>2. <<d, "write_descriptor", e.attr>> \in Slot
      BY <1>0, <2>1, EventShape DEF DescEvent, Slot, DescOp
    <2>3. \A q \in Req : SlotOf(q) = <<d, "write_descriptor", e.attr>> => "Ok" \in Fits(q)
      BY QueueFits
    <2> QED BY <2>1, <2>2, <2>3, FulfilPlaces DEF ReplyKind
  <1> QED BY <1>1, <1>2, <1>3, <1>4, <1>5, <1>6, <1>7, <1>8, <1>9, <1>10, <1>11, <1>12, <1>13
          DEF HandleEvent

\* At the start no call was made, and every place is empty.
LEMMA InitPlaces == Init => IInv
  <1> SUFFICES ASSUME Init
               PROVE  IInv
    OBVIOUS
  <1>1. TypeOK
    BY InitType
  <1>2. QueuesHold /\ SlotsHold /\ HeldSomewhere
    BY EmptyRange DEF Init, QueuesHold, SlotsHold, LinkSlotHolds, HeldSomewhere
  <1>3. MessagesHold
    BY EmptyRange DEF Init, MessagesHold
  <1>4. ReplyFits
    BY DEF Init, ReplyFits
  <1> QED BY <1>1, <1>2, <1>3, <1>4 DEF IInv, FutureInOnePlace, SlotsHold

\* Every step keeps the invariant.
LEMMA StepPlaces == IInv /\ [Next]_vars => IInv'
  <1> SUFFICES ASSUME IInv, [Next]_vars
               PROVE  IInv'
    OBVIOUS
  <1>1. TypeOK'
    BY StepType DEF IInv
  <1>2. CASE ClientScans \/ \E r \in Req : ClientCalls(r)
    BY <1>1, <1>2, ClientPlaces DEF IInv
  <1>3. CASE HandleMessage
    BY <1>1, <1>3, MessagePlaces DEF IInv
  <1>4. CASE HandleEvent
    BY <1>1, <1>4, EventPlaces DEF IInv
  <1>5. CASE Framework
    <2>1. UNCHANGED internalVars
      BY <1>5 DEF Framework
    <2> QED BY <1>1, <2>1, PlacesUnchanged DEF IInv, internalVars
  <1>6. CASE UNCHANGED vars
    BY <1>1, <1>6, PlacesUnchanged DEF IInv, vars, internalVars
  <1> QED BY <1>2, <1>3, <1>4, <1>5, <1>6 DEF Next

\* For every number of devices, attributes and concurrent calls, every waiting future is in
\* exactly the one place its call names, and an answered or dropped one is in none.
THEOREM EveryFutureInOnePlace == Spec => []FutureInOnePlace
  <1>1. IInv => FutureInOnePlace
    BY DEF IInv
  <1> QED BY <1>1, InitPlaces, StepPlaces, PTL DEF Spec

\* No method of a peripheral is ever given a reply it has no match arm for.
THEOREM EveryReplyFits == Spec => []ReplyFits
  <1>1. IInv => ReplyFits
    BY DEF IInv
  <1> QED BY <1>1, InitPlaces, StepPlaces, PTL DEF Spec
=============================================================================
