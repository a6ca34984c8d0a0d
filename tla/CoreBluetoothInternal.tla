----------------------- MODULE CoreBluetoothInternal -----------------------
(***************************************************************************)
(* The thread of the CoreBluetooth backend (src/src/corebluetooth/         *)
(* internal.rs).  It owns every CoreBluetooth object.  Clients send it     *)
(* messages, each with one half of a BtlePlugFuture, and await the other   *)
(* half; the delegate sends it events.  wait_for_message takes one item    *)
(* from either channel and handles it to the end, so a handler is a step.  *)
(*                                                                         *)
(* A future is kept until its reply in one of these places: the message    *)
(* channel, a FIFO queue of the attribute it is about, or the peripheral's *)
(* connected / disconnected slot.  A place that is overwritten or removed  *)
(* drops the futures in it, and whoever awaits one of them never wakes.    *)
(***************************************************************************)
EXTENDS CentralDelegate

CONSTANTS
    Asks,         \* the calls clients may make: a set of [dev, op, attr]
    NoResponse,   \* the characteristics with the WRITE_WITHOUT_RESPONSE property
    Scans         \* BOUND: the scan messages clients send

LinkOp == {"connect", "disconnect", "is_connected"}

Call == [dev : Device, op : CharOp \cup {"write_without_response"}, attr : Char]
          \cup [dev : Device, op : DescOp, attr : Desc]
          \cup [dev : Device, op : LinkOp, attr : {NoAttr}]

ASSUME CallAssumption == Asks \subseteq Call /\ NoResponse \subseteq Char

ScanMessage == {"StartScanning", "StopScanning"}

ASSUME ScanAssumption ==
    /\ Scans \subseteq ScanMessage
    /\ ScanMessage \cap (Req \cup {NoReq}) = {}

(***************************************************************************)
(* future_state[<<d, op, a>>] is the queue <op>_future_state of attribute  *)
(* a of device d, oldest first (push_front and pop_back in the code).      *)
(***************************************************************************)
Slot == (Device \X CharOp \X Char) \cup (Device \X DescOp \X Desc)

SlotsOf(d, A) == {k \in Slot : k[1] = d /\ k[3] \in A}

VARIABLES
    ask,          \* ask[r] : the call whose future is r
    st,           \* st[r]  : where the future of the call is
    reply,        \* reply[r] : the reply_msg of the future
    messages,     \* the CoreBluetoothMessage channel
    handles,      \* handles[d] : the objects of d that clients have been given
    known,        \* the keys of `peripherals`
    tree,         \* tree[d] : its `services`, and their `discovered` flags
    connected_future_state,
    disconnected_future_state,
    future_state,
    hasty         \* history: the devices asked for something before it was time (see Hasty)

futureVars == <<connected_future_state, disconnected_future_state, future_state>>
internalVars == <<ask, st, reply, messages, handles, known, tree, hasty, futureVars>>
vars == <<delegateVars, internalVars>>

Status == {"idle", "sent", "held", "answered", "dropped", "refused"}

\* src: the operation whose completion the reply was made from; seen: the attributes
\* of the services a Connected reply carries.
Reply(kind, src, seen) == [kind |-> kind, src |-> src, seen |-> seen]
NoReply == Reply("None", NoReq, {})
Twice == Reply("set_reply_msg called multiple times", NoReq, {})

NoTree == [has |-> {}, discovered |-> {}]

Init ==
    /\ DelegateInit
    /\ ask \in [Req -> Asks]
    /\ st = [r \in Req |-> "idle"]
    /\ reply = [r \in Req |-> NoReply]
    /\ messages = <<>>
    /\ handles = [d \in Device |-> {}]
    /\ known = {}
    /\ tree = [d \in Device |-> NoTree]
    /\ connected_future_state = [d \in Device |-> NoReq]
    /\ disconnected_future_state = [d \in Device |-> NoReq]
    /\ future_state = [k \in Slot |-> <<>>]
    /\ hasty = {}

----------------------------------------------------------------------------
(* The clients: the methods of src/src/corebluetooth/peripheral.rs. *)

\* write() turns a WithoutResponse that the characteristic does not support into a
\* WithResponse.
OpOf(r) == IF ask[r].op = "write_without_response" /\ ask[r].attr \notin NoResponse
           THEN "write"
           ELSE ask[r].op

SlotOf(r) == <<ask[r].dev, OpOf(r), ask[r].attr>>

\* A method sends its message and awaits the future; with the thread gone, send fails.
ClientCalls(r) ==
    /\ st[r] = "idle"
    /\ ask[r].attr \in handles[ask[r].dev]
    /\ IF panic = "none"
       THEN messages' = Append(messages, r) /\ st' = [st EXCEPT ![r] = "sent"]
       ELSE messages' = messages /\ st' = [st EXCEPT ![r] = "refused"]
    /\ UNCHANGED <<cb, delegate, scanning, panic, ask, reply, handles, known, tree,
                   hasty, futureVars>>

\* Adapter::start_scan and stop_scan await no reply.
ClientScans ==
    /\ panic = "none"
    /\ ScanMessage \cap Range(messages) = {}                    \* BOUND: one in the channel
    /\ \E m \in Scans : /\ m = (IF scanning THEN "StopScanning" ELSE "StartScanning")
                        /\ messages' = Append(messages, m)
    /\ UNCHANGED <<cb, delegate, scanning, panic, ask, st, reply, handles, known, tree,
                   hasty, futureVars>>

----------------------------------------------------------------------------
(* Futures. *)

Held(K) == UNION {Range(future_state[k]) : k \in K}

Slots(S) == {q \in Req : \E d \in S : q \in {connected_future_state[d],
                                             disconnected_future_state[d]}}

\* Seeded fault: the queue becomes a stack.
PushBack(q, r) == <<r>> \o q
\* Seeded fault: the future is queued twice.
PushTwice(q, r) == q \o <<r, r>>

\* push_front, with the oldest at the head here.
Push(q, r) == Append(q, r)

\* pop_back: the oldest future leaves its queue.
Pop(k) == [future_state EXCEPT ![k] = Tail(@)]

\* Option::take
Take(slot, d) == [slot EXCEPT ![d] = NoReq]

\* set_reply(rep) on the future of r (NoReq: on none), while those of S are dropped.
Settle(r, rep, S) ==
    /\ reply' = [q \in Req |-> IF q # r THEN reply[q]
                               ELSE IF reply[q] = NoReply THEN rep ELSE Twice]
    /\ st' = [q \in Req |-> IF q = r THEN "answered"
                            ELSE IF q \in S THEN "dropped" ELSE st[q]]

\* The thread panics: its state goes, and with it both channels and every future in them.
Panic(why) ==
    /\ panic' = why
    /\ st' = [q \in Req |-> IF st[q] \in {"sent", "held"} THEN "dropped" ELSE st[q]]
    /\ scanning' = FALSE
    /\ delegate' = <<>>
    /\ messages' = <<>>
    /\ known' = {}
    /\ tree' = [d \in Device |-> NoTree]
    /\ connected_future_state' = [d \in Device |-> NoReq]
    /\ disconnected_future_state' = [d \in Device |-> NoReq]
    /\ future_state' = [k \in Slot |-> <<>>]
    /\ UNCHANGED <<cb, ask, reply, handles, hasty>>

----------------------------------------------------------------------------
(* Messages.  A call that names a device or an attribute the thread does not know *)
(* ends with its future dropped, and nothing else.                               *)

Receive(r, ops) ==
    /\ messages # <<>>
    /\ r = Head(messages)
    /\ r \in Req /\ OpOf(r) \in ops
    /\ messages' = Tail(messages)

Has(d, a) == d \in known /\ a \in tree[d].has

\* The last connection of d is over, and the thread has heard of it.
Down(d) ==
    /\ cb[d].link = "disconnected"
    /\ connected_future_state[d] = NoReq
    /\ \A i \in DOMAIN delegate :
          delegate[i].dev = d => delegate[i].ev = "DiscoveredPeripheral"

\* Handling r comes too early: a connect() before the last connection is over, or a
\* request, through an object of an earlier connection, before connect() is answered.
Hasty(r) == IF OpOf(r) = "connect" THEN ~ Down(ask[r].dev)
                                   ELSE connected_future_state[ask[r].dev] # NoReq

Notice(r) == hasty' = IF Hasty(r) THEN hasty \cup {ask[r].dev} ELSE hasty

\* Each handler of a request on an attribute calls the framework, then push_front.
RequestOnAttribute(r) ==
    /\ Receive(r, CharOp \cup DescOp)
    /\ LET d == ask[r].dev
           a == ask[r].attr
       IN  IF Has(d, a)
           THEN /\ Ask(d, OpOf(r), a, r)
                /\ future_state' = [future_state EXCEPT ![SlotOf(r)] = Push(@, r)]
                /\ st' = [st EXCEPT ![r] = "held"]
                /\ Notice(r)
           ELSE /\ st' = [st EXCEPT ![r] = "dropped"]
                /\ UNCHANGED <<cb, hasty, future_state>>
    /\ UNCHANGED <<delegate, scanning, panic, ask, reply, handles, known, tree,
                   connected_future_state, disconnected_future_state>>

\* write_value with WithoutResponse: no callback will come, it just always succeeds.
WriteWithoutResponse(r) ==
    /\ Receive(r, {"write_without_response"})
    /\ IF Has(ask[r].dev, ask[r].attr)
       THEN Settle(r, Reply("Ok", r, {}), {})
       ELSE Settle(NoReq, NoReply, {r})
    /\ UNCHANGED <<cb, delegate, scanning, panic, ask, handles, known, tree,
                   hasty, futureVars>>

\* The slot is overwritten: the future of an earlier connect() is dropped with it.
ConnectPeripheral(r) ==
    /\ Receive(r, {"connect"})
    /\ LET d == ask[r].dev
           old == connected_future_state[d]
       IN  IF d \in known
           THEN /\ Connect(d)
                /\ connected_future_state' = [connected_future_state EXCEPT ![d] = r]
                /\ st' = [q \in Req |-> IF q = r THEN "held"
                                        ELSE IF q = old THEN "dropped" ELSE st[q]]
                /\ Notice(r)
           ELSE /\ st' = [st EXCEPT ![r] = "dropped"]
                /\ UNCHANGED <<cb, connected_future_state, hasty>>
    /\ UNCHANGED <<delegate, scanning, panic, ask, reply, handles, known, tree,
                   disconnected_future_state, future_state>>

\* Seeded fault: disconnect() is answered when it is asked.
DisconnectAtOnce(r) ==
    /\ Receive(r, {"disconnect"})
    /\ CancelConnection(ask[r].dev)
    /\ Settle(r, Reply("Ok", NoReq, {}), {})
    /\ UNCHANGED <<delegate, scanning, panic, ask, handles, known, tree, hasty, futureVars>>

DisconnectPeripheral(r) ==
    /\ Receive(r, {"disconnect"})
    /\ LET d == ask[r].dev
           old == disconnected_future_state[d]
       IN  IF d \in known
           THEN /\ CancelConnection(d)
                /\ disconnected_future_state' = [disconnected_future_state EXCEPT ![d] = r]
                /\ st' = [q \in Req |-> IF q = r THEN "held"
                                        ELSE IF q = old THEN "dropped" ELSE st[q]]
           ELSE /\ st' = [st EXCEPT ![r] = "dropped"]
                /\ UNCHANGED <<cb, disconnected_future_state>>
    /\ UNCHANGED <<delegate, scanning, panic, ask, reply, handles, known, tree, hasty,
                   connected_future_state, future_state>>

IsConnected(r) ==
    /\ Receive(r, {"is_connected"})
    /\ LET d == ask[r].dev
           state == IF cb[d].link = "connected" THEN "State(Connected)" ELSE "State(_)"
       IN  IF d \in known
           THEN Settle(r, Reply(state, NoReq, {}), {})
           ELSE Settle(NoReq, NoReply, {r})
    /\ UNCHANGED <<cb, delegate, scanning, panic, ask, handles, known, tree,
                   hasty, futureVars>>

Scan ==
    /\ messages # <<>>
    /\ Head(messages) \in ScanMessage
    /\ messages' = Tail(messages)
    /\ scanning' = (Head(messages) = "StartScanning")
    /\ UNCHANGED <<cb, delegate, panic, ask, st, reply, handles, known, tree,
                   hasty, futureVars>>

----------------------------------------------------------------------------
(* Events of the delegate. *)

Occurs(kind) == delegate # <<>> /\ Head(delegate).ev = kind

Consume == delegate' = Tail(delegate)

\* An event about a device or an attribute the thread does not know.
Ignore ==
    /\ Consume
    /\ UNCHANGED <<cb, scanning, panic, ask, st, reply, messages, handles, known, tree,
                   hasty, futureVars>>

OnDiscoveredPeripheral ==
    /\ Occurs("DiscoveredPeripheral")
    /\ LET d == Head(delegate).dev
       IN  /\ known' = known \cup {d}
           /\ handles' = [handles EXCEPT ![d] = @ \cup {NoAttr}]
    /\ Consume
    /\ UNCHANGED <<cb, scanning, panic, ask, st, reply, messages, tree,
                   hasty, futureVars>>

\* Seeded fault: one discovered service is enough.
AnyComplete(t) == Service \cap t.discovered # {}

\* No service that is not discovered.
Complete(t) == t.has \cap Service \subseteq t.discovered

\* The tree of d becomes t; the futures queued in K were in what it replaces.  When
\* `check`, check_discovered() answers the connect() if every service is discovered.
Discovered(d, t, K, check) ==
    LET all == check /\ Complete(t)
        r   == connected_future_state[d]
    IN  IF all /\ r = NoReq
        THEN Panic("We should still have a future at this point!")
        ELSE /\ Consume
             /\ tree' = [tree EXCEPT ![d] = t]
             /\ future_state' = [k \in Slot |-> IF k \in K THEN <<>> ELSE future_state[k]]
             /\ Settle(IF all THEN r ELSE NoReq, Reply("Connected", NoReq, t.has), Held(K))
             /\ connected_future_state' =
                    IF all THEN Take(connected_future_state, d)
                           ELSE connected_future_state
             /\ handles' = IF all THEN [handles EXCEPT ![d] = @ \cup t.has] ELSE handles
             /\ UNCHANGED <<cb, scanning, panic, ask, messages, known, hasty,
                            disconnected_future_state>>

OnDiscoveredServices ==
    /\ Occurs("DiscoveredServices")
    /\ LET d == Head(delegate).dev
       IN  IF d \notin known THEN Ignore
           ELSE Discovered(d, [has |-> Range(ServicesOf[d]), discovered |-> {}],
                           SlotsOf(d, Attr), FALSE)

\* set_characteristics: a service without characteristics is discovered at once.
\* CBCharacteristic::new takes the descriptors the framework already has.
OnDiscoveredCharacteristics ==
    /\ Occurs("DiscoveredCharacteristics")
    /\ LET d     == Head(delegate).dev
           s     == Head(delegate).attr
           chars == Range(CharsOf[s])
           below == chars \cup UNION {Range(DescsOf[c]) : c \in chars}
           new   == chars \cup UNION {Range(DescsOf[c]) : c \in chars \cap cb[d].cached}
           t     == [has |-> (tree[d].has \ below) \cup new,
                     discovered |-> (tree[d].discovered \ chars)
                                       \cup (IF chars = {} THEN {s} ELSE {})]
       IN  IF d \notin known THEN Ignore
           ELSE IF s \notin tree[d].has
           THEN Panic("Got characteristics for a service we don't know about")
           ELSE Discovered(d, t, SlotsOf(d, below), chars = {})

\* set_characteristic_descriptors
OnDiscoveredCharacteristicDescriptors ==
    /\ Occurs("DiscoveredCharacteristicDescriptors")
    /\ LET d     == Head(delegate).dev
           c     == Head(delegate).attr
           s     == ServiceOf[c]
           descs == Range(DescsOf[c])
           done  == tree[d].discovered \cup {c}
           full  == Range(CharsOf[s]) \subseteq done
           t     == [has |-> tree[d].has \cup descs,
                     discovered |-> IF full THEN done \cup {s} ELSE done]
       IN  IF d \notin known THEN Ignore
           ELSE IF s \notin tree[d].has \/ c \notin tree[d].has
           THEN Panic("Got descriptors for something we don't know about")
           ELSE Discovered(d, t, SlotsOf(d, descs), full)

\* The peripheral fires the future itself when it has all of its services.
OnPeripheralConnect == Occurs("ConnectedDevice") /\ Ignore

\* Seeded fault: a failed connection is not reported.
FailureIgnored == Occurs("ConnectionFailed") /\ Ignore

OnPeripheralConnectionFailed ==
    /\ Occurs("ConnectionFailed")
    /\ LET d == Head(delegate).dev
           r == connected_future_state[d]
       IN  IF d \notin known THEN Ignore
           ELSE IF r = NoReq THEN Panic("connected_future_state.take().unwrap()")
           ELSE /\ Settle(r, Reply("Err", NoReq, {}), {})
                /\ connected_future_state' = Take(connected_future_state, d)
                /\ Consume
                /\ UNCHANGED <<cb, scanning, panic, ask, messages, handles, known, tree,
                               hasty, disconnected_future_state, future_state>>

\* confirm_disconnect answers the disconnect(), if there is one; then the peripheral is
\* removed, and every other future it holds with it.
OnPeripheralDisconnect ==
    /\ Occurs("DisconnectedDevice")
    /\ LET d == Head(delegate).dev
           r == disconnected_future_state[d]
       IN  IF d \notin known THEN Ignore
           ELSE /\ Settle(r, Reply("Ok", NoReq, {}), Held(SlotsOf(d, Attr)) \cup Slots({d}))
                /\ known' = known \ {d}
                /\ tree' = [tree EXCEPT ![d] = NoTree]
                /\ connected_future_state' = Take(connected_future_state, d)
                /\ disconnected_future_state' = Take(disconnected_future_state, d)
                /\ future_state' = [k \in Slot |-> IF k \in SlotsOf(d, Attr) THEN <<>>
                                                   ELSE future_state[k]]
                /\ Consume
                /\ UNCHANGED <<cb, scanning, panic, ask, messages, handles, hasty>>

\* pop_back().unwrap() and set_reply on queue k, for an event about attribute a.
Fulfil(k, a, kind) ==
    LET e == Head(delegate)
    IN  IF ~ Has(e.dev, a) THEN Ignore
        ELSE IF future_state[k] = <<>> THEN Panic("future_state.pop_back().unwrap()")
        ELSE /\ Settle(Head(future_state[k]), Reply(kind, e.req, {}), {})
             /\ future_state' = Pop(k)
             /\ Consume
             /\ UNCHANGED <<cb, scanning, panic, ask, messages, handles, known, tree, hasty,
                            connected_future_state, disconnected_future_state>>

OnCharacteristicSubscribed ==
    /\ Occurs("CharacteristicSubscribed")
    /\ LET e == Head(delegate)
       IN  Fulfil(<<e.dev, "subscribe", e.attr>>, e.attr, "Ok")

OnCharacteristicUnsubscribed ==
    /\ Occurs("CharacteristicUnsubscribed")
    /\ LET e == Head(delegate)
       IN  Fulfil(<<e.dev, "unsubscribe", e.attr>>, e.attr, "Ok")

\* Seeded fault: every value is taken for the answer of a read.
UnguardedRead ==
    /\ Occurs("CharacteristicNotified")
    /\ LET e == Head(delegate)
       IN  Fulfil(<<e.dev, "read", e.attr>>, e.attr, "ReadResult")

\* Seeded fault: a value is taken for a notification while one is on.
NotificationFirst ==
    /\ Occurs("CharacteristicNotified")
    /\ LET e == Head(delegate)
           k == <<e.dev, "read", e.attr>>
       IN  IF e.attr \in cb[e.dev].notifying \/ future_state[k] = <<>> THEN Ignore
           ELSE Fulfil(k, e.attr, "ReadResult")

\* Without a reader the value is a notification, and goes to the peripheral's channel.
OnCharacteristicRead ==
    /\ Occurs("CharacteristicNotified")
    /\ LET e == Head(delegate)
           k == <<e.dev, "read", e.attr>>
       IN  IF Has(e.dev, e.attr) /\ future_state[k] = <<>> THEN Ignore
           ELSE Fulfil(k, e.attr, "ReadResult")

\* Seeded fault: a written characteristic answers from the read queue.
WrittenAnswersRead ==
    /\ Occurs("CharacteristicWritten")
    /\ LET e == Head(delegate)
       IN  Fulfil(<<e.dev, "read", e.attr>>, e.attr, "Ok")

OnCharacteristicWritten ==
    /\ Occurs("CharacteristicWritten")
    /\ LET e == Head(delegate)
       IN  Fulfil(<<e.dev, "write", e.attr>>, e.attr, "Ok")

\* The queue it answers from is the one of the characteristic the descriptor is under; the
\* data of the event is the value that characteristic had last.
OnDescriptorRead ==
    /\ Occurs("DescriptorNotified")
    /\ LET e == Head(delegate)
       IN  Fulfil(<<e.dev, "read", CharOf[e.attr]>>, e.attr, "ReadResult")

\* Seeded fault: a written descriptor answers from its characteristic's queue.
WrittenToItsCharacteristic ==
    /\ Occurs("DescriptorWritten")
    /\ LET e == Head(delegate)
       IN  Fulfil(<<e.dev, "write", CharOf[e.attr]>>, e.attr, "Ok")

OnDescriptorWritten ==
    /\ Occurs("DescriptorWritten")
    /\ LET e == Head(delegate)
       IN  Fulfil(<<e.dev, "write_descriptor", e.attr>>, e.attr, "Ok")

----------------------------------------------------------------------------
HandleMessage ==
    \/ Scan
    \/ \E r \in Req : \/ RequestOnAttribute(r)
                      \/ WriteWithoutResponse(r)
                      \/ ConnectPeripheral(r)
                      \/ DisconnectPeripheral(r)
                      \/ IsConnected(r)

HandleEvent ==
    \/ OnDiscoveredPeripheral
    \/ OnDiscoveredServices
    \/ OnDiscoveredCharacteristics
    \/ OnDiscoveredCharacteristicDescriptors
    \/ OnPeripheralConnect
    \/ OnPeripheralConnectionFailed
    \/ OnPeripheralDisconnect
    \/ OnCharacteristicSubscribed
    \/ OnCharacteristicUnsubscribed
    \/ OnCharacteristicRead
    \/ OnCharacteristicWritten
    \/ OnDescriptorRead
    \/ OnDescriptorWritten

Framework == \E d \in Device : Callback(d) /\ UNCHANGED internalVars

Next ==
    \/ ClientScans
    \/ \E r \in Req : ClientCalls(r)
    \/ HandleMessage
    \/ HandleEvent
    \/ Framework

Spec == Init /\ [][Next]_vars

(***************************************************************************)
(* Fairness.  futures::select! polls the two channels in random order, so  *)
(* neither starves; the framework completes every operation of a link that *)
(* is up, and answers a connect or a cancel.  A client owes nothing.       *)
(***************************************************************************)
Answers(d) ==
    /\ panic = "none"
    /\ \/ AttCallback(d)
       \/ DidConnectPeripheral(d)
       \/ cb[d].link = "disconnecting" /\ DidDisconnectPeripheral(d)
    /\ UNCHANGED <<scanning, panic, internalVars>>

Fairness ==
    /\ WF_vars(HandleMessage)
    /\ WF_vars(HandleEvent)
    /\ \A d \in Device : WF_vars(Answers(d))

FairSpec == Spec /\ Fairness

----------------------------------------------------------------------------
(* Properties. *)

PanicReason == {"none", "We should still have a future at this point!",
                "Got characteristics for a service we don't know about",
                "Got descriptors for something we don't know about",
                "connected_future_state.take().unwrap()",
                "future_state.pop_back().unwrap()"}

ReplyKind == {"None", "Ok", "Err", "ReadResult", "Connected", "State(Connected)",
              "State(_)", "set_reply_msg called multiple times"}

\* Type invariant of the thread, its channels and the replies.
TypeOK ==
    /\ DelegateTypeOK
    /\ panic \in PanicReason
    /\ ask \in [Req -> Asks]
    /\ st \in [Req -> Status]
    /\ reply \in [Req -> [kind : ReplyKind, src : Req \cup {NoReq}, seen : SUBSET Attr]]
    /\ messages \in Seq(Req \cup ScanMessage)
    /\ handles \in [Device -> SUBSET Attr]
    /\ known \subseteq Device
    /\ tree \in [Device -> [has : SUBSET Attr, discovered : SUBSET Attr]]
    /\ connected_future_state \in [Device -> Req \cup {NoReq}]
    /\ disconnected_future_state \in [Device -> Req \cup {NoReq}]
    /\ future_state \in [Slot -> Seq(Req)]
    /\ hasty \subseteq Device

Distinct(q) == \A i, j \in DOMAIN q : q[i] = q[j] => i = j

QueuesHold ==
    \A k \in Slot :
        /\ Distinct(future_state[k])
        /\ \A q \in Range(future_state[k]) : st[q] = "held" /\ SlotOf(q) = k

LinkSlotHolds(slot, op) ==
    \A d \in Device :
        slot[d] # NoReq => st[slot[d]] = "held" /\ ask[slot[d]].dev = d
                                                /\ OpOf(slot[d]) = op

MessagesHold ==
    /\ \A r \in Req : st[r] = "sent" <=> r \in Range(messages)
    /\ \A i, j \in DOMAIN messages :
          messages[i] = messages[j] /\ messages[i] \in Req => i = j

HeldSomewhere ==
    \A r \in Req : st[r] = "held" =>
        \/ r = connected_future_state[ask[r].dev]
        \/ r = disconnected_future_state[ask[r].dev]
        \/ SlotOf(r) \in Slot /\ r \in Range(future_state[SlotOf(r)])

\* A future that waits is in exactly one place, the one its call names; one that was
\* answered or dropped is in none.  Every handler moves futures between the channel, the
\* queues and the slots by hand: one left behind would be answered twice, one lost would
\* be waited for although nothing can answer it.
FutureInOnePlace ==
    /\ QueuesHold
    /\ LinkSlotHolds(connected_future_state, "connect")
    /\ LinkSlotHolds(disconnected_future_state, "disconnect")
    /\ MessagesHold
    /\ HeldSomewhere

\* The replies that the method awaiting r has a match arm for (`_ => panic!` is the rest).
Fits(r) ==
    CASE OpOf(r) \in {"read", "read_descriptor"} -> {"ReadResult"}
      [] OpOf(r) = "connect" -> {"Connected", "Err"}
      [] OpOf(r) = "is_connected" -> {"State(Connected)", "State(_)"}
      [] OTHER -> {"Ok"}

\* A client is never given a reply its method does not expect, whatever was queued,
\* replaced or answered from the wrong queue before: no method panics on its reply, and
\* set_reply never on a reply that is there already.
ReplyFits ==
    \A r \in Req : IF st[r] = "answered" THEN reply[r].kind \in Fits(r)
                                         ELSE reply[r] = NoReply

\* The inductive invariant: a handler finds the futures it answers in their place, of
\* the right kind and not answered yet.
IInv == TypeOK /\ FutureInOnePlace /\ ReplyFits

\* A link of d is over, and the thread has not heard of it yet.
LossQueued(d) == \E i \in DOMAIN delegate : delegate[i].dev = d /\ delegate[i].ev = "DisconnectedDevice"

\* A call is answered at the latest by its own completion: values and acknowledgements that
\* came before it, a notification that is taken for the answer of a read among them, only let
\* the calls of a queue end earlier.  So a notification costs a read its own value (the read
\* returns the notified one), and never its answer, nor that of a later read.  The exceptions
\* are an error that was swallowed, and a link that is over before the thread heard of it.
AnsweredInTime ==
    [][\A r \in Req :
          /\ OpOf(r) \in CharOp \cup {"write_descriptor"} /\ st[r] = "held"
          /\ delegate # <<>> /\ Head(delegate).req = r /\ delegate' = Tail(delegate)
          => st'[r] # "held" \/ cb[ask[r].dev].failed \/ LossQueued(ask[r].dev)]_vars

\* No two calls live off one acknowledgement of the device, and a write that succeeded
\* has one, of a write to the same attribute.
OwnAck ==
    \A r \in Req :
        /\ \A q \in Req : reply[r].src = reply[q].src /\ r # q => reply[r].src = NoReq
        /\ reply[r].kind = "Ok" /\ OpOf(r) \in {"write", "write_descriptor"} =>
              reply[r].src \in Req /\ SlotOf(reply[r].src) = SlotOf(r)

\* Discovery reports something twice: a service that another one includes, or one of two
\* services of the device, or of two characteristics of a service, that have one UUID.
FoundTwice ==
    \/ \E s \in Service : Includes[s] # <<>> \/ ~ IsInjective(CharsOf[s])
    \/ \E d \in Device : ~ IsInjective(ServicesOf[d])

\* A write is answered by the acknowledgement of itself or, after an error that was
\* swallowed, of a write queued behind it: never of one that is over already, unless a
\* client was hasty, or a second discovery has replaced what the first one found.
AckNotStale ==
    [][\A r \in Req :
          LET q == reply'[r].src
          IN  /\ st[r] = "held" /\ st'[r] = "answered"
              /\ OpOf(r) \in {"write", "write_descriptor"}
              => q = r \/ st[q] = "held" \/ hasty # {} \/ FoundTwice]_vars

\* What the device offers, all the way down.
WholeTree(d) ==
    LET S == Range(ServicesOf[d])
        C == {c \in Char : ServiceOf[c] \in S}
    IN  S \cup C \cup {x \in Desc : CharOf[x] \in C}

\* When connect() returns, the client is given the whole tree of the device: check_discovered
\* waits for the last characteristic of the last service, in whatever order they arrive.
\* The exception is a connection that is over before connect() is answered: the framework has
\* forgotten the descriptors that a second result for an included service would find.
ConnectedMeansDiscovered ==
    [][\A r \in Req : reply[r].kind # "Connected" /\ reply'[r].kind = "Connected"
          => reply'[r].seen = WholeTree(ask[r].dev) \/ LossQueued(ask[r].dev)]_vars

\* When disconnect() returns the link is down, unless a client was hasty.
DisconnectedMeansDown ==
    [][\A r \in Req :
          OpOf(r) = "disconnect" /\ st[r] # "answered" /\ st'[r] = "answered"
          => cb[ask[r].dev].link = "disconnected" \/ ask[r].dev \in hasty]_vars

\* Nothing more will come of d by itself.
Quiet(d) ==
    /\ cb[d].att = <<>> /\ ~ cb[d].dial
    /\ cb[d].link \in {"connected", "disconnected"}
    /\ \A i \in DOMAIN delegate : delegate[i].dev # d

\* What makes a future that is held wait for ever: an error the delegate swallowed, the read
\* of a descriptor, the connect() of a device without services, and a disconnect() while no
\* link is being ended: there was nothing to cancel when it was asked.
Stranded(r) ==
    /\ st[r] = "held"
    /\ \/ cb[ask[r].dev].failed
       \/ OpOf(r) = "read_descriptor"
       \/ OpOf(r) = "connect" /\ ServicesOf[ask[r].dev] = <<>>
       \/ OpOf(r) = "disconnect" /\ cb[ask[r].dev].link # "disconnecting"
                                 /\ ~ LossQueued(ask[r].dev)

\* The quiet deadlocks that future.rs fears have no other causes: whenever the framework
\* has nothing left to do for a device, no other future of it is still held.
NoQuietDeadlock ==
    \A r \in Req : st[r] = "held" /\ Quiet(ask[r].dev) => Stranded(r)

\* The thread dies only of: the read of a descriptor, a hasty client, an error while
\* changing a subscription, or a device with attributes that discovery reports twice.
PanicNeedsCause ==
    panic # "none" =>
        \/ \E r \in Req : OpOf(r) = "read_descriptor" /\ st[r] # "idle"
        \/ hasty # {}
        \/ {"subscribe", "unsubscribe"} \cap MayFail # {}
        \/ FoundTwice

\* Every call is settled in the end: the thread reads its channels for ever and no
\* discovery, reconnection or stream of advertisements postpones a reply without end.
EventuallySettled ==
    \A r \in Req : st[r] \in {"sent", "held"} ~> st[r] \in {"answered", "dropped"} \/ Stranded(r)

----------------------------------------------------------------------------
(* What the sources say and the code does not do: each of these is violated. *)

\* future.rs: a future "that we can always expect to return".
AlwaysReturns == \A r \in Req : st[r] \in {"sent", "held"} ~> st[r] = "answered"

\* check_discovered: "We should still have a future at this point!"
StillHaveFuture == panic # "We should still have a future at this point!"

\* api/mod.rs: a write with response returns an error "if the device returns an error".
WriteOutcome ==
    \A r \in Req : reply[r].kind = "Ok" /\ OpOf(r) = "write" => reply[r].src = r

\* api/mod.rs: a read returns "the response from the device".  What it returns is the value
\* that the characteristic had last, and the operation whose completion brought it (src) was
\* not always a read of the characteristic.
ReadOutcome ==
    \A r \in Req : reply[r].kind = "ReadResult" =>
        LET q == reply[r].src
        IN  q # NoReq => SlotOf(q) = SlotOf(r)
=============================================================================
