--------------------- MODULE CoreBluetoothAdapterProofs ---------------------
(***************************************************************************)
(* Theorems of CoreBluetoothAdapter, for every set of devices, calls and   *)
(* streams and every capacity of the channels.                             *)
(***************************************************************************)
EXTENDS CoreBluetoothAdapter, CoreBluetoothPipelineProofs

----------------------------------------------------------------------------
(* What the steps of the thread do to what it knows. *)

\* A result of the discovery leaves `peripherals` of the thread alone, or kills the thread and its channel.
LEMMA DiscoveredKnows ==
    ASSUME NEW d, NEW t, NEW K, NEW check, Discovered(d, t, K, check)
    PROVE  \/ known' = known /\ panic' = panic
           \/ panic' # "none" /\ delegate' = <<>>
BY DEF Discovered, Panic

\* So does the answer of an attribute operation.
LEMMA FulfilKnows ==
    ASSUME NEW k, NEW a, NEW kind, Fulfil(k, a, kind)
    PROVE  \/ known' = known /\ panic' = panic
           \/ panic' # "none" /\ delegate' = <<>>
BY DEF Fulfil, Ignore, Panic

\* Only a discovery and a disconnection change the set of known devices, unless the thread
\* panics.
LEMMA ThreadKnows ==
    ASSUME HandleEvent
    PROVE  LET d == Head(delegate).dev
           IN  /\ delegate # <<>>
               /\ \/ /\ panic' = panic
                     /\ known' = IF Head(delegate).ev = "DiscoveredPeripheral" THEN known \cup {d}
                                   ELSE IF Head(delegate).ev = "DisconnectedDevice" THEN known \ {d} ELSE known
                  \/ panic' # "none" /\ delegate' = <<>>
  <1> DEFINE e == Head(delegate)
             d == e.dev
             Still == \/ known' = known /\ panic' = panic
                      \/ panic' # "none" /\ delegate' = <<>>
  <1>1. CASE OnDiscoveredPeripheral
    BY <1>1 DEF OnDiscoveredPeripheral, Occurs
  <1>2. CASE OnPeripheralDisconnect
    BY <1>2 DEF OnPeripheralDisconnect, Occurs, Ignore
  <1>3. ASSUME NEW kind, Occurs(kind), Still,
               kind \notin {"DiscoveredPeripheral", "DisconnectedDevice"}
        PROVE  /\ delegate # <<>>
               /\ \/ /\ panic' = panic
                     /\ known' = IF e.ev = "DiscoveredPeripheral" THEN known \cup {d}
                                   ELSE IF e.ev = "DisconnectedDevice" THEN known \ {d} ELSE known
                  \/ panic' # "none" /\ delegate' = <<>>
    BY <1>3 DEF Occurs
  <1>4. CASE OnDiscoveredServices
    <2>1. Occurs("DiscoveredServices")
          /\ (Ignore \/ \E t : Discovered(d, t, SlotsOf(d, Attr), FALSE))
      BY <1>4 DEF OnDiscoveredServices
    <2>2. Still
      BY <2>1, DiscoveredKnows DEF Ignore
    <2> QED BY <2>1, <2>2, <1>3
  <1>5. CASE OnDiscoveredCharacteristics
    <2>1. /\ Occurs("DiscoveredCharacteristics")
          /\ \/ Ignore
             \/ Panic("Got characteristics for a service we don't know about")
             \/ \E t, A, full : Discovered(d, t, SlotsOf(d, A), full)
      BY <1>5 DEF OnDiscoveredCharacteristics
    <2>2. Still
      BY <2>1, DiscoveredKnows DEF Ignore, Panic
    <2> QED BY <2>1, <2>2, <1>3
  <1>6. CASE OnDiscoveredCharacteristicDescriptors
    <2>1. /\ Occurs("DiscoveredCharacteristicDescriptors")
          /\ \/ Ignore
             \/ Panic("Got descriptors for something we don't know about")
             \/ \E t, A, full : Discovered(d, t, SlotsOf(d, A), full)
      BY <1>6 DEF OnDiscoveredCharacteristicDescriptors
    <2>2. Still
      BY <2>1, DiscoveredKnows DEF Ignore, Panic
    <2> QED BY <2>1, <2>2, <1>3
  <1>7. CASE OnPeripheralConnect
    <2>1. Occurs("ConnectedDevice") /\ Still
      BY <1>7 DEF OnPeripheralConnect, Ignore
    <2> QED BY <2>1, <1>3
  <1>8. CASE OnPeripheralConnectionFailed
    <2>1. Occurs("ConnectionFailed") /\ Still
      BY <1>8 DEF OnPeripheralConnectionFailed, Ignore, Panic
    <2> QED BY <2>1, <1>3
  <1>9. CASE OnCharacteristicSubscribed
    <2>1. Occurs("CharacteristicSubscribed") /\ Still
      BY <1>9, FulfilKnows DEF OnCharacteristicSubscribed
    <2> QED BY <2>1, <1>3
  <1>10. CASE OnCharacteristicUnsubscribed
    <2>1. Occurs("CharacteristicUnsubscribed") /\ Still
      BY <1>10, FulfilKnows DEF OnCharacteristicUnsubscribed
    <2> QED BY <2>1, <1>3
  <1>11. CASE OnCharacteristicRead
    <2>1. Occurs("CharacteristicNotified") /\ Still
      BY <1>11, FulfilKnows DEF OnCharacteristicRead, Ignore
    <2> QED BY <2>1, <1>3
  <1>12. CASE OnCharacteristicWritten
    <2>1. Occurs("CharacteristicWritten") /\ Still
      BY <1>12, FulfilKnows DEF OnCharacteristicWritten
    <2> QED BY <2>1, <1>3
  <1>13. CASE OnDescriptorRead
    <2>1. Occurs("DescriptorNotified") /\ Still
      BY <1>13, FulfilKnows DEF OnDescriptorRead
    <2> QED BY <2>1, <1>3
  <1>14. CASE OnDescriptorWritten
    <2>1. Occurs("DescriptorWritten") /\ Still
      BY <1>14, FulfilKnows DEF OnDescriptorWritten
    <2> QED BY <2>1, <1>3
  <1> QED BY <1>1, <1>2, <1>4, <1>5, <1>6, <1>7, <1>8, <1>9, <1>10, <1>11, <1>12, <1>13, <1>14
          DEF HandleEvent

\* No other step of the thread, its clients or the framework changes that set.
LEMMA OthersKnow ==
    ASSUME Others
    PROVE  known' = known /\ panic' = panic /\ (panic # "none" => delegate' = delegate)
  <1>1. CASE ClientScans \/ \E r \in Req : ClientCalls(r)
    BY <1>1 DEF ClientScans, ClientCalls
  <1>2. CASE HandleMessage
    BY <1>2 DEF HandleMessage, Scan, RequestOnAttribute, WriteWithoutResponse,
       ConnectPeripheral, DisconnectPeripheral, IsConnected
  <1>3. CASE Framework
    BY <1>3 DEF Framework, Callback, internalVars
  <1> QED BY <1>1, <1>2, <1>3 DEF Others

----------------------------------------------------------------------------
(* The channel to the adapter's task. *)

\* What the channel says of d does not change when an event is appended, and the event has
\* the last word.
LEMMA AppendSays ==
    ASSUME ChannelType, NEW x \in CentralEvent, NEW d \in Device,
           NEW n \in Nat, n = Len(adapter_channel),
           adapter_channel' = Append(adapter_channel, x),
           UNCHANGED <<peripherals, erased>>
    PROVE  /\ \A i \in 0..n : OutAfter(i, d) => OutAfter(i, d)'
           /\ x # Found(d) /\ OutAfter(n, d) => OutAfter(n + 1, d)'
           /\ x # Gone(d) /\ InAfter(n, d) => InAfter(n + 1, d)'
           /\ x = Gone(d) => OutAfter(n + 1, d)'
           /\ x = Found(d) => InAfter(n + 1, d)'
  <1>1. /\ adapter_channel'[n + 1] = x
        /\ \A k \in 1..n : adapter_channel'[k] = adapter_channel[k]
    BY DEF ChannelType
  <1>2. \A k \in 1..(n + 1) : k \in 1..n \/ k = n + 1
    OBVIOUS
  <1>3. Found(d)' = Found(d) /\ Gone(d)' = Gone(d)
    BY DEF Found, Gone
  <1>4. ASSUME NEW i \in 0..n, OutAfter(i, d)
        PROVE  OutAfter(i, d)'
    <2>1. \A k \in 1..i : adapter_channel'[k] = adapter_channel[k]
      BY <1>1
    <2> QED BY <1>3, <1>4, <2>1 DEF OutAfter
  <1>5. ASSUME x # Found(d), OutAfter(n, d)
        PROVE  OutAfter(n + 1, d)'
    BY <1>1, <1>2, <1>3, <1>5 DEF OutAfter
  <1>6. ASSUME x # Gone(d), InAfter(n, d)
        PROVE  InAfter(n + 1, d)'
    BY <1>1, <1>2, <1>3, <1>6 DEF InAfter
  <1>7. x = Gone(d) => OutAfter(n + 1, d)'
    BY <1>1, <1>2, <1>3 DEF OutAfter
  <1>8. x = Found(d) => InAfter(n + 1, d)'
    BY <1>1, <1>2, <1>3 DEF InAfter
  <1> QED BY <1>4, <1>5, <1>6, <1>7, <1>8

\* Handling the first event makes true of the map what the channel said of it.
LEMMA TakeSays ==
    ASSUME ChannelType, NEW d \in Device, adapter_channel # <<>>,
           adapter_channel' = Tail(adapter_channel),
           LET e == Head(adapter_channel)
           IN  /\ e = Gone(d) \/ (d \notin peripherals /\ e # Found(d)) => d \notin peripherals'
               /\ e = Found(d) \/ (d \in peripherals \cup erased /\ e # Gone(d))
                     => d \in peripherals' \cup erased'
    PROVE  \A i \in 1..Len(adapter_channel) : /\ OutAfter(i, d) => OutAfter(i - 1, d)'
                                              /\ InAfter(i, d) => InAfter(i - 1, d)'
  <1> SUFFICES ASSUME NEW i \in 1..Len(adapter_channel)
               PROVE  /\ OutAfter(i, d) => OutAfter(i - 1, d)'
                      /\ InAfter(i, d) => InAfter(i - 1, d)'
    OBVIOUS
  <1> DEFINE n == Len(adapter_channel)
             e == Head(adapter_channel)
  <1>1. /\ n \in Nat /\ e = adapter_channel[1]
        /\ \A k \in 1..(n - 1) : adapter_channel'[k] = adapter_channel[k + 1]
    BY DEF ChannelType
  <1> HIDE DEF n, e
  <1>2. i \in Nat /\ 1 <= i /\ i <= n
    BY <1>1 DEF n
  <1>3. \A k \in 1..(i - 1) : k + 1 \in 1..i /\ adapter_channel'[k] = adapter_channel[k + 1]
    BY <1>1, <1>2
  <1>4. \A j \in 1..i : j # 1 => j - 1 \in 1..(i - 1) /\ adapter_channel'[j - 1] = adapter_channel[j]
    BY <1>1, <1>2
  <1>5. Found(d)' = Found(d) /\ Gone(d)' = Gone(d)
    BY DEF Found, Gone
  <1>6. ASSUME OutAfter(i, d)
        PROVE  OutAfter(i - 1, d)'
    <2>1. CASE \E j \in 2..i : /\ adapter_channel[j] = Gone(d)
                               /\ \A k \in 1..i : k > j => adapter_channel[k] # Found(d)
      <3>1. PICK j \in 2..i : /\ adapter_channel[j] = Gone(d)
                              /\ \A k \in 1..i : k > j => adapter_channel[k] # Found(d)
        BY <2>1
      <3>2. j - 1 \in 1..(i - 1) /\ adapter_channel'[j - 1] = Gone(d)
        BY <1>2, <1>4, <3>1
      <3>3. \A k \in 1..(i - 1) : k > j - 1 => adapter_channel'[k] # Found(d)
        BY <1>3, <3>1
      <3> QED BY <1>5, <3>2, <3>3 DEF OutAfter
    <2>2. CASE /\ e = Gone(d) \/ (d \notin peripherals /\ e # Found(d))
               /\ \A k \in 2..i : adapter_channel[k] # Found(d)
      <3>1. d \notin peripherals'
        BY <2>2 DEF e
      <3>2. \A k \in 1..(i - 1) : adapter_channel'[k] # Found(d)
        BY <1>3, <2>2
      <3> QED BY <1>5, <3>1, <3>2 DEF OutAfter
    <2> QED BY <1>1, <1>2, <1>6, <2>1, <2>2 DEF OutAfter
  <1>7. ASSUME InAfter(i, d)
        PROVE  InAfter(i - 1, d)'
    <2>1. CASE \E j \in 2..i : /\ adapter_channel[j] = Found(d)
                               /\ \A k \in 1..i : k > j => adapter_channel[k] # Gone(d)
      <3>1. PICK j \in 2..i : /\ adapter_channel[j] = Found(d)
                              /\ \A k \in 1..i : k > j => adapter_channel[k] # Gone(d)
        BY <2>1
      <3>2. j - 1 \in 1..(i - 1) /\ adapter_channel'[j - 1] = Found(d)
        BY <1>2, <1>4, <3>1
      <3>3. \A k \in 1..(i - 1) : k > j - 1 => adapter_channel'[k] # Gone(d)
        BY <1>3, <3>1
      <3> QED BY <1>5, <3>2, <3>3 DEF InAfter
    <2>2. CASE /\ e = Found(d) \/ (d \in peripherals \cup erased /\ e # Gone(d))
               /\ \A k \in 2..i : adapter_channel[k] # Gone(d)
      <3>1. d \in peripherals' \cup erased'
        BY <2>2 DEF e
      <3>2. \A k \in 1..(i - 1) : adapter_channel'[k] # Gone(d)
        BY <1>3, <2>2
      <3> QED BY <1>5, <3>1, <3>2 DEF InAfter
    <2> QED BY <1>1, <1>2, <1>7, <2>1, <2>2 DEF InAfter
  <1> QED BY <1>6, <1>7

----------------------------------------------------------------------------
(* The inductive invariant. *)

\* ChannelInv, of a channel with n events.
Consistent(n) ==
    \A d \in Device :
        /\ \A i \in 1..n : adapter_channel[i] = Found(d) => OutAfter(i - 1, d)
        /\ panic = "none" => IF d \in known THEN InAfter(n, d) ELSE OutAfter(n, d)

\* ChannelInv says that the first n events are consistent, of a channel of n events ...
LEMMA ConsistentNow ==
    ASSUME ChannelType, NEW n \in Nat, n = Len(adapter_channel), ChannelInv
    PROVE  Consistent(n)
BY DEF ChannelType, ChannelInv, Consistent, OutAfter, InAfter

\* ... and follows from it in the next state.
LEMMA ConsistentNext ==
    ASSUME ChannelType', NEW n \in Nat, n = Len(adapter_channel)', Consistent(n)'
    PROVE  ChannelInv'
  <1>1. DOMAIN adapter_channel' = 1..n
    BY DEF ChannelType
  <1>2. ASSUME NEW d \in Device
        PROVE  /\ InAfter(n, d)' => InAfter(Len(adapter_channel), d)'
               /\ OutAfter(n, d)' => OutAfter(Len(adapter_channel), d)'
    BY DEF InAfter, OutAfter
  <1> QED BY <1>1, <1>2 DEF ChannelInv, Consistent

\* Events of different kinds or devices are different, so that a search for one finds no other.
LEMMA EventsDiffer ==
    ASSUME NEW d, NEW e
    PROVE  /\ Central("DeviceDiscovered", e) = Found(d) <=> e = d
           /\ Central("DeviceDisconnected", e) = Gone(d) <=> e = d
           /\ Central("DeviceDiscovered", e) # Gone(d)
           /\ Central("DeviceDisconnected", e) # Found(d)
           /\ Central("DeviceUpdated", e) # Found(d)
           /\ Central("DeviceUpdated", e) # Gone(d)
BY DEF Found, Gone, Central

\* The thread tells the adapter what it learns.
LEMMA TellKeeps ==
    ASSUME ChannelType, ChannelInv, panic = "none", NEW x \in ChannelEvent,
           adapter_channel' = Append(adapter_channel, x), UNCHANGED <<peripherals, erased>>,
           \A d \in Device : x = Found(d) => d \notin known,
           panic' = "none" => \A d \in Device :
               d \in known' <=> x = Found(d) \/ (d \in known /\ x # Gone(d))
    PROVE  ChannelType' /\ ChannelInv'
  <1>1. PICK n \in Nat : n = Len(adapter_channel)
    BY DEF ChannelType
  <1>2. ChannelType' /\ n + 1 = Len(adapter_channel)'
    BY <1>1 DEF ChannelType
  <1>3. x \in CentralEvent
    BY AdapterAssumption DEF ChannelEvent, CentralEvent
  <1>4. Consistent(n)
    BY <1>1, ConsistentNow
  <1>5. ASSUME NEW d \in Device
        PROVE  /\ \A i \in 1..(n + 1) : adapter_channel'[i] = Found(d)' => OutAfter(i - 1, d)'
               /\ panic' = "none" => IF d \in known' THEN InAfter(n + 1, d)'
                                                     ELSE OutAfter(n + 1, d)'
    <2>1. /\ \A i \in 1..n : adapter_channel[i] = Found(d) => OutAfter(i - 1, d)
          /\ IF d \in known THEN InAfter(n, d) ELSE OutAfter(n, d)
      BY <1>4 DEF Consistent
    <2>2. /\ \A i \in 0..n : OutAfter(i, d) => OutAfter(i, d)'
          /\ x # Found(d) /\ OutAfter(n, d) => OutAfter(n + 1, d)'
          /\ x # Gone(d) /\ InAfter(n, d) => InAfter(n + 1, d)'
          /\ x = Gone(d) => OutAfter(n + 1, d)'
          /\ x = Found(d) => InAfter(n + 1, d)'
      BY <1>1, <1>3, AppendSays
    <2>3. ASSUME NEW i \in 1..(n + 1), adapter_channel'[i] = Found(d)'
          PROVE  OutAfter(i - 1, d)'
      <3>1. Found(d)' = Found(d)
        BY DEF Found
      <3>2. CASE i \in 1..n
        <4>1. adapter_channel'[i] = adapter_channel[i] /\ i - 1 \in 0..n
          BY <1>1, <3>2 DEF ChannelType
        <4> QED BY <2>1, <2>2, <2>3, <3>1, <3>2, <4>1
      <3>3. CASE i = n + 1
        <4>1. adapter_channel'[i] = x /\ i - 1 = n /\ n \in 0..n
          BY <1>1, <3>3 DEF ChannelType
        <4>2. OutAfter(n, d)
          BY <2>1, <2>3, <3>1, <4>1
        <4>3. OutAfter(n, d)'
          BY <2>2, <4>1, <4>2
        <4> QED BY <4>1, <4>3
      <3> QED BY <3>2, <3>3
    <2> QED BY <2>1, <2>2, <2>3
  <1>6. Consistent(n + 1)'
    BY <1>5 DEF Consistent
  <1> QED BY <1>2, <1>6, ConsistentNext

\* The adapter's task does to the map what the first event says.
LEMMA TakeKeeps ==
    ASSUME ChannelType, ChannelInv, adapter_channel # <<>>,
           adapter_channel' = Tail(adapter_channel), UNCHANGED <<known, panic>>,
           \A d \in Device :
               LET e == Head(adapter_channel)
               IN  /\ e = Gone(d) \/ (d \notin peripherals /\ e # Found(d)) => d \notin peripherals'
                   /\ e = Found(d) \/ (d \in peripherals \cup erased /\ e # Gone(d))
                         => d \in peripherals' \cup erased'
    PROVE  ChannelType' /\ ChannelInv'
  <1>1. PICK n \in Nat : n + 1 = Len(adapter_channel)
    <2>1. Len(adapter_channel) - 1 \in Nat /\ (Len(adapter_channel) - 1) + 1 = Len(adapter_channel)
      BY DEF ChannelType
    <2> QED BY <2>1
  <1>2. /\ ChannelType' /\ n = Len(adapter_channel)'
        /\ \A k \in 1..n : adapter_channel'[k] = adapter_channel[k + 1]
    BY <1>1 DEF ChannelType
  <1>3. Consistent(n + 1)
    BY <1>1, ConsistentNow
  <1>4. ASSUME NEW d \in Device
        PROVE  /\ \A i \in 1..n : adapter_channel'[i] = Found(d)' => OutAfter(i - 1, d)'
               /\ panic' = "none" => IF d \in known' THEN InAfter(n, d)' ELSE OutAfter(n, d)'
    <2>1. /\ \A i \in 1..(n + 1) : adapter_channel[i] = Found(d) => OutAfter(i - 1, d)
          /\ panic = "none" => IF d \in known THEN InAfter(n + 1, d) ELSE OutAfter(n + 1, d)
      BY <1>3 DEF Consistent
    <2>2. \A i \in 1..(n + 1) : /\ OutAfter(i, d) => OutAfter(i - 1, d)'
                                /\ InAfter(i, d) => InAfter(i - 1, d)'
      BY <1>1, TakeSays
    <2>3. n + 1 \in 1..(n + 1) /\ (n + 1) - 1 = n
      OBVIOUS
    <2>4. panic' = "none" => IF d \in known' THEN InAfter(n, d)' ELSE OutAfter(n, d)'
      BY <2>1, <2>2, <2>3
    <2>5. ASSUME NEW i \in 1..n, adapter_channel'[i] = Found(d)'
          PROVE  OutAfter(i - 1, d)'
      <3>1. i + 1 \in 1..(n + 1) /\ (i + 1) - 1 = i /\ i \in 1..(n + 1)
        OBVIOUS
      <3>2. adapter_channel[i + 1] = Found(d)
        BY <1>2, <2>5 DEF Found
      <3>3. OutAfter(i, d)
        BY <2>1, <3>1, <3>2
      <3> QED BY <2>2, <3>1, <3>3
    <2> QED BY <2>4, <2>5
  <1>5. Consistent(n)'
    BY <1>4 DEF Consistent
  <1> QED BY <1>2, <1>5, ConsistentNext

\* A step that leaves the channel, and the map as the channel sees it, alone.
LEMMA LeaveKeeps ==
    ASSUME ChannelType, ChannelInv, UNCHANGED adapter_channel,
           panic' = "none" => panic = "none" /\ known' = known,
           peripherals' \subseteq peripherals,
           \A d \in Device :
               d \in peripherals \cup erased =>
                   \/ d \in peripherals' \cup erased'
                   \/ \E i \in DOMAIN adapter_channel : adapter_channel[i] = Gone(d)
    PROVE  ChannelType' /\ ChannelInv'
  <1>1. PICK n \in Nat : n = Len(adapter_channel)
    BY DEF ChannelType
  <1>2. ChannelType' /\ n = Len(adapter_channel)' /\ DOMAIN adapter_channel = 1..n
    BY <1>1 DEF ChannelType
  <1>3. Consistent(n)
    BY <1>1, ConsistentNow
  <1>4. ASSUME NEW d \in Device
        PROVE  /\ \A i \in 1..n : adapter_channel'[i] = Found(d)' => OutAfter(i - 1, d)'
               /\ panic' = "none" => IF d \in known' THEN InAfter(n, d)' ELSE OutAfter(n, d)'
    <2>1. Found(d)' = Found(d) /\ Gone(d)' = Gone(d)
      BY DEF Found, Gone
    <2>2. \A i \in 0..n : OutAfter(i, d) => OutAfter(i, d)'
      BY <2>1 DEF OutAfter
    <2>3. InAfter(n, d) => InAfter(n, d)'
      BY <1>2, <2>1 DEF InAfter
    <2>4. \A i \in 1..n : i - 1 \in 0..n
      OBVIOUS
    <2> QED BY <1>3, <2>1, <2>2, <2>3, <2>4 DEF Consistent
  <1>5. Consistent(n)'
    BY <1>4 DEF Consistent
  <1> QED BY <1>2, <1>5, ConsistentNext

----------------------------------------------------------------------------
(* One lemma per action. *)

\* A handler of the thread appends at most the event that says what it did to `peripherals`.
LEMMA ThreadKeeps ==
    ASSUME SysIInv, ThreadHandlesEvent
    PROVE  /\ ChannelType' /\ ChannelInv' /\ AddsOnce'
           /\ panic' # "none" => delegate' = <<>>
  <1> DEFINE e == Head(delegate)
             d == e.dev
             Seen == e.ev = "DiscoveredPeripheral"
             Lost == e.ev = "DisconnectedDevice"
  <1>1. /\ TypeOK /\ ChannelType /\ ChannelInv /\ AddsOnce
        /\ panic # "none" => delegate = <<>>
    BY DEF SysIInv
  <1>2. /\ HandleEvent /\ Dispatch
        /\ UNCHANGED <<peripherals, erased, adapter_died>>
    BY DEF ThreadHandlesEvent, managerVars, historyVars
  <1>3. /\ delegate # <<>>
        /\ \/ /\ panic' = panic
              /\ known' = IF Seen THEN known \cup {d} ELSE IF Lost THEN known \ {d} ELSE known
           \/ panic' # "none" /\ delegate' = <<>>
    BY <1>2, ThreadKnows
  <1>4. panic = "none"
    BY <1>1, <1>3
  <1>5. d \in Device
    BY <1>1, <1>3 DEF TypeOK, DelegateTypeOK, CentralDelegateEvent
  <1>6. \A k \in {"DeviceDiscovered", "DeviceUpdated"} \cup LinkEvent : Central(k, d) \in ChannelEvent
    BY <1>5 DEF Central, ChannelEvent
  <1>7. ChannelType' /\ ChannelInv'
    <2>1. CASE Seen /\ d \notin known /\ Sends("DeviceDiscovered", d)
      <3>1. adapter_channel' = Append(adapter_channel, Central("DeviceDiscovered", d))
        BY <2>1 DEF Sends
      <3>2. panic' = "none" => known' = known \cup {d}
        BY <1>3, <2>1
      <3>3. \A b \in Device : /\ Central("DeviceDiscovered", d) = Found(b) <=> d = b
                              /\ Central("DeviceDiscovered", d) # Gone(b)
        BY EventsDiffer
      <3>4. Central("DeviceDiscovered", d) \in ChannelEvent
        BY <1>6
      <3> HIDE DEF d
      <3> QED BY <1>1, <1>2, <1>4, <2>1, <3>1, <3>2, <3>3, <3>4, TellKeeps
    <2>2. CASE Seen /\ d \in known /\ Sends("DeviceUpdated", d)
      <3>1. adapter_channel' = Append(adapter_channel, Central("DeviceUpdated", d))
        BY <2>2 DEF Sends
      <3>2. panic' = "none" => known' = known
        BY <1>3, <2>2
      <3>3. \A b \in Device : /\ Central("DeviceUpdated", d) # Found(b)
                              /\ Central("DeviceUpdated", d) # Gone(b)
        BY EventsDiffer
      <3>4. Central("DeviceUpdated", d) \in ChannelEvent
        BY <1>6
      <3> HIDE DEF d
      <3> QED BY <1>1, <1>2, <1>4, <3>1, <3>2, <3>3, <3>4, TellKeeps
    <2>3. CASE Lost /\ d \in known /\ Sends("DeviceDisconnected", d)
      <3>1. adapter_channel' = Append(adapter_channel, Central("DeviceDisconnected", d))
        BY <2>3 DEF Sends
      <3>2. panic' = "none" => known' = known \ {d}
        BY <1>3, <2>3
      <3>3. \A b \in Device : /\ Central("DeviceDisconnected", d) = Gone(b) <=> d = b
                              /\ Central("DeviceDisconnected", d) # Found(b)
        BY EventsDiffer
      <3>4. Central("DeviceDisconnected", d) \in ChannelEvent
        BY <1>6 DEF LinkEvent
      <3> HIDE DEF d
      <3> QED BY <1>1, <1>2, <1>4, <3>1, <3>2, <3>3, <3>4, TellKeeps
    <2>4. CASE (Seen => d \in known) /\ (Lost => d \notin known) /\ UNCHANGED adapter_channel
      <3>1. panic' = "none" => panic = "none" /\ known' = known
        BY <1>3, <1>4, <2>4
      <3> QED BY <1>1, <1>2, <2>4, <3>1, LeaveKeeps
    <2> QED BY <1>2, <2>1, <2>2, <2>3, <2>4 DEF Dispatch
  <1> QED BY <1>1, <1>2, <1>3, <1>7 DEF AddsOnce

\* Clients, messages and the framework tell the adapter nothing, and change no key of `peripherals`.
LEMMA OthersKeep ==
    ASSUME SysIInv, Others
    PROVE  /\ ChannelType' /\ ChannelInv' /\ AddsOnce'
           /\ panic' # "none" => delegate' = <<>>
  <1>1. UNCHANGED <<adapter_channel, adapter_died, peripherals, erased>>
    BY DEF Others, managerVars, taskVars, historyVars
  <1>2. ChannelType' /\ ChannelInv'
    BY <1>1, OthersKnow, LeaveKeeps DEF SysIInv
  <1> QED BY <1>1, <1>2, OthersKnow DEF SysIInv, AddsOnce

\* A discovery finds the device gone from the map.
LEMMA AddsKeeps ==
    ASSUME SysIInv, AdapterAdds
    PROVE  ChannelType' /\ ChannelInv' /\ AddsOnce'
  <1> DEFINE e == Head(adapter_channel)
  <1>1. /\ adapter_channel # <<>> /\ adapter_channel' = Tail(adapter_channel)
        /\ UNCHANGED <<known, panic>> /\ e.ev = "DeviceDiscovered"
    BY DEF AdapterAdds, TaskTakes, vars, internalVars, delegateVars
  <1>2. ChannelType /\ ChannelInv /\ AddsOnce
    BY DEF SysIInv
  <1>3. e \in ChannelEvent /\ e = adapter_channel[1] /\ 1 \in DOMAIN adapter_channel
    BY <1>1, <1>2 DEF ChannelType
  <1>4. e.id \in Device /\ e = Central("DeviceDiscovered", e.id)
    BY <1>1, <1>3 DEF ChannelEvent, Central
  <1>5. \A d \in Device : (e = Found(d) <=> d = e.id) /\ e # Gone(d)
    BY <1>4, EventsDiffer
  <1>6. e.id \notin peripherals
    <2>1. OutAfter(0, e.id)
      <3>1. adapter_channel[1] = Found(e.id) => OutAfter(1 - 1, e.id)
        BY <1>2, <1>3, <1>4 DEF ChannelInv
      <3>2. 1 - 1 = 0
        OBVIOUS
      <3> QED BY <1>3, <1>4, <1>5, <3>1, <3>2
    <2> QED BY <2>1 DEF OutAfter
  <1>7. /\ peripherals' = peripherals \cup {e.id} /\ erased' = erased \ {e.id}
        /\ UNCHANGED adapter_died
    BY <1>6 DEF AdapterAdds, Insert
  <1>8. ChannelType' /\ ChannelInv'
    <2>1. ASSUME NEW d \in Device
          PROVE  /\ e = Gone(d) \/ (d \notin peripherals /\ e # Found(d)) => d \notin peripherals'
                 /\ e = Found(d) \/ (d \in peripherals \cup erased /\ e # Gone(d))
                       => d \in peripherals' \cup erased'
      <3> HIDE DEF e
      <3> QED BY <1>5, <1>7
    <2> QED BY <1>1, <1>2, <2>1, TakeKeeps
  <1> QED BY <1>2, <1>7, <1>8 DEF AddsOnce

\* The adapter reads an update, which changes no entry of the map.
LEMMA UpdatesKeeps ==
    ASSUME SysIInv, AdapterUpdates
    PROVE  ChannelType' /\ ChannelInv' /\ AddsOnce'
  <1> DEFINE e == Head(adapter_channel)
  <1>1. /\ adapter_channel # <<>> /\ adapter_channel' = Tail(adapter_channel)
        /\ UNCHANGED <<known, panic, peripherals, erased, adapter_died>>
        /\ e.ev = "DeviceUpdated"
    BY DEF AdapterUpdates, TaskTakes, vars, internalVars, delegateVars, Emit, SendEvent, managerVars
  <1>2. ChannelType /\ ChannelInv /\ AddsOnce
    BY DEF SysIInv
  <1>3. \A d \in Device : e # Found(d) /\ e # Gone(d)
    BY <1>1 DEF Found, Gone, Central
  <1>4. ChannelType' /\ ChannelInv'
    BY <1>1, <1>2, <1>3, TakeKeeps
  <1> QED BY <1>1, <1>2, <1>4 DEF AddsOnce

\* The adapter reads a disconnection and removes the peripheral.
LEMMA RemovesKeeps ==
    ASSUME SysIInv, AdapterRemoves
    PROVE  ChannelType' /\ ChannelInv' /\ AddsOnce'
  <1> DEFINE e == Head(adapter_channel)
  <1>1. /\ adapter_channel # <<>> /\ adapter_channel' = Tail(adapter_channel)
        /\ UNCHANGED <<known, panic, erased, adapter_died>>
        /\ e.ev = "DeviceDisconnected"
        /\ peripherals' = peripherals \ {e.id}
    BY DEF AdapterRemoves, TaskTakes, vars, internalVars, delegateVars, Remove, historyVars
  <1>2. ChannelType /\ ChannelInv /\ AddsOnce
    BY DEF SysIInv
  <1>3. e \in ChannelEvent
    BY <1>1, <1>2 DEF ChannelType
  <1>4. e = Central("DeviceDisconnected", e.id)
    BY <1>1, <1>3 DEF ChannelEvent, Central
  <1>5. \A d \in Device : (e = Gone(d) <=> d = e.id) /\ e # Found(d)
    BY <1>4, EventsDiffer
  <1>6. ASSUME NEW d \in Device
        PROVE  /\ e = Gone(d) \/ (d \notin peripherals /\ e # Found(d)) => d \notin peripherals'
               /\ e = Found(d) \/ (d \in peripherals \cup erased /\ e # Gone(d))
                     => d \in peripherals' \cup erased'
    <2> HIDE DEF e
    <2> QED BY <1>1, <1>5
  <1>7. ChannelType' /\ ChannelInv'
    BY <1>1, <1>2, <1>6, TakeKeeps
  <1> QED BY <1>1, <1>2, <1>7 DEF AddsOnce

\* A disconnect() that removes a device the channel will not remove leaves it erased.
LEMMA DisconnectKeeps ==
    ASSUME SysIInv, NEW r \in Req, DisconnectRemoves(r)
    PROVE  ChannelType' /\ ChannelInv' /\ AddsOnce'
  <1> DEFINE b == ask[r].dev
  <1>1. /\ UNCHANGED <<known, panic, adapter_channel, adapter_died>>
        /\ peripherals' = peripherals \ {b}
        /\ erased' = IF /\ b \in peripherals
                        /\ \A i \in DOMAIN adapter_channel :
                              adapter_channel[i] # Central("DeviceDisconnected", b)
                     THEN erased \cup {b} ELSE erased
    BY DEF DisconnectRemoves, Remove, vars, internalVars, delegateVars
  <1>2. ChannelType /\ ChannelInv /\ AddsOnce
    BY DEF SysIInv
  <1>3. ASSUME NEW d \in Device, d \in peripherals \cup erased
        PROVE  \/ d \in peripherals' \cup erased'
               \/ \E i \in DOMAIN adapter_channel : adapter_channel[i] = Gone(d)
    <2> HIDE DEF b
    <2> QED BY <1>1, <1>3 DEF Gone
  <1>4. ChannelType' /\ ChannelInv'
    BY <1>1, <1>2, <1>3, LeaveKeeps
  <1> QED BY <1>1, <1>2, <1>4 DEF AddsOnce

\* Sending to the streams, and reading from them, touches neither the map nor the channel.
LEMMA StreamsKeep ==
    ASSUME SysIInv,
           \/ AdapterEmits
           \/ \E r \in Req : ConnectReturns(r) \/ DisconnectReturns(r)
           \/ \E s \in Stream : ClientReads(s)
           \/ UNCHANGED sysVars
    PROVE  ChannelType' /\ ChannelInv' /\ AddsOnce'
  <1>1. UNCHANGED <<known, panic, adapter_channel, adapter_died, peripherals, erased>>
    BY DEF AdapterEmits, ConnectReturns, DisconnectReturns, ClientReads, StreamNext, Emit, SendEvent,
       sysVars, vars, internalVars, delegateVars, managerVars, taskVars, historyVars
  <1>2. ChannelType' /\ ChannelInv'
    BY <1>1, LeaveKeeps DEF SysIInv
  <1> QED BY <1>1, <1>2 DEF SysIInv, AddsOnce

\* Every step is one of CoreBluetoothInternal, or none of its variables change.
LEMMA StepOfThread ==
    ASSUME [SysNext]_sysVars
    PROVE  [Next]_vars /\ (UNCHANGED vars \/ ThreadHandlesEvent \/ Others)
  <1>1. CASE ThreadHandlesEvent
    BY <1>1 DEF ThreadHandlesEvent, Next
  <1>2. CASE Others
    BY <1>2 DEF Others, Next
  <1>3. CASE AdapterAdds \/ AdapterUpdates \/ AdapterRemoves \/ AdapterEmits
    BY <1>3 DEF AdapterAdds, AdapterUpdates, AdapterRemoves, AdapterEmits, TaskTakes
  <1>4. CASE \E r \in Req : ConnectReturns(r) \/ DisconnectRemoves(r) \/ DisconnectReturns(r)
    BY <1>4 DEF ConnectReturns, DisconnectRemoves, DisconnectReturns
  <1>5. CASE (\E s \in Stream : ClientReads(s)) \/ UNCHANGED sysVars
    BY <1>5 DEF ClientReads, sysVars
  <1> QED BY <1>1, <1>2, <1>3, <1>4, <1>5 DEF SysNext

\* At the start the channel and the map are empty, and the thread knows no peripheral.
LEMMA SysStart == SysInit => SysIInv
  <1> SUFFICES ASSUME SysInit
               PROVE  SysIInv
    OBVIOUS
  <1>1. TypeOK
    BY InitType DEF SysInit
  <1>2. adapter_channel = <<>> /\ peripherals = {} /\ known = {} /\ ~ adapter_died /\ panic = "none"
    BY DEF SysInit, ManagerInit, Init, DelegateInit
  <1>3. ChannelType
    BY <1>2 DEF ChannelType
  <1>4. ChannelInv
    BY <1>2 DEF ChannelInv, OutAfter
  <1> QED BY <1>1, <1>2, <1>3, <1>4 DEF SysIInv, AddsOnce

\* Every step keeps the invariant.
LEMMA SysStep == SysIInv /\ [SysNext]_sysVars => SysIInv'
  <1> SUFFICES ASSUME SysIInv, [SysNext]_sysVars
               PROVE  SysIInv'
    OBVIOUS
  <1>1. TypeOK'
    BY StepOfThread, StepType DEF SysIInv
  <1>2. UNCHANGED vars => (panic' # "none" => delegate' = <<>>)
    BY DEF SysIInv, vars, delegateVars
  <1>3. panic' # "none" => delegate' = <<>>
    BY <1>2, StepOfThread, ThreadKeeps, OthersKeep
  <1>4. ChannelType' /\ ChannelInv' /\ AddsOnce'
    BY ThreadKeeps, OthersKeep, AddsKeeps, UpdatesKeeps, RemovesKeeps, DisconnectKeeps, StreamsKeep
       DEF SysNext
  <1> QED BY <1>1, <1>3, <1>4 DEF SysIInv

\* For every number of devices and calls, and channels of every size, the adapter's task never
\* meets the assertion of add_peripheral: the map may lose a device behind its back, to a
\* disconnect(), but it never holds one that the thread will discover next.
THEOREM NeverAddedTwice == SysSpec => []AddsOnce
  <1>1. SysIInv => AddsOnce
    BY DEF SysIInv
  <1> QED BY <1>1, SysStart, SysStep, PTL DEF SysSpec

\* Once its task has caught up, the map holds the devices the thread knows, but for those a
\* late disconnect() removed.
THEOREM MapFollowsThread == SysSpec => []MapAgrees
  <1>1. SysIInv => MapAgrees
    <2> SUFFICES ASSUME SysIInv, panic = "none", NEW d \in Device, Drained(d)
                 PROVE  /\ d \in peripherals => d \in known
                        /\ d \in known => d \in peripherals \/ d \in erased
      BY DEF MapAgrees
    <2>1. PICK n \in Nat : n = Len(adapter_channel) /\ DOMAIN adapter_channel = 1..n
      BY DEF SysIInv, ChannelType
    <2>2. IF d \in known THEN InAfter(n, d) ELSE OutAfter(n, d)
      BY <2>1, ConsistentNow DEF SysIInv, Consistent
    <2>3. \A i \in 1..n : adapter_channel[i] # Found(d) /\ adapter_channel[i] # Gone(d)
      BY <2>1 DEF Drained, Found, Gone, Central
    <2> QED BY <2>2, <2>3 DEF InAfter, OutAfter
  <1> QED BY <1>1, SysStart, SysStep, PTL DEF SysSpec
----------------------------------------------------------------------------
(* What becomes of answers and of complete trees. *)

\* An answer is final.
LEMMA AnswerStays ==
    ASSUME IInv, [Next]_vars, NEW q \in Req, st[q] = "answered"
    PROVE  st'[q] = "answered" /\ reply'[q] = reply[q]
  <1> DEFINE Stays == st'[q] = "answered" /\ reply'[q] = reply[q]
  <1>0. TypeOK /\ NoReq \notin Req
    BY DelegateAssumption DEF IInv
  <1>1. ASSUME NEW r, NEW rep, NEW S, Settle(r, rep, S), r # q, q \notin S
        PROVE  Stays
    BY <1>1 DEF Settle
  <1>2. CASE HandleMessage
    <2>1. ASSUME NEW r \in Req, NEW ops, Receive(r, ops)
          PROVE  r # q
      BY <2>1, Received
    <2>2. CASE Scan
      BY <2>2 DEF Scan
    <2>3. ASSUME NEW r \in Req, RequestOnAttribute(r)
          PROVE  Stays
      <3>1. r # q
        BY <2>1, <2>3 DEF RequestOnAttribute
      <3>2. reply' = reply /\ (st' = [st EXCEPT ![r] = "held"] \/ st' = [st EXCEPT ![r] = "dropped"])
        BY <2>3 DEF RequestOnAttribute
      <3> QED BY <1>0, <3>1, <3>2 DEF TypeOK
    <2>4. ASSUME NEW r \in Req, WriteWithoutResponse(r) \/ IsConnected(r)
          PROVE  Stays
      <3>1. r # q
        BY <2>1, <2>4 DEF WriteWithoutResponse, IsConnected
      <3>2. \/ \E rep : Settle(r, rep, {})
            \/ Settle(NoReq, NoReply, {r})
        BY <2>4 DEF WriteWithoutResponse, IsConnected
      <3> QED BY <1>0, <1>1, <3>1, <3>2
    <2>5. ASSUME NEW r \in Req, ConnectPeripheral(r) \/ DisconnectPeripheral(r)
          PROVE  Stays
      <3>1. r # q
        BY <2>1, <2>5 DEF ConnectPeripheral, DisconnectPeripheral
      <3>2. \A d \in Device : q # connected_future_state[d] /\ q # disconnected_future_state[d]
        BY <1>0, Placed
      <3>3. ask[r].dev \in Device
        BY <1>0, CallShape
      <3>4. /\ reply' = reply
            /\ \/ st' = [st EXCEPT ![r] = "dropped"]
               \/ \E old : /\ old \in {connected_future_state[ask[r].dev],
                                       disconnected_future_state[ask[r].dev]}
                           /\ st' = [x \in Req |-> IF x = r THEN "held"
                                                   ELSE IF x = old THEN "dropped" ELSE st[x]]
        BY <2>5 DEF ConnectPeripheral, DisconnectPeripheral
      <3> QED BY <1>0, <3>1, <3>2, <3>3, <3>4 DEF TypeOK
    <2> QED BY <1>2, <2>2, <2>3, <2>4, <2>5 DEF HandleMessage
  <1>3. CASE EventForms
    <2>1. \A d \in Device : q # connected_future_state[d] /\ q # disconnected_future_state[d]
      BY <1>0, Placed
    <2>2. \A K \in SUBSET Slot : q \notin Held(K)
      BY HeldIn
    <2>3. \A d, A : SlotsOf(d, A) \in SUBSET Slot
      BY DEF SlotsOf
    <2>4. ASSUME NEW why, Panic(why)
          PROVE  Stays
      BY <2>4 DEF Panic
    <2>5. CASE (delegate # <<>> /\ Unheeded) \/ OnDiscoveredPeripheral
      BY <2>5 DEF Unheeded, Ignore, OnDiscoveredPeripheral
    <2>6. ASSUME NEW d \in Device, NEW t, NEW K \in SUBSET Slot, NEW check, Grows(d, t, K, check)
          PROVE  Stays
      <3>1. PICK r \in {NoReq, connected_future_state[d]} :
              Settle(r, Reply("Connected", NoReq, t.has), Held(K))
        BY <2>6 DEF Grows
      <3> QED BY <1>0, <1>1, <2>1, <2>2, <3>1
    <2>7. ASSUME NEW d \in Device, \/ FoundServices(d)
                                   \/ \E s \in Service : FoundChars(d, s)
                                   \/ \E c \in Char : FoundDescs(d, c)
          PROVE  Stays
      BY <2>3, <2>6, <2>7 DEF FoundServices, FoundChars, FoundDescs
    <2>8. ASSUME NEW d \in Device, ReportsFailure(d)
          PROVE  Stays
      BY <1>1, <2>1, <2>8 DEF ReportsFailure
    <2>9. ASSUME NEW d \in Device, Forgets(d)
          PROVE  Stays
      <3>1. q \notin Held(SlotsOf(d, Attr)) \cup Slots({d})
        BY <2>1, <2>2, <2>3 DEF Slots
      <3>2. Settle(disconnected_future_state[d], Reply("Ok", NoReq, {}),
                   Held(SlotsOf(d, Attr)) \cup Slots({d}))
        BY <2>9 DEF Forgets
      <3> QED BY <1>1, <2>1, <3>1, <3>2
    <2>10. ASSUME NEW k \in Slot, NEW kind, Fulfilled(k, kind)
           PROVE  Stays
      <3>1. future_state[k] \in Seq(Req) /\ future_state[k] # <<>>
        BY <1>0, <2>10 DEF Fulfilled, TypeOK
      <3>2. Head(future_state[k]) \in Range(future_state[k])
        BY <3>1 DEF Range
      <3>3. Head(future_state[k]) # q
        BY <3>2, Placed
      <3> QED BY <1>1, <2>10, <3>3 DEF Fulfilled
    <2> QED BY <1>3, <2>4, <2>5, <2>7, <2>8, <2>9, <2>10 DEF EventForms, LiveForms
  <1>4. CASE HandleEvent
    BY <1>0, <1>3, <1>4, EventForm
  <1>5. CASE Framework \/ UNCHANGED vars \/ ClientScans
    BY <1>5 DEF Framework, internalVars, vars, ClientScans
  <1>6. CASE \E r \in Req : ClientCalls(r)
    BY <1>0, <1>6 DEF ClientCalls, TypeOK
  <1> QED BY <1>2, <1>4, <1>5, <1>6 DEF Next

HasAll(d) == d \in known /\ tree[d].has # {} /\ Complete(tree[d])

\* A tree that becomes complete answers a connect().
LEMMA WholeStep ==
    ASSUME IInv, TreeInv, [Next]_vars, NEW d \in Device, HasAll(d)'
    PROVE  \/ HasAll(d)
           \/ \E r \in Req : /\ ask[r].dev = d /\ ask[r].op = "connect"
                             /\ st[r] = "held" /\ st'[r] = "answered"
                             /\ reply'[r].kind = "Connected"
  <1> DEFINE Tells == \E r \in Req : /\ ask[r].dev = d /\ ask[r].op = "connect"
                                     /\ st[r] = "held" /\ st'[r] = "answered"
                                     /\ reply'[r].kind = "Connected"
  <1>0. TypeOK /\ NoReq \notin Req /\ Service \cap Char = {}
    BY DelegateAssumption DEF IInv
  <1>1. CASE tree'[d] = tree[d]
    <2>1. d \in known
      BY <1>1 DEF HasAll, TreeInv, UnknownHoldsNothing, NoTree
    <2> QED BY <1>1, <2>1 DEF HasAll, Complete
  <1>2. tree'[d] # NoTree
    BY DEF HasAll, NoTree
  <1>3. CASE \E b \in Device : Forgets(b)
    BY <1>0, <1>1, <1>2, <1>3, TreeAfter
  <1>4. CASE \E why : Panic(why)
    BY <1>2, <1>4 DEF Panic
  <1>5. CASE \E b \in Device : FoundServices(b)
    <2>1. PICK b \in Device : FoundServices(b)
      BY <1>5
    <2>2. CASE b = d
      <3>1. tree'[d] = [has |-> Range(ServicesOf[d]), discovered |-> {}]
        BY <1>0, <2>1, <2>2, TreeAfter
      <3>2. Range(ServicesOf[d]) \subseteq Service
        BY LayoutTypes
      <3> QED BY <3>1, <3>2 DEF HasAll, Complete
    <2> QED BY <1>0, <1>1, <2>1, <2>2, TreeAfter
  <1>6. ASSUME NEW t, NEW K, Grows(d, t, K, TRUE)
        PROVE  Tells
    <2>1. tree'[d] = t
      BY <1>0, <1>6, TreeAfter DEF Grows
    <2>2. Complete(t)
      BY <2>1 DEF HasAll, Complete
    <2> DEFINE r == connected_future_state[d]
    <2>3. r # NoReq /\ Settle(r, Reply("Connected", NoReq, t.has), Held(K))
      BY <1>6, <2>2 DEF Grows
    <2>4. r \in Req /\ st[r] = "held" /\ ask[r].dev = d /\ OpOf(r) = "connect"
      BY <2>3, Placed
    <2>5. ask[r].op = "connect" /\ reply[r] = NoReply
      BY <2>4 DEF OpOf, IInv, ReplyFits
    <2>6. st'[r] = "answered" /\ reply'[r] = Reply("Connected", NoReq, t.has)
      BY <2>3, <2>4, <2>5 DEF Settle
    <2>7. reply'[r].kind = "Connected"
      BY <2>6 DEF Reply
    <2> QED BY <2>4, <2>5, <2>6, <2>7
  <1>7. CASE \E b \in Device, s \in Service : FoundChars(b, s)
    <2>1. PICK b \in Device, s \in Service : FoundChars(b, s)
      BY <1>7
    <2>2. CASE b = d /\ Range(CharsOf[s]) = {}
      BY <1>6, <2>1, <2>2 DEF FoundChars
    <2>3. CASE b = d /\ Range(CharsOf[s]) # {}
      <3>1. tree'[d] = CharsTree(d, s) /\ d \in known /\ s \in tree[d].has
        BY <1>0, <2>1, <2>3, TreeAfter DEF FoundChars
      <3>2. \A x \in Service : x \notin Below(s) /\ x \notin Range(CharsOf[s])
        BY LayoutSets, DelegateAssumption
      <3>3. /\ tree[d].has \cap Service \subseteq CharsTree(d, s).has
            /\ CharsTree(d, s).discovered \subseteq tree[d].discovered
        BY <2>3, <3>2 DEF CharsTree
      <3>4. Complete(tree[d])
        BY <3>1, <3>3 DEF HasAll, Complete
      <3> QED BY <3>1, <3>4 DEF HasAll
    <2> QED BY <1>0, <1>1, <2>1, <2>2, <2>3, TreeAfter
  <1>8. CASE \E b \in Device, c \in Char : FoundDescs(b, c)
    <2>1. PICK b \in Device, c \in Char : FoundDescs(b, c)
      BY <1>8
    <2>2. CASE b = d /\ LastChar(d, c)
      <3>1. Grows(d, DescsTree(d, c), SlotsOf(d, Range(DescsOf[c])), LastChar(d, c))
        BY <2>1, <2>2 DEF FoundDescs
      <3>2. LastChar(d, c) = TRUE
        BY <2>2 DEF LastChar
      <3> QED BY <1>6, <3>1, <3>2
    <2>3. CASE b = d /\ ~ LastChar(d, c)
      <3>1. tree'[d] = DescsTree(d, c) /\ d \in known /\ c \in tree[d].has
        BY <1>0, <2>1, <2>3, TreeAfter DEF FoundDescs
      <3>2. /\ tree[d].has \subseteq DescsTree(d, c).has
            /\ DescsTree(d, c).discovered \cap Service \subseteq tree[d].discovered
        BY <1>0, <2>3 DEF DescsTree
      <3>3. Complete(tree[d])
        BY <3>1, <3>2 DEF HasAll, Complete
      <3> QED BY <3>1, <3>3 DEF HasAll
    <2> QED BY <1>0, <1>1, <2>1, <2>2, <2>3, TreeAfter
  <1> QED BY <1>0, <1>1, <1>3, <1>4, <1>5, <1>7, <1>8, TreeStep DEF TreeSteps

----------------------------------------------------------------------------
(* What the streams hear of a link. *)

Came(d) == Central("DeviceConnected", d)

\* Behind `last`, the events of q say in the end that d is connected.
SaysUp(q, last, d) ==
    \/ \E i \in DOMAIN q : q[i] = Came(d) /\ \A j \in DOMAIN q : j > i => q[j] # Gone(d)
    \/ last = "DeviceConnected" /\ \A j \in DOMAIN q : q[j] # Gone(d)

\* The last that stream s was sent about the connection of d is that it is up.
HeardUp(s, d) == SaysUp(unread[s], seen[s][d], d)

\* An event that is sent has the last word about its device.
LEMMA AppendHears ==
    ASSUME NEW q \in Seq(CentralEvent), NEW e \in CentralEvent, NEW last, NEW d
    PROVE  /\ e = Came(d) => SaysUp(Append(q, e), last, d)
           /\ e = Gone(d) => ~ SaysUp(Append(q, e), last, d)
           /\ e \notin {Came(d), Gone(d)} => (SaysUp(Append(q, e), last, d) <=> SaysUp(q, last, d))
  <1> DEFINE p == Append(q, e)
  <1>1. PICK n \in Nat : n = Len(q)
    OBVIOUS
  <1>2. /\ DOMAIN q = 1..n /\ DOMAIN p = 1..(n + 1)
        /\ p[n + 1] = e /\ \A i \in 1..n : p[i] = q[i]
    BY <1>1
  <1>3. Came(d) # Gone(d)
    BY DEF Came, Gone, Central
  <1> HIDE DEF p
  <1>4. n + 1 \in 1..(n + 1) /\ \A i \in 1..(n + 1) : i \in 1..n \/ i = n + 1
    BY <1>1
  <1>5. \A i \in 1..n : i \in 1..(n + 1) /\ n + 1 > i /\ ~ (i > n + 1)
    BY <1>1
  <1>6. ASSUME e = Came(d)
        PROVE  SaysUp(p, last, d)
    <2>1. \A j \in DOMAIN p : ~ (j > n + 1)
      BY <1>2, <1>4, <1>5
    <2> QED BY <1>2, <1>4, <1>6, <2>1 DEF SaysUp
  <1>7. ASSUME e = Gone(d)
        PROVE  ~ SaysUp(p, last, d)
    BY <1>2, <1>3, <1>4, <1>5, <1>7 DEF SaysUp
  <1>8. ASSUME e \notin {Came(d), Gone(d)}
        PROVE  SaysUp(p, last, d) <=> SaysUp(q, last, d)
    BY <1>2, <1>4, <1>5, <1>8 DEF SaysUp
  <1> QED BY <1>6, <1>7, <1>8 DEF p

\* An event that is read is heard as it was before.
LEMMA TailHears ==
    ASSUME NEW q \in Seq(CentralEvent), q # <<>>, NEW last, NEW now, NEW d,
           now = IF Head(q).ev \in LinkEvent /\ Head(q).id = d THEN Head(q).ev ELSE last
    PROVE  SaysUp(Tail(q), now, d) <=> SaysUp(q, last, d)
  <1> DEFINE p == Tail(q)
             e == Head(q)
  <1>1. PICK n \in Nat : Len(q) = n + 1
    <2>1. Len(q) \in Nat /\ Len(q) # 0
      OBVIOUS
    <2> DEFINE m == Len(q) - 1
    <2>2. m \in Nat /\ Len(q) = m + 1
      BY <2>1
    <2> HIDE DEF m
    <2> QED BY <2>2
  <1>2. /\ DOMAIN q = 1..(n + 1) /\ DOMAIN p = 1..n
        /\ q[1] = e /\ \A i \in 1..n : p[i] = q[i + 1]
    BY <1>1
  <1>3. e \in CentralEvent
    OBVIOUS
  <1>4. /\ e = Came(d) <=> e.ev = "DeviceConnected" /\ e.id = d
        /\ e = Gone(d) <=> e.ev = "DeviceDisconnected" /\ e.id = d
        /\ Came(d) # Gone(d)
    BY <1>3 DEF Came, Gone, Central, CentralEvent
  <1> HIDE DEF p, e
  <1>5. /\ 1 \in 1..(n + 1) /\ \A i \in 1..n : i + 1 \in 1..(n + 1) /\ i + 1 > 1
        /\ \A i \in 1..(n + 1) : i = 1 \/ (\E k \in 1..n : i = k + 1)
        /\ \A i, j \in 1..n : i > j <=> i + 1 > j + 1
    <2>1. \A i \in 1..(n + 1) : i = 1 \/ (i - 1 \in 1..n /\ i = (i - 1) + 1)
      OBVIOUS
    <2> QED BY <2>1
  <1>6. now = "DeviceConnected" <=> \/ e = Came(d)
                                    \/ e # Gone(d) /\ last = "DeviceConnected"
    BY <1>4 DEF LinkEvent, e
  <1>7. (\A j \in DOMAIN q : q[j] # Gone(d)) <=> e # Gone(d) /\ \A j \in DOMAIN p : p[j] # Gone(d)
    <2>1. ASSUME e # Gone(d), \A j \in DOMAIN p : p[j] # Gone(d), NEW j \in DOMAIN q
          PROVE  q[j] # Gone(d)
      <3>1. j = 1 \/ \E k \in 1..n : j = k + 1
        BY <1>2, <1>5
      <3> QED BY <1>2, <2>1, <3>1
    <2>2. ASSUME \A j \in DOMAIN q : q[j] # Gone(d)
          PROVE  e # Gone(d) /\ \A j \in DOMAIN p : p[j] # Gone(d)
      BY <1>2, <1>5, <2>2
    <2> QED BY <2>1, <2>2
  <1>8. ASSUME SaysUp(q, last, d)
        PROVE  SaysUp(p, now, d)
    <2>1. CASE last = "DeviceConnected" /\ \A j \in DOMAIN q : q[j] # Gone(d)
      BY <1>6, <1>7, <2>1 DEF SaysUp
    <2>2. ASSUME NEW i \in DOMAIN q, q[i] = Came(d), \A j \in DOMAIN q : j > i => q[j] # Gone(d)
          PROVE  SaysUp(p, now, d)
      <3>1. CASE i = 1
        <4>1. \A j \in DOMAIN p : p[j] # Gone(d)
          BY <1>2, <1>5, <2>2, <3>1
        <4> QED BY <1>2, <1>6, <2>2, <3>1, <4>1 DEF SaysUp
      <3>2. CASE i # 1
        <4>1. PICK k \in 1..n : i = k + 1
          BY <1>2, <1>5, <3>2
        <4>2. p[k] = Came(d) /\ \A j \in DOMAIN p : j > k => p[j] # Gone(d)
          BY <1>2, <1>5, <2>2, <4>1
        <4> QED BY <1>2, <4>2 DEF SaysUp
      <3> QED BY <3>1, <3>2
    <2> QED BY <1>8, <2>1, <2>2 DEF SaysUp
  <1>9. ASSUME SaysUp(p, now, d)
        PROVE  SaysUp(q, last, d)
    <2>1. CASE now = "DeviceConnected" /\ \A j \in DOMAIN p : p[j] # Gone(d)
      <3>1. CASE e = Came(d)
        <4>1. \A j \in DOMAIN q : q[j] # Gone(d)
          BY <1>4, <1>7, <2>1, <3>1
        <4> QED BY <1>2, <1>5, <3>1, <4>1 DEF SaysUp
      <3>2. CASE e # Gone(d) /\ last = "DeviceConnected"
        BY <1>7, <2>1, <3>2 DEF SaysUp
      <3> QED BY <1>6, <2>1, <3>1, <3>2
    <2>2. ASSUME NEW i \in DOMAIN p, p[i] = Came(d), \A j \in DOMAIN p : j > i => p[j] # Gone(d)
          PROVE  SaysUp(q, last, d)
      <3>1. i \in 1..n /\ i + 1 \in DOMAIN q /\ q[i + 1] = Came(d)
        BY <1>2, <1>5, <2>2
      <3>2. ASSUME NEW j \in DOMAIN q, j > i + 1
            PROVE  q[j] # Gone(d)
        <4>1. j # 1
          BY <1>2, <3>1, <3>2
        <4>2. PICK k \in 1..n : j = k + 1
          BY <1>2, <1>5, <4>1
        <4> QED BY <1>2, <1>5, <2>2, <3>1, <3>2, <4>2
      <3> QED BY <3>1, <3>2 DEF SaysUp
    <2> QED BY <1>9, <2>1, <2>2 DEF SaysUp
  <1> QED BY <1>8, <1>9 DEF p

\* What a stream hears when an event is sent to all of them.
LEMMA SendHears ==
    ASSUME ManagerTypeOK, NEW e \in CentralEvent, SendEvent(e),
           NEW s \in Stream, s \notin lagged', NEW d \in PeripheralId
    PROVE  /\ s \notin lagged
           /\ e = Came(d) => HeardUp(s, d)'
           /\ e = Gone(d) => ~ HeardUp(s, d)'
           /\ e \notin {Came(d), Gone(d)} => (HeardUp(s, d)' <=> HeardUp(s, d))
  <1>1. /\ unread[s] \in Seq(CentralEvent) /\ Len(unread[s]) \in Nat
        /\ Len(unread[s]) <= Capacity /\ Capacity \in Nat
    BY ManagerAssumption DEF ManagerTypeOK
  <1>2. /\ s \notin lagged /\ Len(unread[s]) # Capacity
        /\ unread'[s] = Retained(Append(unread[s], e)) /\ seen' = seen
    BY DEF SendEvent
  <1>3. Len(Append(unread[s], e)) = Len(unread[s]) + 1
    BY <1>1
  <1>4. unread'[s] = Append(unread[s], e)
    BY <1>1, <1>2, <1>3 DEF Retained
  <1> DEFINE last == seen[s][d]
  <1>5. /\ e = Came(d) => SaysUp(Append(unread[s], e), last, d)
        /\ e = Gone(d) => ~ SaysUp(Append(unread[s], e), last, d)
        /\ e \notin {Came(d), Gone(d)} =>
              (SaysUp(Append(unread[s], e), last, d) <=> SaysUp(unread[s], last, d))
    BY <1>1, AppendHears
  <1>6. SaysUp(unread[s], seen[s][d], d)' <=> SaysUp(Append(unread[s], e), last, d)
    BY <1>2, <1>4 DEF SaysUp, Came, Gone
  <1> QED BY <1>2, <1>5, <1>6 DEF HeardUp

\* What it hears when a client reads.
LEMMA NextHears ==
    ASSUME ManagerTypeOK, NEW t \in Stream, StreamNext(t), NEW s \in Stream, NEW d \in PeripheralId
    PROVE  HeardUp(s, d)' <=> HeardUp(s, d)
  <1>1. /\ unread \in [Stream -> Seq(CentralEvent)]
        /\ seen \in [Stream -> [PeripheralId -> {"none"} \cup LinkEvent]]
    BY DEF ManagerTypeOK
  <1> DEFINE e == Head(unread[t])
  <1>2. /\ unread[t] # <<>> /\ unread' = [unread EXCEPT ![t] = Tail(unread[t])]
        /\ seen' = IF e.ev \in LinkEvent THEN [seen EXCEPT ![t][e.id] = e.ev] ELSE seen
    BY DEF StreamNext
  <1>3. CASE s # t
    <2>1. unread'[s] = unread[s] /\ seen'[s] = seen[s]
      BY <1>1, <1>2, <1>3
    <2> QED BY <2>1 DEF HeardUp, SaysUp, Came, Gone
  <1>4. CASE s = t
    <2>1. e \in CentralEvent /\ unread[t] \in Seq(CentralEvent)
      BY <1>1, <1>2
    <2>2. e.id \in PeripheralId
      BY <2>1 DEF CentralEvent
    <2>3. /\ unread'[s] = Tail(unread[s])
          /\ seen'[s][d] = IF e.ev \in LinkEvent /\ e.id = d THEN e.ev ELSE seen[s][d]
      BY <1>1, <1>2, <1>4, <2>2
    <2>4. SaysUp(Tail(unread[s]), seen'[s][d], d) <=> SaysUp(unread[s], seen[s][d], d)
      BY <1>2, <1>4, <2>1, <2>3, TailHears
    <2>5. SaysUp(unread[s], seen[s][d], d)' <=> SaysUp(Tail(unread[s]), seen'[s][d], d)
      BY <2>3 DEF SaysUp, Came, Gone
    <2> QED BY <2>4, <2>5 DEF HeardUp
  <1> QED BY <1>3, <1>4

----------------------------------------------------------------------------
(* The types of the adapter's task and of the manager. *)

\* An event that is sent fits the streams' queues.
LEMMA SendType ==
    ASSUME ManagerTypeOK, NEW e \in CentralEvent, SendEvent(e)
    PROVE  ManagerTypeOK'
  <1>1. /\ unread \in [Stream -> Seq(CentralEvent)] /\ Capacity \in Nat \ {0}
        /\ \A s \in Stream : Len(unread[s]) <= Capacity
    BY ManagerAssumption DEF ManagerTypeOK
  <1>2. ASSUME NEW s \in Stream
        PROVE  /\ Retained(Append(unread[s], e)) \in Seq(CentralEvent)
               /\ Len(Retained(Append(unread[s], e))) <= Capacity
    <2> DEFINE q == Append(unread[s], e)
    <2>1. q \in Seq(CentralEvent) /\ Len(q) = Len(unread[s]) + 1 /\ Len(unread[s]) \in Nat
          /\ Len(unread[s]) <= Capacity
      BY <1>1
    <2>2. q # <<>> /\ Tail(q) \in Seq(CentralEvent) /\ Len(Tail(q)) = Len(unread[s])
      <3> HIDE DEF q
      <3>1. Len(q) \in Nat /\ Len(q) # 0
        BY <2>1
      <3>2. Len(Tail(q)) = Len(q) - 1
        BY <2>1, <3>1
      <3> QED BY <2>1, <3>1, <3>2
    <2> HIDE DEF q
    <2>3. Len(q) > Capacity \/ Len(q) <= Capacity
      BY <1>1, <2>1
    <2>4. Retained(q) \in Seq(CentralEvent) /\ Len(Retained(q)) <= Capacity
      BY <2>1, <2>2, <2>3 DEF Retained
    <2> QED BY <2>4 DEF q
  <1>3. /\ unread' = [s \in Stream |-> Retained(Append(unread[s], e))]
        /\ lagged' = lagged \cup {s \in Stream : Len(unread[s]) = Capacity}
        /\ UNCHANGED <<peripherals, seen>>
    BY DEF SendEvent
  <1> QED BY <1>1, <1>2, <1>3 DEF ManagerTypeOK

\* So does what is left after a client has read one.
LEMMA NextType ==
    ASSUME ManagerTypeOK, NEW t \in Stream, StreamNext(t)
    PROVE  ManagerTypeOK'
  <1>1. /\ unread \in [Stream -> Seq(CentralEvent)] /\ Capacity \in Nat \ {0}
        /\ \A s \in Stream : Len(unread[s]) <= Capacity
        /\ seen \in [Stream -> [PeripheralId -> {"none"} \cup LinkEvent]]
    BY ManagerAssumption DEF ManagerTypeOK
  <1> DEFINE e == Head(unread[t])
  <1>2. /\ unread[t] # <<>> /\ unread' = [unread EXCEPT ![t] = Tail(unread[t])]
        /\ seen' = IF e.ev \in LinkEvent THEN [seen EXCEPT ![t][e.id] = e.ev] ELSE seen
        /\ UNCHANGED <<peripherals, lagged>>
    BY DEF StreamNext
  <1>3. e \in CentralEvent
    BY <1>1, <1>2
  <1>4. seen' \in [Stream -> [PeripheralId -> {"none"} \cup LinkEvent]]
    <2>1. e.id \in PeripheralId
      BY <1>3 DEF CentralEvent
    <2> QED BY <1>1, <1>2, <2>1
  <1>5. /\ Tail(unread[t]) \in Seq(CentralEvent)
        /\ Len(Tail(unread[t])) <= Capacity
    <2>1. unread[t] \in Seq(CentralEvent) /\ Len(unread[t]) \in Nat /\ Len(unread[t]) <= Capacity
      BY <1>1
    <2>2. Tail(unread[t]) \in Seq(CentralEvent) /\ Len(Tail(unread[t])) = Len(unread[t]) - 1
      BY <1>2, <2>1
    <2> QED BY <1>1, <2>1, <2>2
  <1>6. unread' \in [Stream -> Seq(CentralEvent)] /\ \A s \in Stream : Len(unread'[s]) <= Capacity
    BY <1>1, <1>2, <1>5
  <1> QED BY <1>2, <1>4, <1>6 DEF ManagerTypeOK

\* The devices of the thread are peripherals of the manager.
LEMMA ChannelTypes ==
    /\ Device \subseteq PeripheralId
    /\ ChannelEvent \subseteq CentralEvent
    /\ \A d \in Device : \A k \in LinkEvent : Central(k, d) \in CentralEvent
BY AdapterAssumption DEF ChannelEvent, CentralEvent, Central

\* No step breaks the types.
LEMMA SysTypeStep ==
    ASSUME SysTypeOK, SysIInv, SysIInv', [SysNext]_sysVars
    PROVE  SysTypeOK'
  <1>0. /\ ManagerTypeOK /\ TypeOK /\ ChannelSize \in Nat
        /\ adapter_channel \in Seq(ChannelEvent) /\ Len(adapter_channel) <= ChannelSize
        /\ adapter_emits \in Seq(CentralEvent) /\ Len(adapter_emits) <= 1
        /\ adapter_died \in BOOLEAN /\ listed \subseteq PeripheralId
        /\ emitting \subseteq Req /\ returned \subseteq Req
        /\ belied \subseteq PeripheralId /\ erased \subseteq PeripheralId
    BY AdapterAssumption DEF SysTypeOK, SysIInv, ChannelType
  <1>1. adapter_channel' \in Seq(CentralEvent)
    <2>1. adapter_channel' \in Seq(ChannelEvent)
      BY DEF SysIInv, ChannelType
    <2> QED BY <2>1, ChannelTypes
  <1> DEFINE Rest == /\ ManagerTypeOK' /\ Len(adapter_channel') <= ChannelSize
                     /\ adapter_emits' \in Seq(CentralEvent) /\ Len(adapter_emits') <= 1
                     /\ listed' \subseteq PeripheralId /\ adapter_died' \in BOOLEAN
                     /\ emitting' \subseteq Req /\ returned' \subseteq Req
                     /\ belied' \subseteq PeripheralId /\ erased' \subseteq PeripheralId
  <1>2. ASSUME NEW e \in CentralEvent, Emit(e)
        PROVE  ManagerTypeOK' /\ belied' \subseteq PeripheralId
    <2>1. e.id \in PeripheralId
      BY DEF CentralEvent
    <2> QED BY <1>0, <1>2, <2>1, SendType DEF Emit
  <1>3. \A r \in Req : ask[r].dev \in Device
    BY <1>0, CallShape
  <1>4. ASSUME UNCHANGED managerVars
        PROVE  ManagerTypeOK'
    BY <1>0, <1>4 DEF ManagerTypeOK, managerVars
  <1>5. ASSUME ThreadHandlesEvent
        PROVE  Rest
    <2>1. Len(adapter_channel') <= ChannelSize
      <3>1. CASE UNCHANGED adapter_channel
        BY <1>0, <3>1
      <3>2. ASSUME NEW kind, NEW d, Sends(kind, d)
            PROVE  Len(adapter_channel') <= ChannelSize
        <4>1. Len(adapter_channel') = Len(adapter_channel) + 1 /\ Len(adapter_channel) < ChannelSize
              /\ Len(adapter_channel) \in Nat
          BY <1>0, <3>2 DEF Sends
        <4> QED BY <1>0, <4>1
      <3>3. UNCHANGED adapter_channel \/ \E kind, d : Sends(kind, d)
        BY <1>5 DEF ThreadHandlesEvent, Dispatch
      <3> QED BY <3>1, <3>2, <3>3
    <2> QED BY <1>0, <1>4, <1>5, <2>1 DEF ThreadHandlesEvent, historyVars
  <1>6. ASSUME Others
        PROVE  Rest
    BY <1>0, <1>4, <1>6 DEF Others, taskVars, historyVars
  <1>7. ASSUME NEW kind, TaskTakes(kind)
        PROVE  /\ Head(adapter_channel) \in CentralEvent /\ Len(adapter_channel') <= ChannelSize
               /\ adapter_emits = <<>> /\ UNCHANGED <<emitting, returned>>
    <2>1. /\ adapter_channel # <<>> /\ adapter_channel' = Tail(adapter_channel)
          /\ adapter_emits = <<>> /\ UNCHANGED <<emitting, returned>>
      BY <1>7 DEF TaskTakes
    <2>2. Head(adapter_channel) \in ChannelEvent
      BY <1>0, <2>1
    <2>3. Len(adapter_channel') = Len(adapter_channel) - 1 /\ Len(adapter_channel) \in Nat
      BY <1>0, <2>1
    <2>4. Len(adapter_channel') <= ChannelSize
      BY <1>0, <2>3
    <2> QED BY <2>1, <2>2, <2>4, ChannelTypes
  <1>8. ASSUME AdapterAdds
        PROVE  Rest
    <2> DEFINE e == Head(adapter_channel)
    <2>1. /\ e \in CentralEvent /\ Len(adapter_channel') <= ChannelSize
          /\ adapter_emits = <<>> /\ UNCHANGED <<emitting, returned>>
      BY <1>7, <1>8 DEF AdapterAdds
    <2>2. e.id \in PeripheralId
      BY <2>1 DEF CentralEvent
    <2>3. /\ belied' = belied
          /\ \/ adapter_died' = TRUE /\ UNCHANGED <<managerVars, adapter_emits, listed, erased>>
             \/ /\ Insert(e.id) /\ adapter_emits' = <<e>> /\ listed' = listed \cup {e.id}
                /\ erased' = erased \ {e.id} /\ UNCHANGED adapter_died
      BY <1>8 DEF AdapterAdds
    <2> HIDE DEF e
    <2>4. <<e>> \in Seq(CentralEvent) /\ Len(<<e>>) = 1
      BY <2>1
    <2>5. Insert(e.id) => ManagerTypeOK'
      BY <1>0, <2>2 DEF Insert, ManagerTypeOK
    <2>6. ManagerTypeOK'
      BY <1>4, <2>3, <2>5
    <2>7. adapter_died' \in BOOLEAN
      BY <1>0, <2>3
    <2>8. belied' = belied /\ listed' \subseteq PeripheralId /\ erased' \subseteq PeripheralId
      BY <1>0, <2>2, <2>3
    <2>9. adapter_emits' = adapter_emits \/ adapter_emits' = <<e>>
      BY <2>3
    <2>10. adapter_emits' \in Seq(CentralEvent) /\ Len(adapter_emits') <= 1
      <3>1. CASE adapter_emits' = adapter_emits
        <4>1. adapter_emits \in Seq(CentralEvent) /\ Len(adapter_emits) <= 1
          BY <1>0
        <4> QED BY <3>1, <4>1
      <3>2. CASE adapter_emits' = <<e>>
        BY <2>4, <3>2
      <3> QED BY <2>9, <3>1, <3>2
    <2> QED BY <1>0, <2>1, <2>6, <2>7, <2>8, <2>10
  <1>9. ASSUME AdapterUpdates
        PROVE  Rest
    <2>1. /\ Head(adapter_channel) \in CentralEvent /\ Len(adapter_channel') <= ChannelSize
          /\ UNCHANGED <<emitting, returned>>
      BY <1>7, <1>9 DEF AdapterUpdates
    <2>2. /\ UNCHANGED <<adapter_emits, adapter_died, listed, erased>>
          /\ Emit(Head(adapter_channel)) \/ UNCHANGED <<managerVars, belied>>
      BY <1>9 DEF AdapterUpdates
    <2>3. ManagerTypeOK' /\ belied' \subseteq PeripheralId
      BY <1>0, <1>2, <1>4, <2>1, <2>2
    <2> QED BY <1>0, <2>1, <2>2, <2>3
  <1>10. ASSUME AdapterRemoves
         PROVE  Rest
    <2> DEFINE e == Head(adapter_channel)
    <2>1. /\ e \in CentralEvent /\ Len(adapter_channel') <= ChannelSize
          /\ adapter_emits = <<>> /\ UNCHANGED <<emitting, returned>>
      BY <1>7, <1>10 DEF AdapterRemoves
    <2>2. /\ Remove(e.id) /\ adapter_emits' = <<e>>
          /\ UNCHANGED <<adapter_died, listed, belied, erased>>
      BY <1>10 DEF AdapterRemoves, historyVars
    <2> HIDE DEF e
    <2>3. <<e>> \in Seq(CentralEvent) /\ Len(<<e>>) = 1
      BY <2>1
    <2>4. ManagerTypeOK'
      BY <1>0, <2>2 DEF Remove, ManagerTypeOK
    <2> QED BY <1>0, <2>1, <2>2, <2>3, <2>4
  <1>11. ASSUME AdapterEmits
         PROVE  Rest
    <2>1. /\ adapter_emits # <<>> /\ Emit(Head(adapter_emits)) /\ adapter_emits' = <<>>
          /\ UNCHANGED <<adapter_channel, adapter_died, listed, emitting, returned, erased>>
      BY <1>11 DEF AdapterEmits
    <2>2. Head(adapter_emits) \in CentralEvent
      BY <1>0, <2>1
    <2>3. ManagerTypeOK' /\ belied' \subseteq PeripheralId
      BY <1>2, <2>1, <2>2
    <2>4. <<>> \in Seq(CentralEvent) /\ Len(<<>>) = 0
      OBVIOUS
    <2> QED BY <1>0, <2>1, <2>3, <2>4
  <1>12. ASSUME NEW r \in Req, ConnectReturns(r) \/ DisconnectReturns(r)
         PROVE  Rest
    <2>1. /\ Emit(Came(ask[r].dev)) \/ Emit(Gone(ask[r].dev))
          /\ emitting' \subseteq emitting /\ returned' = returned \cup {r}
          /\ UNCHANGED <<adapter_channel, adapter_emits, adapter_died, listed, erased>>
      BY <1>12 DEF ConnectReturns, DisconnectReturns, Came, Gone
    <2>2. Came(ask[r].dev) \in CentralEvent /\ Gone(ask[r].dev) \in CentralEvent
      BY <1>3, ChannelTypes DEF Came, Gone, LinkEvent
    <2>3. ManagerTypeOK' /\ belied' \subseteq PeripheralId
      BY <1>2, <2>1, <2>2
    <2> QED BY <1>0, <2>1, <2>3
  <1>13. ASSUME NEW r \in Req, DisconnectRemoves(r)
         PROVE  Rest
    <2>1. /\ Remove(ask[r].dev) /\ emitting' = emitting \cup {r}
          /\ erased' \subseteq erased \cup {ask[r].dev}
          /\ UNCHANGED <<adapter_channel, adapter_emits, adapter_died, listed, returned, belied>>
      BY <1>13 DEF DisconnectRemoves
    <2>2. ManagerTypeOK'
      BY <1>0, <2>1 DEF Remove, ManagerTypeOK
    <2>3. ask[r].dev \in PeripheralId
      BY <1>3, ChannelTypes
    <2> QED BY <1>0, <2>1, <2>2, <2>3
  <1>14. ASSUME NEW s \in Stream, ClientReads(s)
         PROVE  Rest
    BY <1>0, <1>14, NextType DEF ClientReads, taskVars, historyVars
  <1>15. ASSUME UNCHANGED sysVars
         PROVE  Rest
    BY <1>0, <1>4, <1>15 DEF sysVars, taskVars, historyVars
  <1> QED BY <1>1, <1>5, <1>6, <1>8, <1>9, <1>10, <1>11, <1>12, <1>13, <1>14, <1>15
          DEF SysNext, SysTypeOK

----------------------------------------------------------------------------
(* What the streams hear is so. *)

\* The adapter's task has a disconnection of d to report.
GoneOnItsWay(d) ==
    \/ adapter_emits = <<Gone(d)>>
    \/ \E i \in DOMAIN adapter_channel : adapter_channel[i] = Gone(d)

\* The link of a known device is up, or the thread is about to be told that it is lost.
LinkLives(d) ==
    /\ d \in known
    /\ cb[d].link \in {"connected", "disconnecting"} \/ LossQueued(d)

\* A connect() of d was answered and has not told the streams.
Returning(d) == \E r \in Req : ask[r].dev = d /\ Answered(r, "connect", "Connected")

\* What is heard of as connected is, or its end is on its way to the streams.
HeardIsUp ==
    \A d \in Device, s \in Stream :
        d \notin belied /\ s \notin lagged /\ HeardUp(s, d) => GoneOnItsWay(d) \/ LinkLives(d)

\* A device whose tree is complete was heard of, or a connect() is about to report it.
WholeIsHeard ==
    \A d \in Device : d \notin belied /\ HasAll(d) =>
        \/ Returning(d)
        \/ \A s \in Stream : s \notin lagged => HeardUp(s, d)

\* The calls that return were answered.
ReturnsFit ==
    /\ \A r \in returned : st[r] = "answered"
    /\ \A r \in emitting : st[r] = "answered" /\ ask[r].op = "disconnect"

\* The inductive invariant of the streams.
StreamIInv ==
    /\ SysTypeOK /\ SysIInv
    /\ IInv /\ TreeInv
    /\ ReturnsFit
    /\ panic = "none" => HeardIsUp /\ WholeIsHeard

\* A step that sends nothing and takes no promise back.
LEMMA QuietKeeps ==
    ASSUME HeardIsUp, WholeIsHeard, UNCHANGED <<vars, lagged, belied>>,
           \A d \in Device, s \in Stream : HeardUp(s, d)' <=> HeardUp(s, d),
           \A d \in Device : GoneOnItsWay(d) => GoneOnItsWay(d)',
           \A d \in Device : Returning(d) => Returning(d)'
    PROVE  HeardIsUp' /\ WholeIsHeard'
  <1>1. \A d \in Device : LinkLives(d)' <=> LinkLives(d)
    BY DEF LinkLives, LossQueued, vars, delegateVars, internalVars
  <1>2. \A d \in Device : HasAll(d)' <=> HasAll(d)
    BY DEF HasAll, Complete, vars, internalVars
  <1>3. HeardIsUp'
    BY <1>1 DEF HeardIsUp
  <1>4. WholeIsHeard'
    BY <1>2 DEF WholeIsHeard
  <1> QED BY <1>3, <1>4

\* A step that sends an event: it is true, or its device is belied.
LEMMA EmitKeeps ==
    ASSUME ManagerTypeOK, HeardIsUp, WholeIsHeard, UNCHANGED vars,
           NEW e \in CentralEvent, Emit(e),
           \A d \in Device : e # Gone(d) /\ GoneOnItsWay(d) => GoneOnItsWay(d)',
           \A d \in Device : e # Came(d) /\ Returning(d) => Returning(d)'
    PROVE  HeardIsUp' /\ WholeIsHeard'
  <1>1. \A d \in Device : LinkLives(d)' <=> LinkLives(d)
    BY DEF LinkLives, LossQueued, vars, delegateVars, internalVars
  <1>2. \A d \in Device : HasAll(d)' <=> HasAll(d)
    BY DEF HasAll, Complete, vars, internalVars
  <1>3. Device \subseteq PeripheralId /\ SendEvent(e)
    BY AdapterAssumption DEF Emit
  <1>4. ASSUME NEW d \in Device, d \notin belied'
        PROVE  /\ e = Came(d) => LinkLives(d)
               /\ e = Gone(d) => ~ HasAll(d)
               /\ e \notin {Came(d), Gone(d)} => d \notin belied
    <2>1. belied' = IF e.ev \notin LinkEvent THEN belied
                    ELSE IF IsTrue(e) THEN belied \ {e.id} ELSE belied \cup {e.id}
      BY DEF Emit
    <2>2. ASSUME e = Came(d)
          PROVE  LinkLives(d)
      <3>1. e.ev = "DeviceConnected" /\ e.id = d /\ e.ev \in LinkEvent
        BY <2>2 DEF Came, Central, LinkEvent
      <3>2. IsTrue(e)
        BY <1>4, <2>1, <3>1
      <3>3. d \in known /\ cb[d].link = "connected"
        BY <3>1, <3>2 DEF IsTrue
      <3> QED BY <3>3 DEF LinkLives
    <2>3. ASSUME e = Gone(d)
          PROVE  ~ HasAll(d)
      <3>1. e.ev = "DeviceDisconnected" /\ e.id = d /\ e.ev \in LinkEvent
        BY <2>3 DEF Gone, Central, LinkEvent
      <3>2. IsTrue(e)
        BY <1>4, <2>1, <3>1
      <3>3. d \notin known
        BY <3>1, <3>2 DEF IsTrue
      <3> QED BY <3>3 DEF HasAll
    <2>4. ASSUME e \notin {Came(d), Gone(d)}
          PROVE  d \notin belied
      <3>1. e.ev \notin LinkEvent \/ e.id # d
        BY <2>4 DEF Came, Gone, Central, CentralEvent, LinkEvent
      <3> QED BY <1>4, <2>1, <3>1
    <2> QED BY <2>2, <2>3, <2>4
  <1>5. ASSUME NEW d \in Device, NEW s \in Stream,
               d \notin belied', s \notin lagged', HeardUp(s, d)'
        PROVE  GoneOnItsWay(d)' \/ LinkLives(d)'
    <2>1. /\ s \notin lagged /\ e # Gone(d)
          /\ e # Came(d) => HeardUp(s, d)
      BY <1>3, <1>5, SendHears
    <2>2. CASE e = Came(d)
      BY <1>1, <1>4, <1>5, <2>2
    <2>3. CASE e # Came(d)
      <3>1. d \notin belied
        BY <1>4, <1>5, <2>1, <2>3
      <3>2. GoneOnItsWay(d) \/ LinkLives(d)
        BY <2>1, <2>3, <3>1 DEF HeardIsUp
      <3> QED BY <1>1, <2>1, <3>2
    <2> QED BY <2>2, <2>3
  <1>6. ASSUME NEW d \in Device, d \notin belied', HasAll(d)', ~ Returning(d)',
               NEW s \in Stream, s \notin lagged'
        PROVE  HeardUp(s, d)'
    <2>1. HasAll(d) /\ e # Gone(d)
      BY <1>2, <1>4, <1>6
    <2>2. /\ s \notin lagged
          /\ e = Came(d) => HeardUp(s, d)'
          /\ e # Came(d) => (HeardUp(s, d)' <=> HeardUp(s, d))
      BY <1>3, <1>6, <2>1, SendHears
    <2>3. CASE e # Came(d)
      <3>1. d \notin belied /\ ~ Returning(d)
        BY <1>4, <1>6, <2>1, <2>3
      <3>2. HeardUp(s, d)
        BY <2>1, <2>2, <3>1 DEF WholeIsHeard
      <3> QED BY <2>2, <2>3, <3>2
    <2> QED BY <2>2, <2>3
  <1> QED BY <1>5, <1>6 DEF HeardIsUp, WholeIsHeard

\* The thread reports the end of a link it knows; nobody else ends one unseen.
LEMMA LinkStays ==
    ASSUME SysIInv, ThreadHandlesEvent \/ Others, panic' = "none", NEW d \in Device,
           GoneOnItsWay(d) \/ LinkLives(d)
    PROVE  GoneOnItsWay(d)' \/ LinkLives(d)'
  <1>0. /\ TypeOK /\ adapter_channel \in Seq(ChannelEvent)
    BY DEF SysIInv, ChannelType
  <1>1. adapter_emits' = adapter_emits
    BY DEF ThreadHandlesEvent, Others, taskVars
  <1>2. Gone(d)' = Gone(d) /\ (LossQueued(d) <=> Over(0, d)) /\ (LossQueued(d)' <=> Over(0, d)')
    <2>1. delegate \in Seq(CentralDelegateEvent) /\ delegate' \in Seq(CentralDelegateEvent)
      <3>1. [Next]_vars
        BY DEF ThreadHandlesEvent, Others, Next
      <3>2. TypeOK'
        BY <1>0, <3>1, StepType
      <3> QED BY <1>0, <3>2 DEF TypeOK, DelegateTypeOK
    <2>2. (\A i \in DOMAIN delegate : i > 0) /\ (\A i \in DOMAIN delegate' : i > 0)
      BY <2>1
    <2> QED BY <2>2 DEF LossQueued, Over, Gone
  <1>3. ASSUME NEW kind, NEW b, Sends(kind, b)
        PROVE  /\ GoneOnItsWay(d) => GoneOnItsWay(d)'
               /\ kind = "DeviceDisconnected" /\ b = d => GoneOnItsWay(d)'
    <2> DEFINE x == Central(kind, b)
               n == Len(adapter_channel)
    <2>1. adapter_channel' = Append(adapter_channel, x)
      BY <1>3 DEF Sends
    <2>2. /\ \A i \in DOMAIN adapter_channel :
                i \in DOMAIN adapter_channel' /\ adapter_channel'[i] = adapter_channel[i]
          /\ n + 1 \in DOMAIN adapter_channel' /\ adapter_channel'[n + 1] = x
      <3> HIDE DEF x
      <3> QED BY <1>0, <2>1
    <2> QED BY <1>1, <1>2, <2>2 DEF GoneOnItsWay, Gone
  <1>4. UNCHANGED adapter_channel => (GoneOnItsWay(d) => GoneOnItsWay(d)')
    BY <1>1, <1>2 DEF GoneOnItsWay
  <1>5. CASE ThreadHandlesEvent
    <2>1. HandleEvent /\ Dispatch
      BY <1>5 DEF ThreadHandlesEvent
    <2>2. \/ UNCHANGED adapter_channel
          \/ \E kind, b : Sends(kind, b)
      BY <2>1 DEF Dispatch
    <2>3. CASE GoneOnItsWay(d)
      BY <1>3, <1>4, <2>2, <2>3
    <2>4. CASE LinkLives(d) /\ Head(delegate).ev = "DisconnectedDevice" /\ Head(delegate).dev = d
      <3>1. Sends("DeviceDisconnected", d)
        BY <2>1, <2>4 DEF Dispatch, LinkLives
      <3> QED BY <1>3, <3>1
    <2>5. CASE LinkLives(d) /\ ~ (Head(delegate).ev = "DisconnectedDevice" /\ Head(delegate).dev = d)
      <3>1. d \in known'
        BY <2>1, <2>5, ThreadKnows DEF LinkLives
      <3>2. EventForms
        BY <1>0, <2>1, EventForm
      <3>3. cb' = cb /\ Occurs(Head(delegate).ev) /\ Consume
        BY <1>0, <3>1, <3>2, HandlerTakes DEF Panic
      <3>4. Over(0, d) => Over(0, d)'
        BY <1>0, <2>5, <3>3, LaterTail
      <3> QED BY <1>2, <2>5, <3>1, <3>3, <3>4 DEF LinkLives
    <2> QED BY <2>3, <2>4, <2>5
  <1>6. CASE Others
    <2>1. UNCHANGED adapter_channel /\ known' = known
      BY <1>6, OthersKnow DEF Others, taskVars
    <2>2. CASE GoneOnItsWay(d)
      BY <1>4, <2>1, <2>2
    <2>3. CASE LinkLives(d)
      <3>1. CASE ClientScans \/ \E r \in Req : ClientCalls(r)
        <4>1. UNCHANGED <<cb, delegate>>
          BY <3>1 DEF ClientScans, ClientCalls
        <4> QED BY <2>1, <2>3, <4>1 DEF LinkLives, LossQueued
      <3>2. CASE HandleMessage
        <4>1. delegate' = delegate /\ (cb' = cb \/ \E b \in Device : Requests(b))
          BY <1>0, <3>2, MessageForm
        <4>2. ASSUME NEW b \in Device, Requests(b), cb[d].link \in {"connected", "disconnecting"}
              PROVE  cb'[d].link \in {"connected", "disconnecting"}
          <5>1. cb \in CbType
            BY <1>0 DEF TypeOK, DelegateTypeOK, CbType
          <5>2. CASE Connect(b)
            BY <4>2, <5>1, <5>2 DEF Connect, CbType
          <5>3. CASE CancelConnection(b)
            BY <4>2, <5>1, <5>3 DEF CancelConnection, CbType
          <5>4. CASE \E o, a, r : AttOp(o, a, r) \in AttOps /\ Ask(b, o, a, r)
            BY <4>2, <5>1, <5>4 DEF Ask, CbType
          <5> QED BY <4>2, <5>2, <5>3, <5>4 DEF Requests
        <4> QED BY <2>1, <2>3, <4>1, <4>2 DEF LinkLives, LossQueued
      <3>3. CASE Framework
        <4>1. PICK b \in Device : CallbackShapes(b)
          BY <1>0, <3>3, CallbackShape DEF Framework
        <4>2. /\ \A i \in DOMAIN delegate : i \in DOMAIN delegate' /\ delegate'[i] = delegate[i]
              /\ \/ cb'[d].link = cb[d].link
                 \/ DidConnectPeripheral(d)
                 \/ DidFailToConnectPeripheral(d)
                 \/ Over(0, d)'
          BY <1>0, <4>1, LinkSteps
        <4>3. LossQueued(d) => LossQueued(d)'
          BY <4>2 DEF LossQueued
        <4>4. CASE cb[d].link \in {"connected", "disconnecting"}
          <5>1. CASE DidConnectPeripheral(d)
            <6>1. cb'[d].link = "connected"
              <7>1. cb \in CbType
                BY <1>0 DEF TypeOK, DelegateTypeOK, CbType
              <7> QED BY <5>1, <7>1 DEF DidConnectPeripheral, CbType
            <6> QED BY <2>1, <2>3, <6>1 DEF LinkLives
          <5>2. ~ DidFailToConnectPeripheral(d)
            BY <4>4 DEF DidFailToConnectPeripheral
          <5> QED BY <1>2, <2>1, <2>3, <4>2, <4>4, <5>1, <5>2 DEF LinkLives
        <4> QED BY <2>1, <2>3, <4>3, <4>4 DEF LinkLives
      <3> QED BY <1>6, <3>1, <3>2, <3>3 DEF Others
    <2> QED BY <2>2, <2>3
  <1> QED BY <1>5, <1>6

\* A connect() that was answered tells the streams, whatever the thread does meanwhile.
LEMMA ReturningStays ==
    ASSUME IInv, [Next]_vars, UNCHANGED returned, NEW d \in Device
    PROVE  /\ Returning(d) => Returning(d)'
           /\ \A r \in Req : /\ ask[r].dev = d /\ ask[r].op = "connect" /\ r \notin returned
                             /\ st'[r] = "answered" /\ reply'[r].kind = "Connected"
                             => Returning(d)'
  <1>1. ask' = ask
    BY ConsumedStays DEF IInv
  <1>2. ASSUME NEW r \in Req, ask[r].dev = d, ask[r].op = "connect", r \notin returned,
               st'[r] = "answered", reply'[r].kind = "Connected"
        PROVE  Returning(d)'
    BY <1>1, <1>2 DEF Returning, Answered
  <1>3. ASSUME Returning(d)
        PROVE  Returning(d)'
    <2>1. PICK r \in Req : ask[r].dev = d /\ Answered(r, "connect", "Connected")
      BY <1>3 DEF Returning
    <2>2. st'[r] = "answered" /\ reply'[r] = reply[r]
      BY <2>1, AnswerStays DEF Answered
    <2> QED BY <1>2, <2>1, <2>2 DEF Answered
  <1> QED BY <1>2, <1>3

\* The steps of the thread, of the framework and of the calls.
LEMMA ThreadHears ==
    ASSUME StreamIInv, ThreadHandlesEvent \/ Others, panic' = "none"
    PROVE  HeardIsUp' /\ WholeIsHeard'
  <1>1. UNCHANGED <<managerVars, adapter_emits, emitting, returned, belied>>
    BY DEF ThreadHandlesEvent, Others, taskVars, historyVars
  <1>2. panic = "none" /\ [Next]_vars
    <2>1. [Next]_vars
      BY DEF ThreadHandlesEvent, Others, Next
    <2>2. panic = "none"
      BY ThreadKnows, OthersKnow DEF ThreadHandlesEvent
    <2> QED BY <2>1, <2>2
  <1>3. HeardIsUp /\ WholeIsHeard /\ SysIInv /\ IInv /\ TreeInv /\ ReturnsFit
    BY <1>2 DEF StreamIInv
  <1>4. \A d \in Device, s \in Stream : HeardUp(s, d)' <=> HeardUp(s, d)
    BY <1>1 DEF HeardUp, SaysUp, Came, Gone, managerVars
  <1>5. lagged' = lagged /\ belied' = belied /\ returned' = returned
    BY <1>1 DEF managerVars
  <1>6. HeardIsUp'
    <2>1. \A d \in Device : GoneOnItsWay(d) \/ LinkLives(d) => GoneOnItsWay(d)' \/ LinkLives(d)'
      BY <1>3, LinkStays
    <2> QED BY <1>3, <1>4, <1>5, <2>1 DEF HeardIsUp
  <1>7. ASSUME NEW d \in Device, d \notin belied, HasAll(d)'
        PROVE  Returning(d)' \/ \A s \in Stream : s \notin lagged => HeardUp(s, d)
    <2>1. CASE HasAll(d)
      <3>1. Returning(d) \/ \A s \in Stream : s \notin lagged => HeardUp(s, d)
        BY <1>3, <1>7, <2>1 DEF WholeIsHeard
      <3> QED BY <1>2, <1>3, <1>5, <3>1, ReturningStays
    <2>2. ASSUME NEW r \in Req, ask[r].dev = d, ask[r].op = "connect",
                 st[r] = "held", st'[r] = "answered", reply'[r].kind = "Connected"
          PROVE  Returning(d)'
      <3>1. r \notin returned
        BY <1>3, <2>2 DEF ReturnsFit
      <3> QED BY <1>2, <1>3, <1>5, <2>2, <3>1, ReturningStays
    <2> QED BY <1>2, <1>3, <1>7, <2>1, <2>2, WholeStep
  <1>8. WholeIsHeard'
    BY <1>4, <1>5, <1>7 DEF WholeIsHeard
  <1> QED BY <1>6, <1>8

\* The steps that send an event.
LEMMA SendersHear ==
    ASSUME StreamIInv, panic = "none",
           \/ AdapterUpdates
           \/ AdapterEmits
           \/ \E r \in Req : ConnectReturns(r) \/ DisconnectReturns(r)
    PROVE  HeardIsUp' /\ WholeIsHeard'
  <1>0. /\ HeardIsUp /\ WholeIsHeard /\ ManagerTypeOK /\ TypeOK /\ ReturnsFit
        /\ adapter_channel \in Seq(ChannelEvent) /\ adapter_emits \in Seq(CentralEvent)
        /\ Len(adapter_emits) <= 1
    BY DEF StreamIInv, SysIInv, SysTypeOK, ChannelType
  <1>1. \A d \in Device : Gone(d)' = Gone(d) /\ Gone(d) # Came(d)
    BY DEF Gone, Came, Central
  <1>2. ASSUME UNCHANGED <<ask, st, reply, returned>>
        PROVE  \A d \in Device : Returning(d) => Returning(d)'
    BY <1>2 DEF Returning, Answered
  <1>3. UNCHANGED vars => UNCHANGED <<ask, st, reply>>
    BY DEF vars, internalVars
  <1>4. CASE AdapterUpdates
    <2> DEFINE e == Head(adapter_channel)
    <2>1. /\ adapter_emits' = adapter_emits /\ adapter_channel # <<>>
          /\ adapter_channel' = Tail(adapter_channel) /\ e.ev = "DeviceUpdated"
          /\ UNCHANGED vars /\ returned' = returned
          /\ Emit(e) \/ UNCHANGED <<managerVars, belied>>
      BY <1>4 DEF AdapterUpdates, TaskTakes
    <2>2. e \in CentralEvent
      BY <1>0, <2>1, ChannelTypes
    <2>3. ASSUME NEW d \in Device, GoneOnItsWay(d)
          PROVE  GoneOnItsWay(d)'
      <3>1. CASE adapter_emits = <<Gone(d)>>
        BY <1>1, <2>1, <3>1 DEF GoneOnItsWay
      <3>2. ASSUME NEW i \in DOMAIN adapter_channel, adapter_channel[i] = Gone(d)
            PROVE  GoneOnItsWay(d)'
        <4>1. i # 1
          BY <2>1, <3>2 DEF Gone, Central
        <4>2. i - 1 \in DOMAIN adapter_channel' /\ adapter_channel'[i - 1] = Gone(d)
          BY <1>0, <2>1, <3>2, <4>1
        <4> QED BY <1>1, <4>2 DEF GoneOnItsWay
      <3> QED BY <2>3, <3>1, <3>2 DEF GoneOnItsWay
    <2>4. \A d \in Device : Returning(d) => Returning(d)'
      BY <1>2, <1>3, <2>1
    <2>5. CASE Emit(e)
      <3> HIDE DEF e
      <3> QED BY <1>0, <2>1, <2>2, <2>3, <2>4, <2>5, EmitKeeps
    <2>6. CASE UNCHANGED <<managerVars, belied>>
      <3>1. lagged' = lagged /\ belied' = belied
            /\ \A d \in Device, s \in Stream : HeardUp(s, d)' <=> HeardUp(s, d)
        BY <2>6 DEF HeardUp, SaysUp, Came, Gone, managerVars
      <3> QED BY <1>0, <2>1, <2>3, <2>4, <3>1, QuietKeeps
    <2> QED BY <2>1, <2>5, <2>6
  <1>5. CASE AdapterEmits
    <2> DEFINE e == Head(adapter_emits)
    <2>1. /\ adapter_emits # <<>> /\ Emit(e) /\ adapter_channel' = adapter_channel
          /\ UNCHANGED vars /\ returned' = returned
      BY <1>5 DEF AdapterEmits
    <2>2. e \in CentralEvent
      BY <1>0, <2>1
    <2>3. ASSUME NEW d \in Device, e # Gone(d), GoneOnItsWay(d)
          PROVE  GoneOnItsWay(d)'
      <3>1. adapter_emits # <<Gone(d)>>
        BY <2>3
      <3> QED BY <1>1, <2>1, <2>3, <3>1 DEF GoneOnItsWay
    <2>4. \A d \in Device : Returning(d) => Returning(d)'
      BY <1>2, <1>3, <2>1
    <2> HIDE DEF e
    <2> QED BY <1>0, <2>1, <2>2, <2>3, <2>4, EmitKeeps
  <1>6. ASSUME NEW r \in Req, ConnectReturns(r) \/ DisconnectReturns(r)
        PROVE  HeardIsUp' /\ WholeIsHeard'
    <2>1. ask[r].dev \in Device
      BY <1>0, CallShape
    <2>2. PICK e \in {Came(ask[r].dev), Gone(ask[r].dev)} :
             /\ Emit(e)
             /\ e = Gone(ask[r].dev) => ask[r].op = "disconnect"
      <3>1. CASE ConnectReturns(r)
        <4>1. Emit(Came(ask[r].dev)) /\ Came(ask[r].dev) # Gone(ask[r].dev)
          BY <1>1, <2>1, <3>1 DEF ConnectReturns, Came
        <4> QED BY <4>1
      <3>2. CASE DisconnectReturns(r)
        <4>1. Emit(Gone(ask[r].dev)) /\ ask[r].op = "disconnect"
          BY <1>0, <3>2 DEF DisconnectReturns, Gone, ReturnsFit
        <4> QED BY <4>1
      <3> QED BY <1>6, <3>1, <3>2
    <2>3. /\ UNCHANGED <<vars, adapter_channel, adapter_emits>> /\ returned' = returned \cup {r}
      BY <1>6 DEF ConnectReturns, DisconnectReturns
    <2>4. e \in CentralEvent
      BY <2>1, <2>2, ChannelTypes DEF Came, Gone, LinkEvent
    <2>5. ASSUME NEW d \in Device, GoneOnItsWay(d)
          PROVE  GoneOnItsWay(d)'
      BY <1>1, <2>3, <2>5 DEF GoneOnItsWay
    <2>6. ASSUME NEW d \in Device, e # Came(d), Returning(d)
          PROVE  Returning(d)'
      <3>1. PICK q \in Req : ask[q].dev = d /\ Answered(q, "connect", "Connected")
        BY <2>6 DEF Returning
      <3>2. q # r
        <4>1. ask[q].op = "connect"
          BY <3>1 DEF Answered
        <4> QED BY <2>2, <2>6, <3>1, <4>1
      <3> QED BY <1>3, <2>3, <3>1, <3>2 DEF Returning, Answered
    <2> QED BY <1>0, <2>2, <2>3, <2>4, <2>5, <2>6, EmitKeeps
  <1> QED BY <1>4, <1>5, <1>6

\* The steps that send nothing.
LEMMA OthersHear ==
    ASSUME StreamIInv, panic = "none",
           \/ AdapterAdds
           \/ AdapterRemoves
           \/ \E r \in Req : DisconnectRemoves(r)
           \/ \E s \in Stream : ClientReads(s)
           \/ UNCHANGED sysVars
    PROVE  HeardIsUp' /\ WholeIsHeard'
  <1>0. /\ HeardIsUp /\ WholeIsHeard /\ ManagerTypeOK
        /\ adapter_channel \in Seq(ChannelEvent)
    BY DEF StreamIInv, SysIInv, SysTypeOK, ChannelType
  <1>1. \A d \in Device : Gone(d)' = Gone(d)
    BY DEF Gone
  <1>2. UNCHANGED <<vars, lagged, belied, returned>>
    BY DEF AdapterAdds, AdapterRemoves, TaskTakes, DisconnectRemoves, ClientReads, StreamNext,
           Insert, Remove, sysVars, managerVars, taskVars, historyVars
  <1>3. \A d \in Device : Returning(d) => Returning(d)'
    BY <1>2 DEF Returning, Answered, vars, internalVars
  <1>4. ASSUME UNCHANGED <<unread, seen>>
        PROVE  \A d \in Device, s \in Stream : HeardUp(s, d)' <=> HeardUp(s, d)
    BY <1>4 DEF HeardUp, SaysUp, Came, Gone
  <1>5. ASSUME UNCHANGED <<adapter_channel, adapter_emits>>
        PROVE  \A d \in Device : GoneOnItsWay(d) => GoneOnItsWay(d)'
    BY <1>1, <1>5 DEF GoneOnItsWay
  <1>6. CASE AdapterAdds \/ AdapterRemoves
    <2> DEFINE e == Head(adapter_channel)
    <2>1. /\ adapter_channel # <<>> /\ adapter_channel' = Tail(adapter_channel)
          /\ adapter_emits = <<>> /\ UNCHANGED <<unread, seen>>
          /\ e.ev = "DeviceDiscovered" \/ adapter_emits' = <<e>>
      BY <1>6 DEF AdapterAdds, AdapterRemoves, TaskTakes, Insert, Remove, managerVars
    <2>2. ASSUME NEW d \in Device, GoneOnItsWay(d)
          PROVE  GoneOnItsWay(d)'
      <3>1. PICK i \in DOMAIN adapter_channel : adapter_channel[i] = Gone(d)
        BY <2>1, <2>2 DEF GoneOnItsWay
      <3>2. CASE i = 1
        <4>1. e = Gone(d)
          BY <1>0, <2>1, <3>1, <3>2
        <4>2. e.ev # "DeviceDiscovered"
          BY <4>1 DEF Gone, Central
        <4> QED BY <1>1, <2>1, <4>1, <4>2 DEF GoneOnItsWay
      <3>3. CASE i # 1
        <4>1. i - 1 \in DOMAIN adapter_channel' /\ adapter_channel'[i - 1] = Gone(d)
          BY <1>0, <2>1, <3>1, <3>3
        <4> QED BY <1>1, <4>1 DEF GoneOnItsWay
      <3> QED BY <3>2, <3>3
    <2> QED BY <1>0, <1>2, <1>3, <1>4, <2>1, <2>2, QuietKeeps
  <1>7. CASE (\E r \in Req : DisconnectRemoves(r)) \/ UNCHANGED sysVars
    <2>1. UNCHANGED <<unread, seen, adapter_channel, adapter_emits>>
      BY <1>7 DEF DisconnectRemoves, Remove, sysVars, managerVars, taskVars
    <2> QED BY <1>0, <1>2, <1>3, <1>4, <1>5, <2>1, QuietKeeps
  <1>8. ASSUME NEW t \in Stream, ClientReads(t)
        PROVE  HeardIsUp' /\ WholeIsHeard'
    <2>1. StreamNext(t) /\ UNCHANGED <<adapter_channel, adapter_emits>>
      BY <1>8 DEF ClientReads, taskVars
    <2>2. \A d \in Device, s \in Stream : HeardUp(s, d)' <=> HeardUp(s, d)
      BY <1>0, <2>1, NextHears, ChannelTypes
    <2> QED BY <1>0, <1>2, <1>3, <1>5, <2>1, <2>2, QuietKeeps
  <1> QED BY <1>6, <1>7, <1>8

\* What returns was answered, and stays so.
LEMMA ReturnsStep ==
    ASSUME SysTypeOK, IInv, ReturnsFit, [SysNext]_sysVars
    PROVE  ReturnsFit'
  <1>1. emitting \subseteq Req /\ returned \subseteq Req /\ [Next]_vars
    BY StepOfThread DEF SysTypeOK
  <1>2. /\ ask' = ask /\ \A r \in Req : st[r] = "answered" => st'[r] = "answered"
    BY <1>1, AnswerStays, ConsumedStays DEF IInv
  <1>3. \/ UNCHANGED <<emitting, returned>>
        \/ \E r \in Req : /\ ConnectReturns(r)
                          /\ emitting' = emitting /\ returned' = returned \cup {r}
                          /\ st[r] = "answered"
        \/ \E r \in Req : /\ emitting' = emitting \cup {r} /\ returned' = returned
                          /\ st[r] = "answered" /\ ask[r].op = "disconnect"
        \/ \E r \in Req : /\ r \in emitting
                          /\ emitting' = emitting \ {r} /\ returned' = returned \cup {r}
    <2>1. CASE ThreadHandlesEvent \/ Others \/ UNCHANGED sysVars \/ \E s \in Stream : ClientReads(s)
      BY <2>1 DEF ThreadHandlesEvent, Others, sysVars, taskVars, ClientReads
    <2>2. CASE AdapterAdds \/ AdapterUpdates \/ AdapterRemoves \/ AdapterEmits
      BY <2>2 DEF AdapterAdds, AdapterUpdates, AdapterRemoves, AdapterEmits, TaskTakes
    <2>3. ASSUME NEW r \in Req, ConnectReturns(r)
          PROVE  /\ emitting' = emitting /\ returned' = returned \cup {r} /\ st[r] = "answered"
      BY <2>3 DEF ConnectReturns, Answered
    <2>4. ASSUME NEW r \in Req, DisconnectRemoves(r)
          PROVE  /\ emitting' = emitting \cup {r} /\ returned' = returned
                 /\ st[r] = "answered" /\ ask[r].op = "disconnect"
      BY <2>4 DEF DisconnectRemoves, Answered
    <2>5. ASSUME NEW r \in Req, DisconnectReturns(r)
          PROVE  /\ r \in emitting /\ emitting' = emitting \ {r} /\ returned' = returned \cup {r}
      BY <2>5 DEF DisconnectReturns
    <2> QED BY <2>1, <2>2, <2>3, <2>4, <2>5 DEF SysNext
  <1> QED BY <1>1, <1>2, <1>3 DEF ReturnsFit

\* Every step keeps the invariant of the streams.
LEMMA StreamStep == StreamIInv /\ [SysNext]_sysVars => StreamIInv'
  <1> SUFFICES ASSUME StreamIInv, [SysNext]_sysVars
               PROVE  StreamIInv'
    OBVIOUS
  <1>1. SysTypeOK /\ SysIInv /\ IInv /\ TreeInv /\ ReturnsFit /\ [Next]_vars
    BY StepOfThread DEF StreamIInv
  <1>2. SysIInv'
    BY <1>1, SysStep
  <1>3. SysTypeOK'
    BY <1>1, <1>2, SysTypeStep
  <1>4. IInv' /\ TreeInv'
    BY <1>1, StepPlaces, TreeInvStep
  <1>5. ReturnsFit'
    BY <1>1, ReturnsStep
  <1>6. ASSUME panic' = "none"
        PROVE  HeardIsUp' /\ WholeIsHeard'
    <2>1. CASE ThreadHandlesEvent \/ Others
      BY <1>6, <2>1, ThreadHears
    <2>2. CASE ~ (ThreadHandlesEvent \/ Others)
      <3>1. panic = "none"
        BY <1>6, <2>2, StepOfThread DEF vars, delegateVars
      <3> QED BY <2>2, <3>1, SendersHear, OthersHear DEF SysNext
    <2> QED BY <2>1, <2>2
  <1> QED BY <1>1, <1>2, <1>3, <1>4, <1>5, <1>6 DEF StreamIInv

\* At the start nothing was sent and no device is known.
LEMMA StreamStart == SysInit => StreamIInv
  <1> SUFFICES ASSUME SysInit
               PROVE  StreamIInv
    OBVIOUS
  <1>1. Init /\ SysIInv /\ IInv /\ TreeInv
    BY SysStart, InitPlaces, TreeInvStart DEF SysInit
  <1>2. /\ peripherals = {} /\ unread = [s \in Stream |-> <<>>] /\ lagged = {}
        /\ seen = [s \in Stream |-> [id \in PeripheralId |-> "none"]]
        /\ adapter_channel = <<>> /\ adapter_emits = <<>> /\ adapter_died = FALSE
        /\ listed = {} /\ emitting = {} /\ returned = {} /\ belied = {} /\ erased = {}
        /\ known = {}
    BY DEF SysInit, ManagerInit, Init
  <1>3. SysTypeOK
    <2>1. <<>> \in Seq(CentralEvent) /\ Len(<<>>) = 0
      OBVIOUS
    <2>2. ManagerTypeOK
      BY <1>2, <2>1, ManagerAssumption DEF ManagerTypeOK
    <2>3. adapter_channel \in Seq(CentralEvent) /\ Len(adapter_channel) <= ChannelSize
          /\ adapter_emits \in Seq(CentralEvent) /\ Len(adapter_emits) <= 1
      BY <1>2, <2>1, AdapterAssumption
    <2>4. adapter_died \in BOOLEAN
      BY <1>2
    <2> QED BY <1>2, <2>2, <2>3, <2>4 DEF SysTypeOK
  <1>4. ReturnsFit
    BY <1>2 DEF ReturnsFit
  <1>5. HeardIsUp
    <2>1. \A d \in Device, s \in Stream : ~ HeardUp(s, d)
      BY <1>2, ChannelTypes DEF HeardUp, SaysUp
    <2> QED BY <2>1 DEF HeardIsUp
  <1>6. WholeIsHeard
    BY <1>2 DEF WholeIsHeard, HasAll
  <1> QED BY <1>1, <1>3, <1>4, <1>5, <1>6 DEF StreamIInv

\* For every number of devices, calls and streams and every capacity, a stream that lost no
\* event tells its client in the end whether a device is connected: nothing orders the two
\* paths from the thread to the manager, but an event that comes too late belies its device.
THEOREM StreamsTellTheTruth == SysSpec => []StreamTruth
  <1>1. StreamIInv => StreamTruth
    <2> SUFFICES ASSUME StreamIInv, panic = "none",
                        NEW d \in Device, d \notin belied, NEW s \in Stream, s \notin lagged,
                        Told(d), unread[s] = <<>>
                 PROVE  /\ seen[s][d] = "DeviceConnected" =>
                              cb[d].link \in {"connected", "disconnecting"}
                        /\ Up(d) => seen[s][d] = "DeviceConnected"
      BY DEF StreamTruth
    <2>1. HeardUp(s, d) <=> seen[s][d] = "DeviceConnected"
      BY DEF HeardUp, SaysUp
    <2>2. ~ GoneOnItsWay(d) /\ ~ LossQueued(d) /\ ~ Returning(d)
      BY DEF Told, Drained, GoneOnItsWay, LossQueued, Returning, Gone, Central
    <2>3. HeardIsUp /\ WholeIsHeard
      BY DEF StreamIInv
    <2>4. Up(d) => HasAll(d)
      BY DEF Up, HasAll
    <2> QED BY <2>1, <2>2, <2>3, <2>4 DEF HeardIsUp, WholeIsHeard, LinkLives
  <1> QED BY <1>1, StreamStart, StreamStep, PTL DEF SysSpec

\* The types of the adapter's task and of the manager, the bounds of their channels included.
THEOREM SysTypeCorrect == SysSpec => []SysTypeOK
  <1>1. StreamIInv => SysTypeOK
    BY DEF StreamIInv
  <1> QED BY <1>1, StreamStart, StreamStep, PTL DEF SysSpec

=============================================================================
