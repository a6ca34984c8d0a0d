--------------------------- MODULE BackendsProofs ---------------------------
(***************************************************************************)
(* Theorems of the backends that have no thread of their own, for any      *)
(* number of peripherals, handlers, calls and clients.                     *)
(***************************************************************************)
EXTENDS Backends, FiniteSetTheorems, SequenceTheorems, TLAPS

----------------------------------------------------------------------------
(* One characteristic of the Windows backend.  Every handler is registered *)
(* under the token that is kept or is lost, and a call that holds the      *)
(* mutable reference finds the token as it left it.                        *)

CharacteristicTypeOK ==
    /\ present \in BOOLEAN
    /\ notify_token \in NotifyCall \cup {NoHandler}
    /\ handlers \subseteq NotifyCall
    /\ configured \in BOOLEAN
    /\ phase \in [NotifyCall -> Phase]

\* The handlers are those that the token and the history account for.
HandlersInv == handlers \subseteq {notify_token} \cup lost

\* A call that is under way has the object; one that subscribes has its token, and one that
\* unsubscribes has none.
HolderInv ==
    \A c \in NotifyCall : /\ phase[c] \notin {"idle", "done"} => present
                          /\ phase[c] = "subscribes" => notify_token = c /\ c \in handlers
                          /\ phase[c] = "unsubscribes" => notify_token = NoHandler

\* Without an object nothing is left of a subscription.
AbsentInv == ~ present => notify_token = NoHandler /\ lastOk = "none"

\* What the last Ok means.
LastInv == /\ lastOk = "subscribes" => notify_token \in handlers /\ configured
           /\ lastOk = "unsubscribes" => notify_token = NoHandler /\ ~ configured

CharacteristicInv ==
    CharacteristicTypeOK /\ HandlersInv /\ HolderInv /\ AbsentInv /\ LastInv

\* At the start there is no characteristic and no handler.
LEMMA CharacteristicInvInit == WinrtCharacteristicInit => CharacteristicInv
BY DEF WinrtCharacteristicInit, CharacteristicInv, CharacteristicTypeOK, HandlersInv, HolderInv,
       AbsentInv, LastInv, Phase

USE DEF CharacteristicInv, CharacteristicTypeOK, HandlersInv, HolderInv, AbsentInv, LastInv, Phase

\* discover_services inserts a characteristic without a token.
LEMMA CreatesKeeps ==
    ASSUME CharacteristicInv, CreatesCharacteristic
    PROVE  CharacteristicInv'
BY DEF CreatesCharacteristic

\* read and write take a shared reference, and leave handlers alone.
LEMMA ReadsKeeps ==
    ASSUME CharacteristicInv, NEW c \in NotifyCall, ReadsOrWrites(c)
    PROVE  CharacteristicInv'
<1>1. phase' = [phase EXCEPT ![c] = "reads"]
  BY DEF ReadsOrWrites, PhaseOf
<1> QED
  BY <1>1 DEF ReadsOrWrites

\* In its first disjunct nothing but the phase changes; in the second the handler of the token
\* that is overwritten is lost.
LEMMA SubscribeKeeps ==
    ASSUME CharacteristicInv, NEW c \in NotifyCall, WinrtSubscribe(c)
    PROVE  CharacteristicInv'
<1>1. \A b \in NotifyCall : phase[b] \in {"idle", "done"}
  BY DEF WinrtSubscribe, Unreferenced
<1>2. present /\ present' = present /\ configured' = configured /\ lastOk' = "none"
  BY DEF WinrtSubscribe
<1>3. CASE PhaseOf(c, "done") /\ UNCHANGED <<notify_token, handlers, lost>>
  <2>1. phase' = [phase EXCEPT ![c] = "done"]
    BY <1>3 DEF PhaseOf
  <2> QED
    BY <1>1, <1>2, <1>3, <2>1
<1>4. CASE /\ handlers' = handlers \cup {c}
           /\ notify_token' = c
           /\ lost' = lost \cup KeptToken
           /\ PhaseOf(c, "subscribes") \/ PhaseOf(c, "done")
  <2>1. \E p \in {"subscribes", "done"} : phase' = [phase EXCEPT ![c] = p]
    BY <1>4 DEF PhaseOf
  <2>2. CharacteristicTypeOK'
    BY <1>2, <1>4, <2>1
  <2>3. HandlersInv'
    BY <1>4, WinrtCharacteristicAssumption DEF KeptToken
  <2>4. HolderInv'
    BY <1>1, <1>2, <1>4, <2>1
  <2> QED
    BY <1>2, <2>2, <2>3, <2>4
<1> QED
  BY <1>3, <1>4 DEF WinrtSubscribe

\* unsubscribe takes the handler of the token away before it writes.
LEMMA UnsubscribeKeeps ==
    ASSUME CharacteristicInv, NEW c \in NotifyCall, WinrtUnsubscribe(c)
    PROVE  CharacteristicInv'
<1>1. \A b \in NotifyCall : phase[b] \in {"idle", "done"}
  BY DEF WinrtUnsubscribe, Unreferenced
<1>2. /\ present /\ present' = present /\ configured' = configured /\ lost' = lost
      /\ lastOk' = "none"
  BY DEF WinrtUnsubscribe
<1>3. \E p \in {"unsubscribes", "done"} : phase' = [phase EXCEPT ![c] = p]
  BY DEF WinrtUnsubscribe, PhaseOf
<1>4. \/ /\ UNCHANGED <<notify_token, handlers>>
         /\ phase' = [phase EXCEPT ![c] = "done"]
      \/ handlers' = handlers \ {notify_token} /\ notify_token' = NoHandler
  BY DEF WinrtUnsubscribe, RemovesHandler, PhaseOf
<1> QED
  BY <1>1, <1>2, <1>3, <1>4

\* The answer of a write ends the call that held the reference.
LEMMA AnsweredKeeps ==
    ASSUME CharacteristicInv, NEW c \in NotifyCall, Answered(c)
    PROVE  CharacteristicInv'
<1>1. phase' = [phase EXCEPT ![c] = "done"] /\ present
  BY DEF Answered, PhaseOf
<1>2. UNCHANGED <<present, notify_token, handlers, lost>>
  BY DEF Answered
<1>3. \/ UNCHANGED <<configured, lastOk>>
      \/ configured' = (phase[c] = "subscribes") /\ lastOk' = phase[c]
  BY DEF Answered
<1>4. CharacteristicTypeOK' /\ HandlersInv'
  BY <1>1, <1>2, <1>3
<1>5. HolderInv' /\ AbsentInv'
  BY <1>1, <1>2
<1>6. LastInv'
  <2>1. CASE UNCHANGED <<configured, lastOk>>
    BY <1>2, <2>1
  <2>2. CASE configured' = (phase[c] = "subscribes") /\ lastOk' = phase[c]
    BY <1>2, <2>2
  <2> QED
    BY <1>3, <2>1, <2>2
<1> QED
  BY <1>4, <1>5, <1>6

\* A dropped call lets the reference go, and its write is an orphan.
LEMMA DropsKeeps ==
    ASSUME CharacteristicInv, NEW c \in NotifyCall, DropsCall(c)
    PROVE  CharacteristicInv'
<1>1. phase' = [phase EXCEPT ![c] = "done"] /\ present
  BY DEF DropsCall, PhaseOf
<1> QED
  BY <1>1 DEF DropsCall

\* The values of orphans are BOOLEANs only by what puts them there; configured keeps its type
\* with theirs.
OrphansOK == orphans \subseteq BOOLEAN

\* A write that comes late changes the descriptor, and no handler.
LEMMA OrphanKeeps ==
    ASSUME CharacteristicInv, OrphansOK, OrphanWrites
    PROVE  CharacteristicInv'
BY DEF OrphanWrites, OrphansOK

\* disconnect drops the characteristic, and with it the handler of its token, or loses it.
LEMMA ClearsKeeps ==
    ASSUME CharacteristicInv, ClearsServices
    PROVE  CharacteristicInv'
BY WinrtCharacteristicAssumption DEF ClearsServices, Unreferenced, RemovesHandler, KeptToken

\* The orphans are values of the descriptor.
LEMMA OrphansStay ==
    ASSUME OrphansOK, [WinrtCharacteristicNext]_winrtCharacteristicVars
    PROVE  OrphansOK'
<1>1. CASE UNCHANGED winrtCharacteristicVars
  BY <1>1 DEF OrphansOK, winrtCharacteristicVars
<1>2. CASE CreatesCharacteristic \/ OrphanWrites \/ ClearsServices
  BY <1>2 DEF OrphansOK, CreatesCharacteristic, OrphanWrites, ClearsServices
<1>3. ASSUME NEW c \in NotifyCall,
             ReadsOrWrites(c) \/ WinrtSubscribe(c) \/ WinrtUnsubscribe(c) \/ Answered(c)
      PROVE  OrphansOK'
  BY <1>3 DEF OrphansOK, ReadsOrWrites, WinrtSubscribe, WinrtUnsubscribe, Answered
<1>4. ASSUME NEW c \in NotifyCall, DropsCall(c)
      PROVE  OrphansOK'
  BY <1>4 DEF OrphansOK, DropsCall
<1> QED
  BY <1>1, <1>2, <1>3, <1>4 DEF WinrtCharacteristicNext

\* Every step keeps the invariant.
LEMMA CharacteristicInvStep ==
    ASSUME CharacteristicInv, OrphansOK, [WinrtCharacteristicNext]_winrtCharacteristicVars
    PROVE  CharacteristicInv'
<1>1. CASE UNCHANGED winrtCharacteristicVars
  BY <1>1 DEF winrtCharacteristicVars
<1>2. CASE CreatesCharacteristic
  BY <1>2, CreatesKeeps
<1>3. CASE OrphanWrites
  BY <1>3, OrphanKeeps
<1>4. CASE ClearsServices
  BY <1>4, ClearsKeeps
<1>5. ASSUME NEW c \in NotifyCall,
             \/ ReadsOrWrites(c) \/ WinrtSubscribe(c) \/ WinrtUnsubscribe(c)
             \/ Answered(c) \/ DropsCall(c)
      PROVE  CharacteristicInv'
  BY <1>5, ReadsKeeps, SubscribeKeeps, UnsubscribeKeeps, AnsweredKeeps, DropsKeeps
<1> QED
  BY <1>1, <1>2, <1>3, <1>4, <1>5 DEF WinrtCharacteristicNext

\* The invariant holds in every state, for any number of calls.
LEMMA CharacteristicInvAlways == WinrtCharacteristicSpec => [](CharacteristicInv /\ OrphansOK)
<1>1. WinrtCharacteristicInit => OrphansOK
  BY DEF WinrtCharacteristicInit, OrphansOK
<1> QED
  BY <1>1, CharacteristicInvInit, CharacteristicInvStep, OrphansStay, PTL
     DEF WinrtCharacteristicSpec

\* Whatever calls are made, dropped and answered in whatever order, and whichever of them fail:
\* the only handlers are the one whose token is kept and those whose token was overwritten or
\* dropped in spite of an error; a subscribe() that was the last to return Ok has its handler
\* and the device set to notify, an unsubscribe() has neither.
THEOREM OneHandlerAlways == WinrtCharacteristicSpec => []WinrtOneHandler
<1>1. CharacteristicInv => WinrtOneHandler
  BY WinrtCharacteristicAssumption DEF WinrtOneHandler
<1> QED
  BY <1>1, CharacteristicInvAlways, PTL

----------------------------------------------------------------------------
(* Scanning in the Windows backend. *)

Places == {"idle", "updates", "creates", "tells", "adds", "inserts", "announces", "dead"}

\* The types that the steps of the adapters keep.
ScanTypeOK ==
    /\ peripherals \subseteq PeripheralId /\ borrowed \subseteq PeripheralId
    /\ link \in [PeripheralId -> {"down", "up", "lost"}]
    /\ mirrored \subseteq PeripheralId /\ raced \subseteq PeripheralId

WinrtTypeOK ==
    /\ ScanTypeOK
    /\ received \subseteq Scan
    /\ at \in [Scan -> Places]
    /\ about \in [Scan -> PeripheralId \cup {NoPeripheral}]
    /\ \A h \in Scan : at[h] # "idle" => about[h] \in PeripheralId /\ h \in received

\* Between its removal and the event about it a peripheral is not in the map, and no handler
\* is about to announce it; one that is about to be announced is in the map.
WinrtMapInv ==
    \A id \in PeripheralId \ raced :
        /\ link[id] = "lost" => id \notin peripherals /\ id \notin WinrtTelling
        /\ id \in WinrtTelling => id \in peripherals
        /\ link[id] # "lost" /\ id \notin WinrtTelling => (id \in mirrored <=> id \in peripherals)

\* A handler that updates a peripheral has the only reference to it.
WinrtReferences ==
    \A h \in Scan : at[h] \in {"updates", "tells"} =>
        /\ about[h] \in borrowed /\ about[h] \in peripherals
        /\ \A g \in Scan : at[g] \in {"updates", "tells"} /\ about[g] = about[h] => g = h

WinrtStrays ==
    \A e \in strays : /\ e.ev # "DeviceUpdated"
                      /\ e.ev = "DeviceDiscovered" => e.id \in raced

\* With one handler nothing comes between its look at the map and its insert.
WinrtAlone ==
    (\A h, g \in received : h = g) =>
        /\ collided = {} /\ early \subseteq raced
        /\ \A h \in Scan : at[h] \in {"creates", "adds", "inserts"} => about[h] \notin peripherals

WinrtInv == WinrtTypeOK /\ WinrtMapInv /\ WinrtReferences /\ WinrtStrays /\ WinrtAlone

\* The map is empty, and so is what a reader knows of it.
LEMMA WinrtStart == WinrtAdapterInit => WinrtInv
  <1> SUFFICES ASSUME WinrtAdapterInit
               PROVE  WinrtInv
    OBVIOUS
  <1>1. /\ peripherals = {} /\ borrowed = {} /\ link = [id \in PeripheralId |-> "down"]
        /\ mirrored = {} /\ raced = {} /\ strays = {} /\ early = {} /\ collided = {} /\ received = {}
        /\ at = [h \in Scan |-> "idle"] /\ about = [h \in Scan |-> NoPeripheral]
    BY DEF WinrtAdapterInit, ScanInit, ManagerInit
  <1>2. WinrtTypeOK
    BY <1>1 DEF WinrtTypeOK, ScanTypeOK, Places
  <1>3. WinrtMapInv /\ WinrtReferences /\ WinrtStrays /\ WinrtAlone
    BY <1>1 DEF WinrtMapInv, WinrtReferences, WinrtStrays, WinrtAlone, WinrtTelling
  <1> QED BY <1>2, <1>3 DEF WinrtInv

\* What a send changes.
LEMMA AnnounceEffect ==
    ASSUME NEW kind, NEW id, Announce(kind, id)
    PROVE  /\ peripherals' = peripherals /\ raced' = raced /\ collided' = collided
           /\ strays' \subseteq strays \cup {[ev |-> kind, id |-> id]}
           /\ id \in peripherals => strays' = strays
           /\ early' \subseteq early \cup {id}
           /\ kind # "DeviceUpdated" \/ id \in mirrored => early' = early
           /\ mirrored' = IF kind = "DeviceDiscovered" THEN mirrored \cup {id} ELSE mirrored
BY DEF Announce, SendEvent, Central

\* What a handler that moves on leaves of the others.
LEMMA WinrtMoves ==
    ASSUME WinrtTypeOK, NEW h \in Scan, NEW place \in Places, Moves(h, place)
    PROVE  /\ at'[h] = place /\ received' = received
           /\ place # "idle" => about'[h] = about[h]
           /\ \A g \in Scan : g # h => at'[g] = at[g] /\ about'[g] = about[g]
           /\ at' \in [Scan -> Places] /\ about' \in [Scan -> PeripheralId \cup {NoPeripheral}]
           /\ place = "announces" => WinrtTelling' = WinrtTelling \cup {about[h]}
           /\ place # "announces" /\ at[h] # "announces" => WinrtTelling' = WinrtTelling
           /\ WinrtTelling \ {about[h]} \subseteq WinrtTelling' /\ WinrtTelling' \subseteq WinrtTelling \cup {about[h]}
  <1>1. /\ at'[h] = place /\ received' = received
        /\ place # "idle" => about'[h] = about[h]
        /\ \A g \in Scan : g # h => at'[g] = at[g] /\ about'[g] = about[g]
        /\ at' \in [Scan -> Places] /\ about' \in [Scan -> PeripheralId \cup {NoPeripheral}]
    BY DEF Moves, WinrtTypeOK
  <1>2. /\ place = "announces" => WinrtTelling' = WinrtTelling \cup {about[h]}
        /\ place # "announces" /\ at[h] # "announces" => WinrtTelling' = WinrtTelling
        /\ WinrtTelling \ {about[h]} \subseteq WinrtTelling' /\ WinrtTelling' \subseteq WinrtTelling \cup {about[h]}
    <2>1. \A g \in Scan : g # h => ((at[g] = "announces" <=> at'[g] = "announces") /\ about'[g] = about[g])
      BY <1>1
    <2>2. \A x : x \in WinrtTelling' <=> \E g \in Scan : at'[g] = "announces" /\ about'[g] = x
      BY DEF WinrtTelling
    <2>3. \A x : x \in WinrtTelling <=> \E g \in Scan : at[g] = "announces" /\ about[g] = x
      BY DEF WinrtTelling
    <2>4. place = "announces" => WinrtTelling' = WinrtTelling \cup {about[h]}
      <3> SUFFICES ASSUME place = "announces", NEW x
                   PROVE  x \in WinrtTelling' <=> (x \in WinrtTelling \/ x = about[h])
        OBVIOUS
      <3>1. at'[h] = "announces" /\ about'[h] = about[h]
        BY <1>1
      <3> QED BY <3>1, <2>1, <2>2, <2>3
    <2>5. place # "announces" /\ at[h] # "announces" => WinrtTelling' = WinrtTelling
      <3> SUFFICES ASSUME place # "announces", at[h] # "announces", NEW x
                   PROVE  x \in WinrtTelling' <=> x \in WinrtTelling
        OBVIOUS
      <3> QED BY <1>1, <2>1, <2>2, <2>3
    <2>6. WinrtTelling \ {about[h]} \subseteq WinrtTelling'
      BY <2>1, <2>2, <2>3
    <2>7. WinrtTelling' \subseteq WinrtTelling \cup {about[h]}
      <3> SUFFICES ASSUME NEW x \in WinrtTelling', x # about[h]
                   PROVE  x \in WinrtTelling
        OBVIOUS
      <3>1. PICK g \in Scan : at'[g] = "announces" /\ about'[g] = x
        BY <2>2
      <3>2. g # h
        BY <3>1, <1>1
      <3> QED BY <3>1, <3>2, <2>1, <2>3
    <2> QED BY <2>4, <2>5, <2>6, <2>7
  <1> QED BY <1>1, <1>2

\* A step of one handler that changes neither the map nor what a reader knows of it.
LEMMA WinrtQuiet ==
    ASSUME WinrtInv, NEW h \in Scan, NEW place \in Places,
           at'[h] = place, received' = received, about' \in [Scan -> PeripheralId \cup {NoPeripheral}],
           at' \in [Scan -> Places], borrowed' \subseteq PeripheralId,
           \A g \in Scan : g # h => at'[g] = at[g] /\ about'[g] = about[g],
           place # "idle" => about'[h] \in PeripheralId /\ h \in received,
           UNCHANGED <<peripherals, link, mirrored, raced>>,
           strays' = strays \/ \E id : strays' \subseteq strays \cup {[ev |-> "Advertisement", id |-> id]},
           WinrtTelling' = WinrtTelling,
           WinrtReferences',
           (\A f, g \in received : f = g) =>
                /\ collided' = {} /\ early' \subseteq raced
                /\ place \in {"creates", "adds", "inserts"} => about'[h] \notin peripherals
    PROVE  WinrtInv'
  <1>1. WinrtTypeOK'
    <2>1. ScanTypeOK'
      BY DEF WinrtInv, WinrtTypeOK, ScanTypeOK
    <2>2. \A g \in Scan : at'[g] # "idle" => about'[g] \in PeripheralId /\ g \in received'
      BY DEF WinrtInv, WinrtTypeOK
    <2> QED BY <2>1, <2>2 DEF WinrtInv, WinrtTypeOK
  <1>2. WinrtMapInv'
    BY DEF WinrtInv, WinrtMapInv
  <1>3. WinrtStrays'
    BY DEF WinrtInv, WinrtStrays
  <1>4. WinrtAlone'
    <2> SUFFICES ASSUME \A f, g \in received : f = g
                 PROVE  /\ collided' = {} /\ early' \subseteq raced'
                        /\ \A g \in Scan : at'[g] \in {"creates", "adds", "inserts"} => about'[g] \notin peripherals'
      BY DEF WinrtAlone
    <2>1. \A g \in Scan : g # h => (at'[g] \in {"creates", "adds", "inserts"} => about'[g] \notin peripherals')
      BY DEF WinrtInv, WinrtAlone
    <2>2. at'[h] \in {"creates", "adds", "inserts"} => about'[h] \notin peripherals'
      OBVIOUS
    <2> QED BY <2>1, <2>2
  <1> QED BY <1>1, <1>2, <1>3, <1>4 DEF WinrtInv

\* The handler is called, or looks at the map before the insert.
LEMMA WinrtLooks ==
    ASSUME WinrtInv, NEW h \in Scan,
           \/ \E id \in PeripheralId : Received(h, id)
           \/ UpdateProperties(h)
           \/ at[h] = "adds" /\ AddPeripheral(h)
    PROVE  WinrtInv'
  <1>0. WinrtTypeOK /\ WinrtReferences /\ WinrtAlone
    BY DEF WinrtInv
  <1>1. ASSUME NEW id \in PeripheralId, Received(h, id)
        PROVE  WinrtInv'
    <2> DEFINE place == IF id \notin peripherals THEN "creates" ELSE "updates"
    <2>1. /\ at[h] = "idle" /\ at' = [at EXCEPT ![h] = place] /\ about' = [about EXCEPT ![h] = id]
          /\ h \in received /\ id \notin borrowed
          /\ borrowed' = IF id \notin peripherals THEN borrowed ELSE borrowed \cup {id}
          /\ UNCHANGED <<peripherals, link, mirrored, raced, strays, early, collided, received>>
      BY <1>1 DEF Received, Unlisted, KeepsReference, managerVars, scanHistory
    <2>2. /\ at'[h] = place /\ about'[h] = id
          /\ \A g \in Scan : g # h => at'[g] = at[g] /\ about'[g] = about[g]
          /\ at' \in [Scan -> Places] /\ about' \in [Scan -> PeripheralId \cup {NoPeripheral}]
      BY <1>0, <2>1 DEF WinrtTypeOK, Places
    <2>3. WinrtTelling' = WinrtTelling
      <3>1. \A x : x \in WinrtTelling' <=> \E g \in Scan : at'[g] = "announces" /\ about'[g] = x
        BY DEF WinrtTelling
      <3>2. \A x : x \in WinrtTelling <=> \E g \in Scan : at[g] = "announces" /\ about[g] = x
        BY DEF WinrtTelling
      <3>3. place # "announces"
        OBVIOUS
      <3> QED BY <3>1, <3>2, <3>3, <2>1, <2>2
    <2>4. WinrtReferences'
      <3>1. \A g \in Scan : g # h => (at[g] \in {"updates", "tells"} => about[g] # id)
        BY <1>0, <2>1 DEF WinrtReferences
      <3> QED BY <1>0, <2>1, <2>2, <3>1 DEF WinrtReferences
    <2>5. place \in Places /\ borrowed' \subseteq PeripheralId
      BY <1>0, <2>1 DEF Places, WinrtTypeOK, ScanTypeOK
    <2>6. /\ (\A f, g \in received : f = g) => collided' = {} /\ early' \subseteq raced
          /\ place \in {"creates", "adds", "inserts"} => about'[h] \notin peripherals
      BY <1>0, <2>1, <2>2 DEF WinrtAlone
    <2> HIDE DEF place
    <2> QED BY <2>1, <2>2, <2>3, <2>4, <2>5, <2>6, WinrtQuiet
  <1>2. ASSUME UpdateProperties(h)
        PROVE  WinrtInv'
    <2>1. PICK place \in {"tells", "adds"} :
              /\ place = "tells" => at[h] = "updates"
              /\ place = "adds" => at[h] = "creates"
              /\ Moves(h, place)
              /\ Announce("Advertisement", about[h]) \/ UNCHANGED <<managerVars, scanHistory>>
              /\ UNCHANGED placeVars
      BY <1>2 DEF UpdateProperties
    <2>2. place \in Places /\ place # "idle" /\ place # "announces" /\ at[h] # "announces" /\ at[h] # "idle"
      BY <2>1 DEF Places
    <2>3. /\ at'[h] = place /\ received' = received /\ about'[h] = about[h]
          /\ \A g \in Scan : g # h => at'[g] = at[g] /\ about'[g] = about[g]
          /\ at' \in [Scan -> Places] /\ about' \in [Scan -> PeripheralId \cup {NoPeripheral}]
          /\ WinrtTelling' = WinrtTelling
      BY <1>0, <2>1, <2>2, WinrtMoves
    <2>4. UNCHANGED <<peripherals, link, mirrored, raced, early, collided, borrowed>>
      BY <2>1 DEF Announce, SendEvent, Central, managerVars, scanHistory, placeVars
    <2>5. strays' = strays \/ \E id : strays' \subseteq strays \cup {[ev |-> "Advertisement", id |-> id]}
      BY <2>1, AnnounceEffect DEF scanHistory
    <2>6. WinrtReferences'
      BY <1>0, <2>1, <2>2, <2>3, <2>4 DEF WinrtReferences
    <2>7. /\ about'[h] \in PeripheralId /\ h \in received /\ borrowed' \subseteq PeripheralId
          /\ (\A f, g \in received : f = g) =>
                /\ collided' = {} /\ early' \subseteq raced
                /\ place \in {"creates", "adds", "inserts"} => about'[h] \notin peripherals
      BY <1>0, <2>1, <2>2, <2>3, <2>4 DEF WinrtAlone, WinrtTypeOK, ScanTypeOK
    <2> QED BY <2>2, <2>3, <2>4, <2>5, <2>6, <2>7, WinrtQuiet
  <1>3. ASSUME at[h] = "adds", AddPeripheral(h)
        PROVE  WinrtInv'
    <2> DEFINE place == IF about[h] \notin peripherals THEN "inserts" ELSE "dead"
    <2>1. /\ Moves(h, place)
          /\ collided' = IF about[h] \notin peripherals THEN collided ELSE collided \cup {about[h]}
          /\ UNCHANGED <<peripherals, borrowed, link, mirrored, raced, strays, early>>
      BY <1>3 DEF AddPeripheral, Unlisted, AssertionFails, scanVars, managerVars, placeVars, scanHistory
    <2>2. place \in Places /\ place # "idle" /\ place # "announces"
      BY DEF Places
    <2>8. about[h] \notin peripherals \/ ~ place \in {"creates", "adds", "inserts"}
      OBVIOUS
    <2> HIDE DEF place
    <2>3. /\ at'[h] = place /\ received' = received /\ about'[h] = about[h]
          /\ \A g \in Scan : g # h => at'[g] = at[g] /\ about'[g] = about[g]
          /\ at' \in [Scan -> Places] /\ about' \in [Scan -> PeripheralId \cup {NoPeripheral}]
          /\ WinrtTelling' = WinrtTelling
      BY <1>0, <1>3, <2>1, <2>2, WinrtMoves
    <2>6. WinrtReferences'
      <3>1. ~ place \in {"updates", "tells"}
        BY DEF place
      <3> QED BY <1>0, <1>3, <2>1, <2>2, <2>3, <3>1 DEF WinrtReferences
    <2>7. /\ about'[h] \in PeripheralId /\ h \in received /\ borrowed' \subseteq PeripheralId
      BY <1>0, <1>3, <2>1, <2>2, <2>3 DEF WinrtTypeOK, ScanTypeOK
    <2>9. (\A f, g \in received : f = g) =>
                /\ collided' = {} /\ early' \subseteq raced
                /\ place \in {"creates", "adds", "inserts"} => about'[h] \notin peripherals
      BY <1>0, <1>3, <2>1, <2>3, <2>8 DEF WinrtAlone
    <2> QED BY <2>1, <2>2, <2>3, <2>6, <2>7, <2>9, WinrtQuiet
  <1> QED BY <1>1, <1>2, <1>3

\* DeviceUpdated: the reference to the peripheral kept it in the map.
LEMMA WinrtTells ==
    ASSUME WinrtInv, NEW h \in Scan, TellsUpdated(h)
    PROVE  WinrtInv'
  <1>0. WinrtTypeOK /\ WinrtReferences /\ WinrtAlone /\ WinrtMapInv
    BY DEF WinrtInv
  <1>1. /\ at[h] = "tells" /\ Moves(h, "idle") /\ Announce("DeviceUpdated", about[h])
        /\ borrowed' = borrowed \ {about[h]} /\ link' = link
    BY DEF TellsUpdated
  <1>2. /\ at'[h] = "idle" /\ received' = received
        /\ \A g \in Scan : g # h => at'[g] = at[g] /\ about'[g] = about[g]
        /\ at' \in [Scan -> Places] /\ about' \in [Scan -> PeripheralId \cup {NoPeripheral}]
        /\ WinrtTelling' = WinrtTelling
    BY <1>0, <1>1, WinrtMoves DEF Places
  <1>3. about[h] \in peripherals /\ about[h] \in borrowed /\ about[h] \in PeripheralId /\ h \in received
    BY <1>0, <1>1 DEF WinrtReferences, WinrtTypeOK
  <1>4. UNCHANGED <<peripherals, raced, collided, strays, mirrored>>
    BY <1>1, <1>3, AnnounceEffect
  <1>5. WinrtReferences'
    BY <1>0, <1>1, <1>2, <1>3, <1>4 DEF WinrtReferences
  <1>6. (\A f, g \in received : f = g) => collided' = {} /\ early' \subseteq raced
    <2> SUFFICES ASSUME \A f, g \in received : f = g
                 PROVE  collided' = {} /\ early' \subseteq raced
      OBVIOUS
    <2>1. collided = {} /\ early \subseteq raced
      BY <1>0 DEF WinrtAlone
    <2>2. CASE about[h] \in raced
      BY <1>1, <1>4, <2>1, <2>2, AnnounceEffect
    <2>3. CASE about[h] \notin raced
      <3>1. about[h] \notin WinrtTelling
        <4> SUFFICES ASSUME NEW g \in Scan, at[g] = "announces", about[g] = about[h]
                     PROVE  FALSE
          BY DEF WinrtTelling
        <4> QED BY <1>0, <1>1, <1>3 DEF WinrtTypeOK
      <3>2. about[h] \in mirrored
        BY <1>0, <1>3, <2>3, <3>1 DEF WinrtMapInv
      <3> QED BY <1>1, <1>4, <2>1, <3>2, AnnounceEffect
    <2> QED BY <2>2, <2>3
  <1>7. "idle" \in Places /\ borrowed' \subseteq PeripheralId
    BY <1>0, <1>1 DEF Places, WinrtTypeOK, ScanTypeOK
  <1> QED BY <1>1, <1>2, <1>4, <1>5, <1>6, <1>7, WinrtQuiet

\* The insert.
LEMMA WinrtInserts ==
    ASSUME WinrtInv, NEW h \in Scan, at[h] = "inserts", AddPeripheral(h)
    PROVE  WinrtInv'
  <1>0. WinrtTypeOK /\ WinrtReferences /\ WinrtAlone /\ WinrtMapInv /\ WinrtStrays
    BY DEF WinrtInv
  <1> DEFINE id == about[h]
  <1>1. /\ Moves(h, "announces")
        /\ peripherals' = peripherals \cup {id}
        /\ collided' = IF id \in peripherals THEN collided \cup {id} ELSE collided
        /\ raced' = IF link[id] = "lost" THEN raced \cup {id} ELSE raced
        /\ UNCHANGED <<borrowed, link, mirrored, strays, early>>
    BY DEF AddPeripheral, Adds, Insert, placeVars
  <1>2. /\ at'[h] = "announces" /\ received' = received /\ about'[h] = id
        /\ \A g \in Scan : g # h => at'[g] = at[g] /\ about'[g] = about[g]
        /\ at' \in [Scan -> Places] /\ about' \in [Scan -> PeripheralId \cup {NoPeripheral}]
        /\ WinrtTelling' = WinrtTelling \cup {id}
    BY <1>0, <1>1, WinrtMoves DEF Places
  <1>3. id \in PeripheralId /\ h \in received
    BY <1>0 DEF WinrtTypeOK
  <1> HIDE DEF id
  <1>4. WinrtTypeOK'
    <2>1. ScanTypeOK'
      BY <1>0, <1>1, <1>3 DEF WinrtTypeOK, ScanTypeOK
    <2>2. \A g \in Scan : at'[g] # "idle" => about'[g] \in PeripheralId /\ g \in received'
      BY <1>0, <1>2, <1>3 DEF WinrtTypeOK
    <2> QED BY <1>0, <1>2, <2>1, <2>2 DEF WinrtTypeOK
  <1>5. WinrtMapInv'
    <2> SUFFICES ASSUME NEW x \in PeripheralId, x \notin raced'
                 PROVE  /\ link[x] = "lost" => x \notin peripherals' /\ x \notin WinrtTelling'
                        /\ x \in WinrtTelling' => x \in peripherals'
                        /\ link[x] # "lost" /\ x \notin WinrtTelling' => (x \in mirrored <=> x \in peripherals')
      BY <1>1 DEF WinrtMapInv
    <2>1. x \notin raced /\ (x = id => link[x] # "lost")
      BY <1>1
    <2>2. /\ link[x] = "lost" => x \notin peripherals /\ x \notin WinrtTelling
          /\ x \in WinrtTelling => x \in peripherals
          /\ link[x] # "lost" /\ x \notin WinrtTelling => (x \in mirrored <=> x \in peripherals)
      BY <1>0, <2>1 DEF WinrtMapInv
    <2> QED BY <1>1, <1>2, <2>1, <2>2
  <1>6. WinrtReferences'
    BY <1>0, <1>1, <1>2 DEF WinrtReferences
  <1>7. WinrtStrays'
    BY <1>0, <1>1 DEF WinrtStrays
  <1>8. WinrtAlone'
    <2> SUFFICES ASSUME \A f, g \in received : f = g
                 PROVE  /\ collided' = {} /\ early' \subseteq raced'
                        /\ \A g \in Scan : at'[g] \in {"creates", "adds", "inserts"} => about'[g] \notin peripherals'
      BY <1>2 DEF WinrtAlone
    <2>1. /\ collided = {} /\ early \subseteq raced
          /\ \A g \in Scan : at[g] \in {"creates", "adds", "inserts"} => about[g] \notin peripherals
      BY <1>0 DEF WinrtAlone
    <2>2. collided' = {} /\ early' \subseteq raced'
      BY <1>1, <2>1 DEF id
    <2>3. \A g \in Scan : g # h => at[g] = "idle"
      BY <1>0, <1>3 DEF WinrtTypeOK
    <2> QED BY <1>2, <2>2, <2>3
  <1> QED BY <1>4, <1>5, <1>6, <1>7, <1>8 DEF WinrtInv

\* DeviceDiscovered.
LEMMA WinrtAnnounces ==
    ASSUME WinrtInv, NEW h \in Scan, TellsDiscovered(h)
    PROVE  WinrtInv'
  <1>0. WinrtTypeOK /\ WinrtReferences /\ WinrtAlone /\ WinrtMapInv /\ WinrtStrays
    BY DEF WinrtInv
  <1> DEFINE id == about[h]
  <1>1. /\ at[h] = "announces" /\ Moves(h, "idle") /\ Announce("DeviceDiscovered", id)
        /\ borrowed' = borrowed /\ link' = link
    BY DEF TellsDiscovered, placeVars
  <1>2. /\ at'[h] = "idle" /\ received' = received
        /\ \A g \in Scan : g # h => at'[g] = at[g] /\ about'[g] = about[g]
        /\ at' \in [Scan -> Places] /\ about' \in [Scan -> PeripheralId \cup {NoPeripheral}]
        /\ WinrtTelling \ {id} \subseteq WinrtTelling' /\ WinrtTelling' \subseteq WinrtTelling \cup {id}
    BY <1>0, <1>1, WinrtMoves DEF Places
  <1>3. id \in PeripheralId /\ id \in WinrtTelling
    BY <1>0, <1>1 DEF WinrtTypeOK, WinrtTelling
  <1> HIDE DEF id
  <1>4. /\ peripherals' = peripherals /\ raced' = raced /\ collided' = collided
        /\ strays' \subseteq strays \cup {[ev |-> "DeviceDiscovered", id |-> id]}
        /\ id \in peripherals => strays' = strays
        /\ mirrored' = mirrored \cup {id}
    BY <1>1, AnnounceEffect
  <1>5. early' = early
    BY <1>1 DEF Announce
  <1>6. WinrtTypeOK'
    <2>1. ScanTypeOK'
      BY <1>0, <1>1, <1>3, <1>4 DEF WinrtTypeOK, ScanTypeOK
    <2>2. \A g \in Scan : at'[g] # "idle" => about'[g] \in PeripheralId /\ g \in received'
      BY <1>0, <1>2 DEF WinrtTypeOK
    <2> QED BY <1>0, <1>2, <2>1, <2>2 DEF WinrtTypeOK
  <1>7. WinrtMapInv'
    <2> SUFFICES ASSUME NEW x \in PeripheralId, x \notin raced
                 PROVE  /\ link[x] = "lost" => x \notin peripherals /\ x \notin WinrtTelling'
                        /\ x \in WinrtTelling' => x \in peripherals
                        /\ link[x] # "lost" /\ x \notin WinrtTelling' => (x \in mirrored' <=> x \in peripherals)
      BY <1>1, <1>4 DEF WinrtMapInv
    <2>2. /\ link[x] = "lost" => x \notin peripherals /\ x \notin WinrtTelling
          /\ x \in WinrtTelling => x \in peripherals
          /\ link[x] # "lost" /\ x \notin WinrtTelling => (x \in mirrored <=> x \in peripherals)
      BY <1>0 DEF WinrtMapInv
    <2> QED BY <1>2, <1>3, <1>4, <2>2
  <1>8. WinrtReferences'
    BY <1>0, <1>1, <1>2, <1>4 DEF WinrtReferences
  <1>9. WinrtStrays'
    <2>1. id \in raced \/ id \in peripherals
      BY <1>0, <1>3 DEF WinrtMapInv
    <2> QED BY <1>0, <1>4, <2>1 DEF WinrtStrays
  <1>10. WinrtAlone'
    BY <1>0, <1>2, <1>4, <1>5 DEF WinrtAlone
  <1> QED BY <1>6, <1>7, <1>8, <1>9, <1>10 DEF WinrtInv

\* Connections and disconnections.
LEMMA WinrtLinks ==
    ASSUME WinrtInv, Links(WinrtTelling), UNCHANGED <<received, watching, at, about>>
    PROVE  WinrtInv'
  <1>0. WinrtTypeOK /\ WinrtReferences /\ WinrtAlone /\ WinrtMapInv /\ WinrtStrays
    BY DEF WinrtInv
  <1>1. PICK id \in PeripheralId : Arrives(id) \/ Departs(id, WinrtTelling) \/ Parts(id)
    BY DEF Links
  <1>2. WinrtTelling' = WinrtTelling
    BY DEF WinrtTelling
  <1>3. CASE Arrives(id)
    <2>1. /\ link' = [link EXCEPT ![id] = "up"] /\ link[id] = "down"
          /\ UNCHANGED <<borrowed, peripherals, raced, collided, early, mirrored>>
          /\ strays' \subseteq strays \cup {[ev |-> "DeviceConnected", id |-> id]}
      BY <1>3, AnnounceEffect DEF Arrives, Announce
    <2>2. WinrtTypeOK'
      BY <1>0, <2>1 DEF WinrtTypeOK, ScanTypeOK
    <2>3. WinrtMapInv'
      BY <1>0, <1>2, <2>1 DEF WinrtMapInv, WinrtTypeOK, ScanTypeOK
    <2>4. WinrtReferences' /\ WinrtStrays' /\ WinrtAlone'
      BY <1>0, <2>1 DEF WinrtReferences, WinrtStrays, WinrtAlone
    <2> QED BY <2>2, <2>3, <2>4 DEF WinrtInv
  <1>4. CASE Departs(id, WinrtTelling)
    <2>1. /\ link' = [link EXCEPT ![id] = "lost"] /\ id \notin borrowed
          /\ peripherals' = peripherals \ {id}
          /\ raced' = IF id \in WinrtTelling THEN raced \cup {id} ELSE raced
          /\ UNCHANGED <<borrowed, collided, early, mirrored, strays>>
      BY <1>4 DEF Departs, Remove
    <2>2. WinrtTypeOK'
      BY <1>0, <2>1 DEF WinrtTypeOK, ScanTypeOK
    <2>3. WinrtMapInv'
      <3> SUFFICES ASSUME NEW x \in PeripheralId, x \notin raced'
                 PROVE  /\ link'[x] = "lost" => x \notin peripherals' /\ x \notin WinrtTelling
                        /\ x \in WinrtTelling => x \in peripherals'
                        /\ link'[x] # "lost" /\ x \notin WinrtTelling => (x \in mirrored <=> x \in peripherals')
        BY <1>2, <2>1 DEF WinrtMapInv
      <3>1. x \notin raced /\ (x = id => x \notin WinrtTelling)
        BY <2>1
      <3>2. link'[x] = IF x = id THEN "lost" ELSE link[x]
        BY <1>0, <2>1 DEF WinrtTypeOK, ScanTypeOK
      <3> QED BY <1>0, <2>1, <3>1, <3>2 DEF WinrtMapInv
    <2>4. WinrtReferences'
      BY <1>0, <2>1 DEF WinrtReferences
    <2>5. WinrtStrays' /\ WinrtAlone'
      BY <1>0, <2>1 DEF WinrtStrays, WinrtAlone
    <2> QED BY <2>2, <2>3, <2>4, <2>5 DEF WinrtInv
  <1>5. CASE Parts(id)
    <2>1. /\ link' = [link EXCEPT ![id] = "down"] /\ link[id] = "lost"
          /\ mirrored' = mirrored \ {id}
          /\ UNCHANGED <<borrowed, peripherals, raced, collided, early, strays>>
      BY <1>5 DEF Parts, SendEvent
    <2>2. WinrtTypeOK'
      BY <1>0, <2>1 DEF WinrtTypeOK, ScanTypeOK
    <2>3. WinrtMapInv'
      BY <1>0, <1>2, <2>1 DEF WinrtMapInv, WinrtTypeOK, ScanTypeOK
    <2>4. WinrtReferences' /\ WinrtStrays' /\ WinrtAlone'
      BY <1>0, <2>1 DEF WinrtReferences, WinrtStrays, WinrtAlone
    <2> QED BY <2>2, <2>3, <2>4 DEF WinrtInv
  <1> QED BY <1>1, <1>3, <1>4, <1>5

\* Every step.
LEMMA WinrtStep == WinrtInv /\ [WinrtAdapterNext]_winrtAdapterVars => WinrtInv'
  <1> SUFFICES ASSUME WinrtInv, [WinrtAdapterNext]_winrtAdapterVars
               PROVE  WinrtInv'
    OBVIOUS
  <1>1. ASSUME UNCHANGED <<scanVars, at, about>>, received' = received \/ \E h \in Scan : received' = received \cup {h}
        PROVE  WinrtInv'
    <2>1. UNCHANGED <<peripherals, borrowed, link, mirrored, raced, strays, early, collided, at, about>>
      BY <1>1 DEF scanVars, managerVars, placeVars, scanHistory
    <2>2. WinrtTelling' = WinrtTelling
      BY <2>1 DEF WinrtTelling
    <2>3. received \subseteq received' /\ (received \subseteq Scan => received' \subseteq Scan)
      BY <1>1
    <2>4. WinrtTypeOK'
      BY <2>1, <2>3 DEF WinrtInv, WinrtTypeOK, ScanTypeOK
    <2>5. WinrtMapInv' /\ WinrtReferences' /\ WinrtStrays'
      BY <2>1, <2>2 DEF WinrtInv, WinrtMapInv, WinrtReferences, WinrtStrays
    <2>6. WinrtAlone'
      BY <2>1, <2>3 DEF WinrtInv, WinrtAlone
    <2> QED BY <2>4, <2>5, <2>6 DEF WinrtInv
  <1>2. CASE StopScan
    BY <1>1, <1>2 DEF StopScan
  <1>3. CASE UNCHANGED winrtAdapterVars
    BY <1>1, <1>3 DEF winrtAdapterVars
  <1>4. ASSUME NEW h \in Scan, StartScan(h)
        PROVE  WinrtInv'
    BY <1>1, <1>4 DEF StartScan
  <1>5. ASSUME NEW h \in Scan, AddPeripheral(h)
        PROVE  WinrtInv'
    BY <1>5, WinrtLooks, WinrtInserts DEF AddPeripheral
  <1>6. ASSUME NEW h \in Scan,
               (\E id \in PeripheralId : Received(h, id)) \/ UpdateProperties(h) \/ TellsUpdated(h) \/ TellsDiscovered(h)
        PROVE  WinrtInv'
    BY <1>6, WinrtLooks, WinrtTells, WinrtAnnounces
  <1>7. CASE Links(WinrtTelling) /\ UNCHANGED <<received, watching, at, about>>
    BY <1>7, WinrtLinks
  <1> QED BY <1>2, <1>3, <1>4, <1>5, <1>6, <1>7 DEF WinrtAdapterNext

\* What the invariant says to a client.
LEMMA WinrtKnows == WinrtInv => WinrtMirrorsMap /\ WinrtOneDiscovery
BY DEF WinrtInv, WinrtMapInv, WinrtMirrorsMap, MirrorsMap, WinrtStrays, WinrtAlone, WinrtOneDiscovery

\* A step of the backend that runs.
LEMMA WinrtAmongAll == BackendsSpec => [](backend = "winrt adapter" => WinrtInv)
  <1> DEFINE Inv == backend = "winrt adapter" => WinrtInv
  <1>1. BackendsInit => Inv
    BY WinrtStart DEF BackendsInit
  <1>2. Inv /\ [BackendsNext]_allVars => Inv'
    <2> SUFFICES ASSUME Inv, [BackendsNext]_allVars, backend' = "winrt adapter"
                 PROVE  WinrtInv'
      OBVIOUS
    <2>1. backend = "winrt adapter" /\ [WinrtAdapterNext]_winrtAdapterVars
      BY DEF BackendsNext, allVars, winrtAdapterVars, winrtOnlyVars
    <2> QED BY <2>1, WinrtStep
  <1> HIDE DEF Inv
  <1>3. BackendsSpec => []Inv
    BY <1>1, <1>2, PTL DEF BackendsSpec
  <1> QED BY <1>3 DEF Inv

\* A client that follows the events of the Windows backend knows which peripherals the adapter
\* lists, for any number of handlers and peripherals.
THEOREM WinrtMirrors == BackendsSpec => []WinrtClientsKnowMap
  <1>1. (backend = "winrt adapter" => WinrtInv) => WinrtClientsKnowMap
    BY WinrtKnows DEF WinrtClientsKnowMap
  <1> QED BY <1>1, WinrtAmongAll, PTL

\* While one handler is registered at most, no add_peripheral of the Windows backend finds its
\* peripheral listed and no peripheral is updated before it was discovered.
THEOREM WinrtDiscovers == BackendsSpec => []WinrtDiscoversOnce
  <1>1. (backend = "winrt adapter" => WinrtInv) => WinrtDiscoversOnce
    BY WinrtKnows DEF WinrtDiscoversOnce
  <1> QED BY <1>1, WinrtAmongAll, PTL

----------------------------------------------------------------------------
(* Scanning in the Android backend. *)

ReportPlaces == {"idle", "adds", "inserts", "stores", "tells", "advertises", "dead"}

DroidScanTypeOK ==
    /\ ScanTypeOK
    /\ report \in [at : ReportPlaces, id : PeripheralId \cup {NoPeripheral}, new : BOOLEAN, current : BOOLEAN]
    /\ report.at # "idle" => report.id \in PeripheralId
    /\ report.at = "idle" => ~ report.new
    /\ report.at \in {"adds", "inserts"} => report.new
    /\ DOMAIN adding = Adder
    /\ \A c \in Adder : /\ adding[c] = [at |-> adding[c].at, id |-> adding[c].id]
                        /\ adding[c].at # "idle" => adding[c].id \in added /\ adding[c].id \in PeripheralId

\* A peripheral that only the scan adds is not in the map before the insert; it is after it,
\* and is the one that the handler has, unless a disconnection has overtaken the handler.
DroidReportInv ==
    /\ report.at \in {"adds", "inserts"} => report.id \in added \/ report.id \notin peripherals
    /\ report.at \in {"stores", "tells", "advertises"} => report.id \in peripherals \cup raced
    /\ report.at = "stores" => report.current \/ report.id \in raced \cup added
    /\ report.at = "tells" => report.id \in filled \cup raced \cup added

\* The handler has inserted x and has yet to tell of it.
DroidTelling(x) == report.new /\ report.id = x /\ report.at \in {"stores", "tells"}

DroidMapInv ==
    \A x \in PeripheralId \ (raced \cup added) :
        /\ link[x] = "lost" => x \notin peripherals
        /\ link[x] # "lost" /\ ~ DroidTelling(x) => (x \in mirrored <=> x \in peripherals)
        /\ x \in mirrored /\ x \in peripherals => x \in filled

DroidStrays ==
    /\ collided \subseteq added
    /\ \A e \in strays : e.ev \in LinkEvent \/ e.id \in raced

DroidScanInv == DroidScanTypeOK /\ DroidReportInv /\ DroidMapInv /\ DroidStrays

\* The map is empty, and no advertisement is handled.
LEMMA DroidScanStart == DroidAdapterInit => DroidScanInv
  <1> SUFFICES ASSUME DroidAdapterInit
               PROVE  DroidScanInv
    OBVIOUS
  <1>1. /\ peripherals = {} /\ borrowed = {} /\ link = [id \in PeripheralId |-> "down"]
        /\ mirrored = {} /\ raced = {} /\ strays = {} /\ collided = {} /\ filled = {} /\ added = {}
        /\ report = [at |-> "idle", id |-> NoPeripheral, new |-> FALSE, current |-> FALSE]
        /\ adding = [c \in Adder |-> [at |-> "idle", id |-> NoPeripheral]]
    BY DEF DroidAdapterInit, ScanInit, ManagerInit, NoReport
  <1>2. DroidScanTypeOK
    BY <1>1 DEF DroidScanTypeOK, ScanTypeOK, ReportPlaces
  <1>3. DroidReportInv /\ DroidMapInv /\ DroidStrays
    BY <1>1 DEF DroidReportInv, DroidMapInv, DroidStrays, DroidTelling
  <1> QED BY <1>2, <1>3 DEF DroidScanInv

\* A scan result is looked up, the assertion of add is checked, or the properties are stored:
\* neither the map nor the events change.
LEMMA DroidLooks ==
    ASSUME DroidScanInv,
           \/ \E id \in PeripheralId : ReportScanResult(id)
           \/ AddNew /\ report.at = "adds"
           \/ StoresProperties
    PROVE  DroidScanInv'
  <1>0. DroidScanTypeOK /\ DroidReportInv /\ DroidMapInv /\ DroidStrays
    BY DEF DroidScanInv
  <1>1. /\ UNCHANGED <<peripherals, borrowed, link, mirrored, raced, strays, adding, added>>
        /\ filled \subseteq filled'
    BY DEF ReportScanResult, AddNew, StoresProperties, scanVars, managerVars, placeVars, scanHistory,
           AssertionFails
  <1>2. ASSUME DroidReportInv', report' \in [at : ReportPlaces, id : PeripheralId, new : BOOLEAN, current : BOOLEAN],
               report'.at # "idle", report'.at \in {"adds", "inserts"} => report'.new, collided' \subseteq added,
               \A x \in PeripheralId \ (raced \cup added) : DroidTelling(x) => DroidTelling(x)'
        PROVE  DroidScanInv'
    <2>1. ScanTypeOK'
      BY <1>0, <1>1 DEF DroidScanTypeOK, ScanTypeOK
    <2>2. DroidScanTypeOK'
      BY <1>0, <1>1, <1>2, <2>1 DEF DroidScanTypeOK
    <2>3. DroidMapInv'
      BY <1>0, <1>1, <1>2 DEF DroidMapInv
    <2>4. DroidStrays'
      BY <1>0, <1>1, <1>2 DEF DroidStrays
    <2> QED BY <1>2, <2>2, <2>3, <2>4 DEF DroidScanInv
  <1>3. ASSUME NEW id \in PeripheralId, ReportScanResult(id)
        PROVE  DroidScanInv'
    <2>1. /\ report.at = "idle" /\ collided' = collided
          /\ report' = IF id \notin peripherals THEN [at |-> "adds", id |-> id, new |-> TRUE, current |-> FALSE]
                       ELSE [at |-> "stores", id |-> id, new |-> FALSE, current |-> TRUE]
      BY <1>3 DEF ReportScanResult, Unlisted, scanVars, scanHistory
    <2>2. /\ report' \in [at : ReportPlaces, id : PeripheralId, new : BOOLEAN, current : BOOLEAN]
          /\ report'.at # "idle" /\ (report'.at \in {"adds", "inserts"} => report'.new)
      BY <2>1 DEF ReportPlaces
    <2>3. DroidReportInv'
      BY <1>1, <2>1 DEF DroidReportInv
    <2>4. \A x : ~ DroidTelling(x)
      BY <2>1 DEF DroidTelling
    <2> QED BY <1>0, <1>2, <2>1, <2>2, <2>3, <2>4 DEF DroidStrays
  <1>4. ASSUME AddNew, report.at = "adds"
        PROVE  DroidScanInv'
    <2>1. /\ report' = [report EXCEPT !.at = IF report.id \notin peripherals THEN "inserts" ELSE "dead"]
          /\ collided' = IF report.id \notin peripherals THEN collided ELSE collided \cup {report.id}
      BY <1>4 DEF AddNew, Unlisted, AssertionFails, scanVars, scanHistory
    <2>2. /\ report' \in [at : ReportPlaces, id : PeripheralId, new : BOOLEAN, current : BOOLEAN]
          /\ report'.at # "idle" /\ report'.id = report.id /\ report'.new
          /\ report'.at = IF report.id \notin peripherals THEN "inserts" ELSE "dead"
      BY <1>0, <1>4, <2>1 DEF DroidScanTypeOK, ReportPlaces
    <2>3. DroidReportInv'
      BY <1>1, <2>2 DEF DroidReportInv
    <2>4. collided' \subseteq added
      BY <1>0, <1>4, <2>1 DEF DroidReportInv, DroidStrays
    <2>5. \A x : ~ DroidTelling(x)
      BY <1>4 DEF DroidTelling
    <2> QED BY <1>2, <2>2, <2>3, <2>4, <2>5
  <1>5. ASSUME StoresProperties
        PROVE  DroidScanInv'
    <2>1. /\ report.at = "stores" /\ report' = [report EXCEPT !.at = "tells"] /\ collided' = collided
          /\ filled' = IF report.current THEN filled \cup {report.id} ELSE filled
      BY <1>5 DEF StoresProperties, scanVars, scanHistory
    <2>2. /\ report' \in [at : ReportPlaces, id : PeripheralId, new : BOOLEAN, current : BOOLEAN]
          /\ report'.at = "tells" /\ report'.id = report.id /\ report'.new = report.new
      BY <1>0, <2>1 DEF DroidScanTypeOK, ReportPlaces
    <2>3. DroidReportInv'
      BY <1>0, <1>1, <2>1, <2>2 DEF DroidReportInv
    <2>4. \A x : DroidTelling(x) => DroidTelling(x)'
      BY <2>2 DEF DroidTelling
    <2> QED BY <1>0, <1>2, <2>1, <2>2, <2>3, <2>4 DEF DroidStrays
  <1> QED BY <1>3, <1>4, <1>5

\* The insert of a scan result.
LEMMA DroidInserts ==
    ASSUME DroidScanInv, AddNew, report.at = "inserts"
    PROVE  DroidScanInv'
  <1>0. DroidScanTypeOK /\ DroidReportInv /\ DroidMapInv /\ DroidStrays
    BY DEF DroidScanInv
  <1> DEFINE id == report.id
  <1>1. /\ peripherals' = peripherals \cup {id}
        /\ collided' = IF id \in peripherals THEN collided \cup {id} ELSE collided
        /\ raced' = IF link[id] = "lost" THEN raced \cup {id} ELSE raced
        /\ filled' = filled \ {id}
        /\ report' = [report EXCEPT !.at = "stores", !.current = TRUE]
        /\ UNCHANGED <<borrowed, link, mirrored, strays, adding, added>>
    BY DEF AddNew, Adds, Insert, placeVars
  <1>2. /\ report' \in [at : ReportPlaces, id : PeripheralId, new : BOOLEAN, current : BOOLEAN]
        /\ report'.at = "stores" /\ report'.id = id /\ report'.new = report.new /\ report'.current
        /\ id \in PeripheralId
    BY <1>0, <1>1 DEF DroidScanTypeOK, ReportPlaces
  <1> HIDE DEF id
  <1>3. DroidScanTypeOK'
    <2>1. ScanTypeOK'
      BY <1>0, <1>1, <1>2 DEF DroidScanTypeOK, ScanTypeOK
    <2> QED BY <1>0, <1>1, <1>2, <2>1 DEF DroidScanTypeOK
  <1>4. DroidReportInv'
    BY <1>1, <1>2 DEF DroidReportInv
  <1>5. DroidStrays'
    BY <1>0, <1>1 DEF DroidStrays, DroidReportInv, id
  <1>6. DroidMapInv'
    <2>0. report.new
      BY <1>0 DEF DroidScanTypeOK
    <2> SUFFICES ASSUME NEW x \in PeripheralId, x \notin raced', x \notin added
                 PROVE  /\ link[x] = "lost" => x \notin peripherals'
                        /\ link[x] # "lost" /\ ~ DroidTelling(x)' => (x \in mirrored <=> x \in peripherals')
                        /\ x \in mirrored /\ x \in peripherals' => x \in filled'
      BY <1>1 DEF DroidMapInv
    <2>1. x \notin raced
      BY <1>1
    <2>2. CASE x = id
      <3>1. link[x] # "lost" /\ x \notin peripherals
        BY <1>0, <1>1, <2>2 DEF DroidReportInv, id
      <3>2. ~ DroidTelling(x)
        BY DEF DroidTelling
      <3>3. x \notin mirrored
        BY <1>0, <2>1, <3>1, <3>2 DEF DroidMapInv
      <3>4. DroidTelling(x)'
        BY <1>2, <2>0, <2>2 DEF DroidTelling
      <3> QED BY <3>1, <3>3, <3>4
    <2>3. CASE x # id
      <3>1. ~ DroidTelling(x)
        BY DEF DroidTelling
      <3> QED BY <1>0, <1>1, <2>1, <2>3, <3>1 DEF DroidMapInv
    <2> QED BY <2>2, <2>3
  <1> QED BY <1>3, <1>4, <1>5, <1>6 DEF DroidScanInv

\* add_peripheral of a client.
LEMMA DroidAdds ==
    ASSUME DroidScanInv, NEW c \in Adder, AddPeripheralByAddress(c)
    PROVE  DroidScanInv'
  <1>0. DroidScanTypeOK /\ DroidReportInv /\ DroidMapInv /\ DroidStrays
    BY DEF DroidScanInv
  <1>1. ASSUME UNCHANGED <<peripherals, borrowed, link, mirrored, raced, strays, report, filled>>,
               added \subseteq added', collided' \subseteq added',
               DOMAIN adding' = Adder,
               \A k \in Adder : /\ adding'[k] = [at |-> adding'[k].at, id |-> adding'[k].id]
                                /\ adding'[k].at # "idle" => adding'[k].id \in added' /\ adding'[k].id \in PeripheralId
        PROVE  DroidScanInv'
    <2>1. DroidScanTypeOK'
      BY <1>0, <1>1 DEF DroidScanTypeOK, ScanTypeOK
    <2>2. DroidReportInv' /\ DroidMapInv' /\ DroidStrays'
      BY <1>0, <1>1 DEF DroidReportInv, DroidMapInv, DroidStrays, DroidTelling
    <2> QED BY <2>1, <2>2 DEF DroidScanInv
  <1>2. ASSUME adding[c].at = "idle", NEW id \in PeripheralId,
               adding' = [adding EXCEPT ![c] = [at |-> "adds", id |-> id]],
               added' = added \cup {id}, UNCHANGED <<scanVars, report, filled>>
        PROVE  DroidScanInv'
    <2>1. UNCHANGED <<peripherals, borrowed, link, mirrored, raced, strays, collided, report, filled>>
      BY <1>2 DEF scanVars, managerVars, placeVars, scanHistory
    <2>2. /\ DOMAIN adding' = Adder
          /\ \A k \in Adder : /\ adding'[k] = [at |-> adding'[k].at, id |-> adding'[k].id]
                              /\ adding'[k].at # "idle" => adding'[k].id \in added' /\ adding'[k].id \in PeripheralId
      BY <1>0, <1>2 DEF DroidScanTypeOK
    <2> QED BY <1>0, <1>1, <1>2, <2>1, <2>2 DEF DroidStrays
  <1>3. ASSUME adding[c].at = "adds", AddPeripheralByAddress(c)
        PROVE  DroidScanInv'
    <2>1. /\ adding' = [adding EXCEPT ![c].at = IF adding[c].id \notin peripherals THEN "inserts" ELSE "panicked"]
          /\ collided' = IF adding[c].id \notin peripherals THEN collided ELSE collided \cup {adding[c].id}
          /\ UNCHANGED <<peripherals, borrowed, link, mirrored, raced, strays, report, filled, added>>
      BY <1>3 DEF AddPeripheralByAddress, Unlisted, AssertionFails, scanVars, managerVars, placeVars, scanHistory
    <2>2. /\ DOMAIN adding' = Adder
          /\ \A k \in Adder : /\ adding'[k] = [at |-> adding'[k].at, id |-> adding'[k].id]
                              /\ adding'[k].at # "idle" => adding'[k].id \in added' /\ adding'[k].id \in PeripheralId
      BY <1>0, <1>3, <2>1 DEF DroidScanTypeOK
    <2>3. collided' \subseteq added'
      BY <1>0, <1>3, <2>1 DEF DroidStrays, DroidScanTypeOK
    <2> QED BY <1>1, <2>1, <2>2, <2>3
  <1>4. ASSUME adding[c].at = "inserts", AddPeripheralByAddress(c)
        PROVE  DroidScanInv'
    <2> DEFINE id == adding[c].id
    <2>1. /\ adding' = [adding EXCEPT ![c].at = "done"]
          /\ peripherals' = peripherals \cup {id}
          /\ collided' = IF id \in peripherals THEN collided \cup {id} ELSE collided
          /\ raced' = IF link[id] = "lost" THEN raced \cup {id} ELSE raced
          /\ filled' = filled \ {id}
          /\ report' = IF report.id = id THEN [report EXCEPT !.current = FALSE] ELSE report
          /\ UNCHANGED <<borrowed, link, mirrored, strays, added>>
      BY <1>4 DEF AddPeripheralByAddress, Adds, Insert, Replaced, placeVars
    <2>2. /\ report' \in [at : ReportPlaces, id : PeripheralId \cup {NoPeripheral}, new : BOOLEAN, current : BOOLEAN]
          /\ report'.at = report.at /\ report'.id = report.id /\ report'.new = report.new
          /\ report.id # id => report'.current = report.current
      BY <1>0, <2>1 DEF DroidScanTypeOK
    <2>3. id \in added /\ id \in PeripheralId
      BY <1>0, <1>4 DEF DroidScanTypeOK
    <2>4. /\ DOMAIN adding' = Adder
          /\ \A k \in Adder : /\ adding'[k] = [at |-> adding'[k].at, id |-> adding'[k].id]
                              /\ adding'[k].at # "idle" => adding'[k].id \in added' /\ adding'[k].id \in PeripheralId
      BY <1>0, <1>4, <2>1 DEF DroidScanTypeOK
    <2> HIDE DEF id
    <2>5. ScanTypeOK'
      BY <1>0, <2>1, <2>3 DEF DroidScanTypeOK, ScanTypeOK
    <2>6. DroidScanTypeOK'
      BY <1>0, <2>2, <2>4, <2>5 DEF DroidScanTypeOK
    <2>7. DroidReportInv'
      BY <1>0, <2>1, <2>2, <2>3 DEF DroidReportInv
    <2>8. DroidMapInv'
      <3> SUFFICES ASSUME NEW x \in PeripheralId, x \notin raced', x \notin added
                 PROVE  /\ link[x] = "lost" => x \notin peripherals'
                        /\ link[x] # "lost" /\ ~ DroidTelling(x)' => (x \in mirrored <=> x \in peripherals')
                        /\ x \in mirrored /\ x \in peripherals' => x \in filled'
        BY <2>1 DEF DroidMapInv
      <3>1. x \notin raced /\ x # id
        BY <2>1, <2>3
      <3>2. DroidTelling(x)' <=> DroidTelling(x)
        BY <2>2 DEF DroidTelling
      <3> QED BY <1>0, <2>1, <3>1, <3>2 DEF DroidMapInv
    <2>9. DroidStrays'
      BY <1>0, <2>1, <2>3 DEF DroidStrays
    <2> QED BY <2>6, <2>7, <2>8, <2>9 DEF DroidScanInv
  <1>5. adding[c].at = "adds" \/ adding[c].at = "inserts" \/
            (adding[c].at = "idle" /\ \E id \in PeripheralId :
                /\ adding' = [adding EXCEPT ![c] = [at |-> "adds", id |-> id]]
                /\ added' = added \cup {id} /\ UNCHANGED <<scanVars, report, filled>>)
    BY DEF AddPeripheralByAddress
  <1> QED BY <1>2, <1>3, <1>4, <1>5

\* The events of a scan result.
LEMMA DroidTells ==
    ASSUME DroidScanInv, TellsOfResult \/ TellsData
    PROVE  DroidScanInv'
  <1>0. DroidScanTypeOK /\ DroidReportInv /\ DroidMapInv /\ DroidStrays
    BY DEF DroidScanInv
  <1>1. PICK kind \in {"DeviceDiscovered", "DeviceUpdated", "Advertisement"} :
            /\ Announce(kind, report.id)
            /\ report.at \in {"tells", "advertises"}
            /\ kind = "DeviceDiscovered" <=> report.at = "tells" /\ report.new
            /\ report' = IF report.at = "tells" THEN [report EXCEPT !.at = "advertises"] ELSE NoReport
    BY DEF TellsOfResult, TellsData
  <1>2. UNCHANGED <<borrowed, link, adding, filled, added, peripherals, raced, collided>>
    BY AnnounceEffect DEF TellsOfResult, TellsData, placeVars, Announce
  <1>3. /\ strays' \subseteq strays \cup {[ev |-> kind, id |-> report.id]}
        /\ report.id \in peripherals => strays' = strays
        /\ mirrored' = IF kind = "DeviceDiscovered" THEN mirrored \cup {report.id} ELSE mirrored
    BY <1>1, AnnounceEffect
  <1>4. /\ report' \in [at : ReportPlaces, id : PeripheralId \cup {NoPeripheral}, new : BOOLEAN, current : BOOLEAN]
        /\ report.at = "tells" => report'.at = "advertises" /\ report'.id = report.id
        /\ report.at # "tells" => report'.at = "idle" /\ ~ report'.new
        /\ report.id \in PeripheralId
    BY <1>0, <1>1 DEF DroidScanTypeOK, ReportPlaces, NoReport
  <1>5. DroidScanTypeOK'
    BY <1>0, <1>1, <1>2, <1>3, <1>4 DEF DroidScanTypeOK, ScanTypeOK
  <1>6. DroidReportInv'
    BY <1>0, <1>1, <1>2, <1>4 DEF DroidReportInv
  <1>7. DroidStrays'
    BY <1>0, <1>1, <1>2, <1>3 DEF DroidStrays, DroidReportInv
  <1>8. DroidMapInv'
    <2> SUFFICES ASSUME NEW x \in PeripheralId, x \notin raced, x \notin added
                 PROVE  /\ link[x] = "lost" => x \notin peripherals
                        /\ link[x] # "lost" => (x \in mirrored' <=> x \in peripherals)
                        /\ x \in mirrored' /\ x \in peripherals => x \in filled
      BY <1>2 DEF DroidMapInv
    <2>1. /\ link[x] = "lost" => x \notin peripherals
          /\ link[x] # "lost" /\ ~ DroidTelling(x) => (x \in mirrored <=> x \in peripherals)
          /\ x \in mirrored /\ x \in peripherals => x \in filled
      BY <1>0 DEF DroidMapInv
    <2>2. CASE kind = "DeviceDiscovered" /\ x = report.id
      <3>1. x \in peripherals /\ x \in filled /\ x \in mirrored'
        BY <1>0, <1>1, <1>3, <2>2 DEF DroidReportInv
      <3> QED BY <2>1, <3>1
    <2>3. CASE ~ (kind = "DeviceDiscovered" /\ x = report.id)
      <3>1. x \in mirrored' <=> x \in mirrored
        BY <1>3, <2>3
      <3>2. ~ DroidTelling(x)
        BY <1>1, <2>3 DEF DroidTelling
      <3> QED BY <2>1, <3>1, <3>2
    <2> QED BY <2>2, <2>3
  <1> QED BY <1>5, <1>6, <1>7, <1>8 DEF DroidScanInv

\* Connections and disconnections.
LEMMA DroidLinks ==
    ASSUME DroidScanInv, OnConnectionStateChanged
    PROVE  DroidScanInv'
  <1>0. DroidScanTypeOK /\ DroidReportInv /\ DroidMapInv /\ DroidStrays
    BY DEF DroidScanInv
  <1>1. PICK id \in PeripheralId : Arrives(id) \/ Departs(id, {report.id}) \/ Parts(id)
    BY DEF OnConnectionStateChanged, Links
  <1>2. /\ filled' = filled \ (peripherals \ peripherals')
        /\ report' = IF report.id \in peripherals \ peripherals' THEN [report EXCEPT !.current = FALSE] ELSE report
        /\ adding' = adding /\ added' = added
    BY DEF OnConnectionStateChanged
  <1>3. CASE Arrives(id) \/ Parts(id)
    <2>1. /\ \/ /\ link[id] = "down" /\ link' = [link EXCEPT ![id] = "up"]
                /\ mirrored' = mirrored
             \/ /\ link[id] = "lost" /\ link' = [link EXCEPT ![id] = "down"]
                /\ mirrored' = mirrored \ {id}
          /\ UNCHANGED <<borrowed, peripherals, raced, collided>>
          /\ strays' \subseteq strays \cup {[ev |-> "DeviceConnected", id |-> id]}
      <3>1. CASE Arrives(id)
        <4>1. Announce("DeviceConnected", id)
          BY <3>1 DEF Arrives
        <4>2. /\ peripherals' = peripherals /\ raced' = raced /\ collided' = collided
              /\ strays' \subseteq strays \cup {[ev |-> "DeviceConnected", id |-> id]}
              /\ mirrored' = mirrored
          BY <4>1, AnnounceEffect
        <4> QED BY <3>1, <4>2 DEF Arrives
      <3>2. CASE Parts(id)
        BY <3>2 DEF Parts, SendEvent
      <3> QED BY <1>3, <3>1, <3>2
    <2>2. filled' = filled /\ report' = report
      BY <1>2, <2>1
    <2>3. DroidScanTypeOK'
      BY <1>0, <1>2, <2>1, <2>2 DEF DroidScanTypeOK, ScanTypeOK
    <2>4. DroidMapInv'
      BY <1>0, <1>2, <2>1, <2>2 DEF DroidMapInv, DroidScanTypeOK, ScanTypeOK, DroidTelling
    <2>5. DroidReportInv' /\ DroidStrays'
      BY <1>0, <1>2, <2>1, <2>2 DEF DroidReportInv, DroidStrays, LinkEvent
    <2> QED BY <2>3, <2>4, <2>5 DEF DroidScanInv
  <1>4. CASE Departs(id, {report.id})
    <2>1. /\ link' = [link EXCEPT ![id] = "lost"]
          /\ peripherals' = peripherals \ {id}
          /\ raced' = IF id = report.id THEN raced \cup {id} ELSE raced
          /\ UNCHANGED <<borrowed, collided, mirrored, strays>>
      BY <1>4 DEF Departs, Remove
    <2>2. /\ report' \in [at : ReportPlaces, id : PeripheralId \cup {NoPeripheral}, new : BOOLEAN, current : BOOLEAN]
          /\ report'.at = report.at /\ report'.id = report.id /\ report'.new = report.new
          /\ report.id # id => report'.current = report.current
      BY <1>0, <1>2, <2>1 DEF DroidScanTypeOK
    <2>3. filled \ {id} \subseteq filled'
      BY <1>2, <2>1
    <2>4. DroidScanTypeOK'
      BY <1>0, <1>2, <2>1, <2>2 DEF DroidScanTypeOK, ScanTypeOK
    <2>5. DroidReportInv'
      BY <1>0, <1>2, <2>1, <2>2, <2>3 DEF DroidReportInv
    <2>6. DroidMapInv'
      <3> SUFFICES ASSUME NEW x \in PeripheralId, x \notin raced', x \notin added
                 PROVE  /\ link'[x] = "lost" => x \notin peripherals'
                        /\ link'[x] # "lost" /\ ~ DroidTelling(x)' => (x \in mirrored <=> x \in peripherals')
                        /\ x \in mirrored /\ x \in peripherals' => x \in filled'
        BY <1>2, <2>1 DEF DroidMapInv
      <3>1. x \notin raced /\ (DroidTelling(x)' <=> DroidTelling(x))
        BY <2>1, <2>2 DEF DroidTelling
      <3>2. link'[x] = IF x = id THEN "lost" ELSE link[x]
        BY <1>0, <2>1 DEF DroidScanTypeOK, ScanTypeOK
      <3> QED BY <1>0, <2>1, <2>3, <3>1, <3>2 DEF DroidMapInv
    <2>7. DroidStrays'
      BY <1>0, <1>2, <2>1 DEF DroidStrays
    <2> QED BY <2>4, <2>5, <2>6, <2>7 DEF DroidScanInv
  <1> QED BY <1>1, <1>3, <1>4

\* Every step.
LEMMA DroidScanStep == DroidScanInv /\ [DroidAdapterNext]_droidAdapterVars => DroidScanInv'
  <1> SUFFICES ASSUME DroidScanInv, [DroidAdapterNext]_droidAdapterVars
               PROVE  DroidScanInv'
    OBVIOUS
  <1>1. CASE UNCHANGED droidAdapterVars
    <2>1. UNCHANGED <<peripherals, borrowed, link, mirrored, raced, strays, collided, report, adding, filled, added>>
      BY <1>1 DEF droidAdapterVars, scanVars, managerVars, placeVars, scanHistory
    <2> QED BY <2>1 DEF DroidScanInv, DroidScanTypeOK, ScanTypeOK, DroidReportInv, DroidMapInv, DroidStrays, DroidTelling
  <1>2. CASE AddNew
    BY <1>2, DroidLooks, DroidInserts DEF AddNew
  <1>3. CASE (\E id \in PeripheralId : ReportScanResult(id)) \/ StoresProperties
    BY <1>3, DroidLooks
  <1>4. CASE TellsOfResult \/ TellsData
    BY <1>4, DroidTells
  <1>5. CASE \E c \in Adder : AddPeripheralByAddress(c)
    BY <1>5, DroidAdds
  <1>6. CASE OnConnectionStateChanged
    BY <1>6, DroidLinks
  <1> QED BY <1>1, <1>2, <1>3, <1>4, <1>5, <1>6 DEF DroidAdapterNext, ReportProperties

\* What the invariant says to a client.
LEMMA DroidScanKnows == DroidScanInv => DroidEventsTrue
  <1> SUFFICES ASSUME DroidScanInv
               PROVE  DroidEventsTrue
    OBVIOUS
  <1>1. collided \subseteq added /\ \A e \in strays : e.ev \in LinkEvent \/ e.id \in raced
    BY DEF DroidScanInv, DroidStrays
  <1>2. MirrorsMap(IF report.new THEN {report.id} ELSE {}, added)
    BY DEF DroidScanInv, DroidMapInv, DroidTelling, MirrorsMap
  <1>3. \A id \in mirrored \cap peripherals : id \in filled \cup raced \cup added
    BY DEF DroidScanInv, DroidMapInv, DroidScanTypeOK, ScanTypeOK
  <1> QED BY <1>1, <1>2, <1>3 DEF DroidEventsTrue

\* A client of the Android backend that reads an event of a scan finds the peripheral in the
\* adapter with its properties, for any number of peripherals and of calls of add_peripheral.
THEOREM DroidEventsFindMap == BackendsSpec => []DroidEventsHold
  <1> DEFINE Inv == backend = "droid adapter" => DroidScanInv
  <1>1. BackendsInit => Inv
    BY DroidScanStart DEF BackendsInit
  <1>2. Inv /\ [BackendsNext]_allVars => Inv'
    <2> SUFFICES ASSUME Inv, [BackendsNext]_allVars, backend' = "droid adapter"
                 PROVE  DroidScanInv'
      OBVIOUS
    <2>1. backend = "droid adapter" /\ [DroidAdapterNext]_droidAdapterVars
      BY DEF BackendsNext, allVars, droidAdapterVars, droidOnlyVars
    <2> QED BY <2>1, DroidScanStep
  <1>3. Inv => DroidEventsHold
    BY DroidScanKnows DEF DroidEventsHold
  <1> HIDE DEF Inv
  <1> QED BY <1>1, <1>2, <1>3, PTL DEF BackendsSpec

----------------------------------------------------------------------------
(* Scanning in the Web backend. *)

WebPlaces == {"idle", "listens", "asks", "connects", "gathers", "ends", "done", "trapped"}

WebTypeOK ==
    /\ peripherals \subseteq PeripheralId
    /\ link = [id \in PeripheralId |-> "down"] /\ raced = {}
    /\ tauri \in BOOLEAN /\ overlapped \in BOOLEAN
    /\ task \in [WebScan -> [at : WebPlaces, id : PeripheralId \cup {NoPeripheral}, new : BOOLEAN]]
    /\ runs \in WebScan \cup {NoScan}
    /\ \A s \in WebScan : task[s].at \in {"connects", "gathers", "ends"} => task[s].id \in PeripheralId

\* A scan that has looked its device up, and updates the one in the map, or makes a new one.
Busy(s) == task[s].at \in {"connects", "gathers", "ends"}
Holds(s) == Busy(s) /\ ~ task[s].new
Makes(s) == Busy(s) /\ task[s].new

\* The events tell the map, but for the peripheral that the running task has just inserted.
WebTold ==
    /\ strays = {} /\ early = {} /\ collided = {}
    /\ runs = NoScan => mirrored = peripherals
    /\ runs # NoScan => task[runs].id \in peripherals /\ mirrored \cup {task[runs].id} = peripherals

\* The references into the map are those of the scans that update a peripheral, one each; the
\* mutex of its services is taken by the scan that has the reference.
WebReferences ==
    /\ borrowed \subseteq peripherals
    /\ \A s \in WebScan : Holds(s) => task[s].id \in borrowed
    /\ \A s, t \in WebScan : Holds(s) /\ Holds(t) /\ task[s].id = task[t].id => s = t
    /\ \A id \in borrowed : \E s \in WebScan : Holds(s) /\ task[s].id = id
    /\ \A id \in locked : \E s \in WebScan : Holds(s) /\ task[s].id = id /\ task[s].at = "gathers"

WebOverlaps ==
    /\ \A s, t \in WebScan : s # t /\ UnderWay(s) /\ UnderWay(t) => overlapped
    /\ \A s \in WebScan : Makes(s) /\ task[s].id \in peripherals => overlapped
    /\ tauri => \A s \in WebScan : task[s].at \in {"idle", "listens", "done"}

WebTraps ==
    \A t \in trapped : t.who # WebClient => \/ t.why = "cancelled"
                                            \/ t.why \in {"map", "listed"} /\ overlapped

WebInv == WebTypeOK /\ WebTold /\ WebReferences /\ WebOverlaps /\ WebTraps

\* The map is empty, and no scan is under way.
LEMMA WebStart == WebAdapterInit => WebInv
  <1> SUFFICES ASSUME WebAdapterInit
               PROVE  WebInv
    OBVIOUS
  <1>1. /\ peripherals = {} /\ borrowed = {} /\ link = [id \in PeripheralId |-> "down"]
        /\ mirrored = {} /\ raced = {} /\ strays = {} /\ early = {} /\ collided = {}
        /\ tauri \in BOOLEAN /\ runs = NoScan /\ locked = {} /\ trapped = {} /\ overlapped = FALSE
        /\ task = [s \in WebScan |-> [at |-> "idle", id |-> NoPeripheral, new |-> FALSE]]
    BY DEF WebAdapterInit, ScanInit, ManagerInit, NoScanTask
  <1>2. WebTypeOK
    BY <1>1 DEF WebTypeOK, WebPlaces
  <1>3. WebTold /\ WebReferences /\ WebOverlaps /\ WebTraps
    BY <1>1 DEF WebTold, WebReferences, WebOverlaps, WebTraps, Holds, Makes, Busy, UnderWay
  <1> QED BY <1>2, <1>3 DEF WebInv

\* The task of one scan goes on, between two stretches of the thread, without an insert.
LEMMA WebGoes ==
    ASSUME WebInv, NEW s \in WebScan, runs = NoScan, runs' = NoScan,
           NEW t \in [at : WebPlaces, id : PeripheralId \cup {NoPeripheral}, new : BOOLEAN],
           task' = [task EXCEPT ![s] = t],
           t.at \in {"connects", "gathers", "ends"} => t.id \in PeripheralId,
           UNCHANGED <<peripherals, link, raced, tauri, strays, early, collided, mirrored>>,
           overlapped' \in BOOLEAN, overlapped => overlapped',
           WebReferences',
           t.at \notin {"idle", "done", "trapped"} /\ ~ UnderWay(s)
                => \A r \in WebScan : UnderWay(r) => overlapped',
           t.at \in {"connects", "gathers", "ends"} /\ t.new /\ t.id \in peripherals => overlapped',
           tauri => t.at \in {"idle", "listens", "done"},
           \A x \in trapped' : x \in trapped \/ x.why = "cancelled" \/ (x.why \in {"map", "listed"} /\ overlapped')
    PROVE  WebInv'
  <1>0. WebTypeOK /\ WebTold /\ WebReferences /\ WebOverlaps /\ WebTraps
    BY DEF WebInv
  <1>1. /\ task'[s] = t
        /\ \A r \in WebScan : r # s => task'[r] = task[r]
        /\ task' \in [WebScan -> [at : WebPlaces, id : PeripheralId \cup {NoPeripheral}, new : BOOLEAN]]
    BY <1>0 DEF WebTypeOK
  <1>2. WebTypeOK'
    BY <1>0, <1>1 DEF WebTypeOK
  <1>3. WebTold'
    BY <1>0 DEF WebTold
  <1>4. WebOverlaps'
    <2>1. ASSUME NEW r \in WebScan, NEW u \in WebScan, r # u, UnderWay(r)', UnderWay(u)'
          PROVE  overlapped'
      <3>1. CASE r # s /\ u # s
        BY <1>0, <1>1, <2>1, <3>1 DEF WebOverlaps, UnderWay
      <3>2. ASSUME NEW q \in WebScan, q # s, UnderWay(q)', UnderWay(s)'
            PROVE  overlapped'
        <4>1. UnderWay(q)
          BY <1>1, <3>2 DEF UnderWay
        <4>2. t.at \notin {"idle", "done", "trapped"}
          BY <1>1, <3>2 DEF UnderWay
        <4>3. CASE UnderWay(s)
          BY <1>0, <3>2, <4>1, <4>3 DEF WebOverlaps
        <4> QED BY <4>1, <4>2, <4>3
      <3> QED BY <2>1, <3>1, <3>2
    <2>2. \A r \in WebScan : Makes(r)' /\ task'[r].id \in peripherals => overlapped'
      BY <1>0, <1>1 DEF WebOverlaps, Makes, Busy
    <2>3. tauri => \A r \in WebScan : task'[r].at \in {"idle", "listens", "done"}
      BY <1>0, <1>1 DEF WebOverlaps
    <2> QED BY <2>1, <2>2, <2>3 DEF WebOverlaps
  <1>5. WebTraps'
    BY <1>0 DEF WebTraps
  <1> QED BY <1>2, <1>3, <1>4, <1>5 DEF WebInv

\* A scan that has no reference before and after a step leaves those of the others.
LEMMA WebLeavesReferences ==
    ASSUME WebReferences, NEW s \in WebScan, ~ Holds(s), ~ Holds(s)',
           \A r \in WebScan : r # s => task'[r] = task[r],
           borrowed' = borrowed, locked' = locked, peripherals \subseteq peripherals'
    PROVE  WebReferences'
  <1>1. \A r \in WebScan : Holds(r)' => Holds(r) /\ task'[r] = task[r] /\ r # s
    BY DEF Holds, Busy
  <1>2. \A r \in WebScan : Holds(r) => Holds(r)' /\ task'[r] = task[r]
    BY DEF Holds, Busy
  <1> QED BY <1>1, <1>2 DEF WebReferences

\* A scan starts or returns, and a user refuses or chooses a device.
LEMMA WebBegins ==
    ASSUME WebInv, NEW s \in WebScan, runs = NoScan,
           WebStartScan(s) \/ TauriReturns(s) \/ Chooses(s)
    PROVE  WebInv'
  <1>0. WebTypeOK /\ WebTold /\ WebReferences /\ WebOverlaps /\ WebTraps
    BY DEF WebInv
  <1>1. ASSUME NEW place \in {"listens", "asks", "done", "trapped"}, task[s].at \in {"idle", "listens", "asks"},
               task' = [task EXCEPT ![s] = [task[s] EXCEPT !.at = place]],
               tauri => place \in {"listens", "done"},
               overlapped' \in BOOLEAN, overlapped => overlapped',
               ~ UnderWay(s) => \A r \in WebScan : UnderWay(r) => overlapped',
               \A x \in trapped' : x \in trapped \/ x.why = "cancelled" \/ (x.why \in {"map", "listed"} /\ overlapped'),
               runs' = NoScan,
               UNCHANGED <<peripherals, link, raced, tauri, strays, early, collided, mirrored, borrowed, locked>>
        PROVE  WebInv'
    <2> DEFINE t == [task[s] EXCEPT !.at = place]
    <2>1. t \in [at : WebPlaces, id : PeripheralId \cup {NoPeripheral}, new : BOOLEAN] /\ t.at = place
      BY <1>0 DEF WebTypeOK, WebPlaces
    <2>2. /\ task'[s] = t
          /\ \A r \in WebScan : r # s => task'[r] = task[r]
      BY <1>0, <1>1 DEF WebTypeOK
    <2> HIDE DEF t
    <2>3. ~ Holds(s) /\ ~ Holds(s)'
      BY <1>1, <2>1, <2>2 DEF Holds, Busy
    <2>4. WebReferences'
      BY <1>0, <1>1, <2>2, <2>3, WebLeavesReferences
    <2>5. task' = [task EXCEPT ![s] = t]
      BY <1>1 DEF t
    <2> QED BY <1>1, <2>1, <2>4, <2>5, WebGoes
  <1>2. CASE WebStartScan(s)
    <2> DEFINE place == IF tauri THEN "listens" ELSE "asks"
    <2>1. /\ task[s].at = "idle" /\ task' = [task EXCEPT ![s] = [task[s] EXCEPT !.at = place]]
          /\ overlapped' = (overlapped \/ \E r \in WebScan : UnderWay(r))
          /\ UNCHANGED <<peripherals, link, raced, tauri, strays, early, collided, mirrored, borrowed, locked, trapped, runs>>
      BY <1>2 DEF WebStartScan, Place, ScanGoes, scanVars, managerVars, placeVars, scanHistory
    <2>2. place \in {"listens", "asks", "done", "trapped"} /\ (tauri => place \in {"listens", "done"})
      OBVIOUS
    <2>3. overlapped' \in BOOLEAN /\ (overlapped => overlapped')
          /\ (~ UnderWay(s) => \A r \in WebScan : UnderWay(r) => overlapped')
      BY <1>0, <2>1 DEF WebTypeOK
    <2> HIDE DEF place
    <2> QED BY <1>1, <2>1, <2>2, <2>3
  <1>3. CASE TauriReturns(s)
    <2>1. /\ task[s].at = "listens" /\ task' = [task EXCEPT ![s] = [task[s] EXCEPT !.at = "done"]]
          /\ UNCHANGED <<peripherals, link, raced, tauri, strays, early, collided, mirrored, borrowed, locked, trapped, runs, overlapped>>
      BY <1>3 DEF TauriReturns, Place, ScanGoes, scanVars, managerVars, placeVars, scanHistory
    <2>2. UnderWay(s) /\ overlapped \in BOOLEAN
      BY <1>0, <2>1 DEF UnderWay, WebTypeOK
    <2> QED BY <1>1, <2>1, <2>2
  <1>4. ASSUME Chooses(s), NEW why \in {"cancelled", "map"}, Traps(s, why), why = "map" => overlapped
        PROVE  WebInv'
    <2>1. /\ task[s].at = "asks" /\ task' = [task EXCEPT ![s] = [task[s] EXCEPT !.at = "trapped"]]
          /\ trapped' = trapped \cup {[who |-> s, why |-> why]}
          /\ UNCHANGED <<peripherals, link, raced, tauri, strays, early, collided, mirrored, borrowed, locked, runs, overlapped>>
      BY <1>4 DEF Chooses, Traps, Place, ScanGoes, scanVars, managerVars, placeVars, scanHistory
    <2>2. UnderWay(s) /\ overlapped \in BOOLEAN /\ ~ tauri
      BY <1>0, <2>1 DEF UnderWay, WebTypeOK, WebOverlaps
    <2>3. \A x \in trapped' : x \in trapped \/ x.why = "cancelled" \/ (x.why \in {"map", "listed"} /\ overlapped')
      BY <1>4, <2>1
    <2> QED BY <1>1, <2>1, <2>2, <2>3
  <1>5. ASSUME Chooses(s), NEW id \in PeripheralId, id \in borrowed, Traps(s, "map")
        PROVE  WebInv'
    <2>1. PICK r \in WebScan : Holds(r)
      BY <1>0, <1>5 DEF WebReferences
    <2>2. r # s /\ UnderWay(r) /\ UnderWay(s)
      BY <1>5, <2>1 DEF Chooses, Holds, Busy, UnderWay
    <2>3. overlapped
      BY <1>0, <2>2 DEF WebOverlaps
    <2> QED BY <1>4, <1>5, <2>3
  <1>6. ASSUME NEW id \in PeripheralId, id \notin borrowed, task[s].at = "asks",
               task' = [task EXCEPT ![s] = [at |-> "connects", id |-> id, new |-> id \notin peripherals]],
               borrowed' = IF id \notin peripherals THEN borrowed ELSE borrowed \cup {id},
               UNCHANGED <<managerVars, link, flips, scanHistory, tauri, runs, locked, trapped, overlapped>>
        PROVE  WebInv'
    <2> DEFINE t == [at |-> "connects", id |-> id, new |-> id \notin peripherals]
    <2>1. t \in [at : WebPlaces, id : PeripheralId \cup {NoPeripheral}, new : BOOLEAN]
      BY DEF WebPlaces
    <2>2. /\ task'[s] = t /\ t.at = "connects" /\ t.id = id /\ t.new = (id \notin peripherals)
          /\ \A r \in WebScan : r # s => task'[r] = task[r]
      BY <1>0, <1>6 DEF WebTypeOK
    <2>3. UNCHANGED <<peripherals, link, raced, tauri, strays, early, collided, mirrored, locked, trapped, overlapped>>
      BY <1>6 DEF managerVars, scanHistory
    <2> HIDE DEF t
    <2>4. ~ Holds(s) /\ (Holds(s)' <=> id \in peripherals) /\ \A r \in WebScan : r # s => (Holds(r)' <=> Holds(r))
      BY <1>6, <2>2 DEF Holds, Busy
    <2>5. WebReferences'
      <3>1. borrowed' \subseteq peripherals'
        BY <1>0, <1>6, <2>3 DEF WebReferences
      <3>2. \A r \in WebScan : Holds(r)' => task'[r].id \in borrowed'
        BY <1>0, <1>6, <2>2, <2>4 DEF WebReferences
      <3>3. \A r \in WebScan : r # s /\ Holds(r)' => task'[r].id # id
        BY <1>0, <1>6, <2>2, <2>4 DEF WebReferences
      <3>4. \A r, q \in WebScan : Holds(r)' /\ Holds(q)' /\ task'[r].id = task'[q].id => r = q
        BY <1>0, <2>2, <2>4, <3>3 DEF WebReferences
      <3>5. \A x \in borrowed' : \E r \in WebScan : Holds(r)' /\ task'[r].id = x
        BY <1>0, <1>6, <2>2, <2>4 DEF WebReferences
      <3>6. \A x \in locked' : \E r \in WebScan : Holds(r)' /\ task'[r].id = x /\ task'[r].at = "gathers"
        BY <1>0, <2>2, <2>3, <2>4 DEF WebReferences
      <3> QED BY <3>1, <3>2, <3>4, <3>5, <3>6 DEF WebReferences
    <2>6. UnderWay(s) /\ overlapped \in BOOLEAN /\ ~ tauri
      BY <1>0, <1>6 DEF UnderWay, WebTypeOK, WebOverlaps
    <2>7. task' = [task EXCEPT ![s] = t] /\ runs' = NoScan
      BY <1>6 DEF t
    <2> QED BY <2>1, <2>2, <2>3, <2>5, <2>6, <2>7, WebGoes
  <1>7. CASE Chooses(s)
    BY <1>4, <1>5, <1>6, <1>7 DEF Chooses, ScanGoes, Borrows, Unlisted
  <1> QED BY <1>2, <1>3, <1>7

\* update_properties of a scan.
LEMMA WebGathers ==
    ASSUME WebInv, NEW s \in WebScan, runs = NoScan,
           GetPrimaryServices(s) \/ GathersServices(s)
    PROVE  WebInv'
  <1>0. WebTypeOK /\ WebTold /\ WebReferences /\ WebOverlaps /\ WebTraps
    BY DEF WebInv
  <1>1. /\ task[s].at \in {"connects", "gathers"}
        /\ UNCHANGED <<peripherals, link, raced, tauri, strays, early, collided, mirrored, borrowed, runs, overlapped>>
    BY DEF GetPrimaryServices, GathersServices, Traps, scanVars, managerVars, placeVars, scanHistory
  \* The reference keeps others from the mutex.
  <1>2. ~ (task[s].at = "connects" /\ ~ task[s].new /\ task[s].id \in locked)
    <2> SUFFICES ASSUME task[s].at = "connects", ~ task[s].new, task[s].id \in locked
                 PROVE  FALSE
      OBVIOUS
    <2>1. PICK r \in WebScan : Holds(r) /\ task[r].id = task[s].id /\ task[r].at = "gathers"
      BY <1>0 DEF WebReferences
    <2>2. Holds(s)
      BY DEF Holds, Busy
    <2> QED BY <1>0, <2>1, <2>2 DEF WebReferences
  <1>3. PICK place \in {"gathers", "ends"} :
            /\ task' = [task EXCEPT ![s] = [task[s] EXCEPT !.at = place]]
            /\ trapped' = trapped
            /\ place = "gathers" => task[s].at = "connects"
            /\ locked' = locked
                  \/ (place = "gathers" /\ ~ task[s].new /\ locked' = locked \cup {task[s].id})
                  \/ (task[s].at = "gathers" /\ ~ task[s].new /\ locked' = locked \ {task[s].id})
            /\ task[s].at = "gathers" /\ ~ task[s].new => locked' = locked \ {task[s].id}
    BY <1>2 DEF GetPrimaryServices, GathersServices, Place, ScanGoes
  <1> DEFINE t == [task[s] EXCEPT !.at = place]
  <1>4. /\ t \in [at : WebPlaces, id : PeripheralId \cup {NoPeripheral}, new : BOOLEAN]
        /\ t.at = place /\ t.id = task[s].id /\ t.new = task[s].new
        /\ t.id \in PeripheralId
    BY <1>0, <1>1 DEF WebTypeOK, WebPlaces
  <1>5. /\ task'[s] = t
        /\ \A r \in WebScan : r # s => task'[r] = task[r]
    BY <1>0, <1>3 DEF WebTypeOK
  <1>6. task' = [task EXCEPT ![s] = t]
    BY <1>3
  <1> HIDE DEF t
  <1>7. \A r \in WebScan : (Holds(r)' <=> Holds(r)) /\ task'[r].id = task[r].id
    BY <1>1, <1>4, <1>5 DEF Holds, Busy
  <1>8. WebReferences'
    <2>1. \A x \in locked' : \E r \in WebScan : Holds(r)' /\ task'[r].id = x /\ task'[r].at = "gathers"
      <3> SUFFICES ASSUME NEW x \in locked'
                   PROVE  \E r \in WebScan : Holds(r) /\ task[r].id = x /\ task'[r].at = "gathers"
        BY <1>7
      <3>1. CASE x \in locked
        <4>1. PICK r \in WebScan : Holds(r) /\ task[r].id = x /\ task[r].at = "gathers"
          BY <1>0, <3>1 DEF WebReferences
        <4>2. r # s
          BY <1>3, <4>1 DEF Holds
        <4> QED BY <1>5, <4>1, <4>2
      <3>2. CASE x \notin locked
        <4>1. place = "gathers" /\ ~ task[s].new /\ x = task[s].id
          BY <1>3, <3>2
        <4>2. Holds(s)
          BY <1>1, <4>1 DEF Holds, Busy
        <4> QED BY <1>4, <1>5, <4>1, <4>2
      <3> QED BY <3>1, <3>2
    <2> QED BY <1>0, <1>1, <1>7, <2>1 DEF WebReferences
  <1>9. UnderWay(s) /\ overlapped \in BOOLEAN /\ ~ tauri
    BY <1>0, <1>1 DEF UnderWay, WebTypeOK, WebOverlaps
  <1>10. t.at \in {"connects", "gathers", "ends"} /\ t.new /\ t.id \in peripherals => overlapped
    BY <1>0, <1>1, <1>4 DEF WebOverlaps, Makes, Busy
  <1> QED BY <1>1, <1>3, <1>4, <1>6, <1>8, <1>9, <1>10, WebGoes

\* DeviceUpdated, and the end of the reference.
LEMMA WebUpdated ==
    ASSUME WebInv, NEW s \in WebScan, runs = NoScan, WebUpdates(s)
    PROVE  WebInv'
  <1>0. WebTypeOK /\ WebTold /\ WebReferences /\ WebOverlaps /\ WebTraps
    BY DEF WebInv
  <1>1. /\ task[s].at = "ends" /\ ~ task[s].new
        /\ Announce("DeviceUpdated", task[s].id)
        /\ borrowed' = borrowed \ {task[s].id}
        /\ task' = [task EXCEPT ![s] = [task[s] EXCEPT !.at = "done"]]
        /\ UNCHANGED <<link, tauri, runs, locked, trapped, overlapped>>
    BY DEF WebUpdates, Place, ScanGoes
  <1>2. Holds(s) /\ task[s].id \in peripherals /\ task[s].id \in mirrored
    BY <1>0, <1>1 DEF Holds, Busy, WebReferences, WebTold
  <1>3. UNCHANGED <<peripherals, raced, collided, strays, early, mirrored>>
    BY <1>1, <1>2, AnnounceEffect
  <1> DEFINE t == [task[s] EXCEPT !.at = "done"]
  <1>4. t \in [at : WebPlaces, id : PeripheralId \cup {NoPeripheral}, new : BOOLEAN] /\ t.at = "done"
    BY <1>0 DEF WebTypeOK, WebPlaces
  <1>5. /\ task'[s] = t
        /\ \A r \in WebScan : r # s => task'[r] = task[r]
    BY <1>0, <1>1 DEF WebTypeOK
  <1>6. task' = [task EXCEPT ![s] = t]
    BY <1>1
  <1> HIDE DEF t
  <1>7. ~ Holds(s)' /\ \A r \in WebScan : r # s => (Holds(r)' <=> Holds(r)) /\ task'[r].id = task[r].id
    BY <1>4, <1>5 DEF Holds, Busy
  <1>8. WebReferences'
    <2>1. borrowed' \subseteq peripherals'
      BY <1>0, <1>1, <1>3 DEF WebReferences
    <2>2. \A r \in WebScan : Holds(r)' => task'[r].id \in borrowed'
      BY <1>0, <1>1, <1>2, <1>7 DEF WebReferences
    <2>3. \A r, q \in WebScan : Holds(r)' /\ Holds(q)' /\ task'[r].id = task'[q].id => r = q
      BY <1>0, <1>7 DEF WebReferences
    <2>4. \A x \in borrowed' : \E r \in WebScan : Holds(r)' /\ task'[r].id = x
      <3> SUFFICES ASSUME NEW x \in borrowed, x # task[s].id
                   PROVE  \E r \in WebScan : Holds(r)' /\ task'[r].id = x
        BY <1>1
      <3>1. PICK r \in WebScan : Holds(r) /\ task[r].id = x
        BY <1>0 DEF WebReferences
      <3> QED BY <1>7, <3>1
    <2>5. \A x \in locked' : \E r \in WebScan : Holds(r)' /\ task'[r].id = x /\ task'[r].at = "gathers"
      <3> SUFFICES ASSUME NEW x \in locked
                   PROVE  \E r \in WebScan : Holds(r)' /\ task'[r].id = x /\ task'[r].at = "gathers"
        BY <1>1
      <3>1. PICK r \in WebScan : Holds(r) /\ task[r].id = x /\ task[r].at = "gathers"
        BY <1>0 DEF WebReferences
      <3>2. r # s
        BY <1>1, <3>1
      <3> QED BY <1>5, <1>7, <3>1, <3>2
    <2> QED BY <2>1, <2>2, <2>3, <2>4, <2>5 DEF WebReferences
  <1>9. UnderWay(s) /\ overlapped \in BOOLEAN
    BY <1>0, <1>1 DEF UnderWay, WebTypeOK
  <1> QED BY <1>1, <1>3, <1>4, <1>6, <1>8, <1>9, WebGoes

\* A peripheral is inserted.
LEMMA WebEnlists ==
    ASSUME WebInv, NEW s \in WebScan, NEW id \in PeripheralId, runs = NoScan,
           id \notin peripherals, Adds(id), runs' = s,
           NEW t \in [at : WebPlaces, id : PeripheralId \cup {NoPeripheral}, new : BOOLEAN],
           task' = [task EXCEPT ![s] = t], t.id = id,
           t.at \in {"listens", "done"}, UnderWay(s) \/ t.at = "done",
           ~ Holds(s), tauri \/ task[s].at = "ends",
           UNCHANGED <<tauri, locked, trapped, overlapped>>
    PROVE  WebInv'
  <1>0. WebTypeOK /\ WebTold /\ WebReferences /\ WebOverlaps /\ WebTraps
    BY DEF WebInv
  <1>1. /\ peripherals' = peripherals \cup {id}
        /\ UNCHANGED <<raced, collided, strays, early, mirrored, borrowed, link>>
    BY <1>0 DEF Adds, Insert, placeVars, WebTypeOK
  <1>2. /\ task'[s] = t
        /\ \A r \in WebScan : r # s => task'[r] = task[r]
        /\ task' \in [WebScan -> [at : WebPlaces, id : PeripheralId \cup {NoPeripheral}, new : BOOLEAN]]
    BY <1>0 DEF WebTypeOK
  <1>3. WebTypeOK'
    BY <1>0, <1>1, <1>2 DEF WebTypeOK
  <1>4. WebTold'
    BY <1>0, <1>1, <1>2, WebAssumption DEF WebTold
  <1>5. WebReferences'
    <2>1. ~ Holds(s)'
      BY <1>2 DEF Holds, Busy
    <2> QED BY <1>0, <1>1, <1>2, <2>1, WebLeavesReferences
  <1>6. WebOverlaps'
    <2>1. \A r \in WebScan : UnderWay(r)' => UnderWay(r)
      BY <1>2 DEF UnderWay
    <2>2. tauri => \A r \in WebScan : task'[r].at \in {"idle", "listens", "done"}
      BY <1>0, <1>2 DEF WebOverlaps
    <2>3. ASSUME NEW r \in WebScan, Makes(r)', task'[r].id \in peripherals'
          PROVE  overlapped
      <3>1. r # s /\ Makes(r) /\ UnderWay(r)
        BY <1>2, <2>3 DEF Makes, Busy, UnderWay
      <3>2. UnderWay(s)
        BY <1>0, <3>1 DEF WebOverlaps, Makes, Busy, UnderWay
      <3> QED BY <1>0, <3>1, <3>2 DEF WebOverlaps
    <2> QED BY <1>0, <2>1, <2>2, <2>3 DEF WebOverlaps
  <1>7. WebTraps'
    BY <1>0 DEF WebTraps
  <1> QED BY <1>3, <1>4, <1>5, <1>6, <1>7 DEF WebInv

\* add_peripheral of a scan, and what the plugin of Tauri reports.
LEMMA WebInserts ==
    ASSUME WebInv, NEW s \in WebScan, runs = NoScan,
           WebAdds(s) \/ \E id \in PeripheralId : TauriDevice(s, id)
    PROVE  WebInv'
  <1>0. WebTypeOK /\ WebTold /\ WebReferences /\ WebOverlaps /\ WebTraps
    BY DEF WebInv
  <1>1. ASSUME NEW why \in {"map", "listed"}, WebAdds(s), Traps(s, why), overlapped
        PROVE  WebInv'
    <2> DEFINE t == [task[s] EXCEPT !.at = "trapped"]
    <2>1. /\ task' = [task EXCEPT ![s] = t] /\ task[s].at = "ends" /\ task[s].new
          /\ trapped' = trapped \cup {[who |-> s, why |-> why]}
          /\ UNCHANGED <<peripherals, link, raced, tauri, strays, early, collided, mirrored, borrowed, locked, runs, overlapped>>
      BY <1>1 DEF WebAdds, Traps, Place, ScanGoes, scanVars, managerVars, placeVars, scanHistory
    <2>2. t \in [at : WebPlaces, id : PeripheralId \cup {NoPeripheral}, new : BOOLEAN] /\ t.at = "trapped"
      BY <1>0 DEF WebTypeOK, WebPlaces
    <2> HIDE DEF t
    <2>3. /\ task'[s] = t
          /\ \A r \in WebScan : r # s => task'[r] = task[r]
      BY <1>0, <2>1 DEF WebTypeOK
    <2>4. WebReferences'
      <3>1. ~ Holds(s) /\ ~ Holds(s)'
        BY <2>1, <2>2, <2>3 DEF Holds, Busy
      <3> QED BY <1>0, <2>1, <2>3, <3>1, WebLeavesReferences
    <2>5. UnderWay(s) /\ ~ tauri
      BY <1>0, <2>1 DEF UnderWay, WebOverlaps
    <2>6. \A x \in trapped' : x \in trapped \/ x.why = "cancelled" \/ (x.why \in {"map", "listed"} /\ overlapped')
      BY <1>1, <2>1
    <2> QED BY <1>1, <2>1, <2>2, <2>4, <2>5, <2>6, WebGoes
  <1>2. ASSUME WebAdds(s), task[s].id \in borrowed
        PROVE  WebInv'
    <2>1. PICK r \in WebScan : Holds(r)
      BY <1>0, <1>2 DEF WebReferences
    <2>2. r # s /\ UnderWay(r) /\ UnderWay(s)
      BY <1>2, <2>1 DEF WebAdds, Holds, Busy, UnderWay
    <2> QED BY <1>0, <1>1, <1>2, <2>2 DEF WebOverlaps, WebAdds
  <1>3. ASSUME WebAdds(s), task[s].id \notin borrowed, task[s].id \in peripherals
        PROVE  WebInv'
    <2>1. overlapped
      BY <1>0, <1>3 DEF WebOverlaps, WebAdds, Makes, Busy
    <2> QED BY <1>1, <1>3, <2>1 DEF WebAdds, Unlisted
  <1>4. ASSUME WebAdds(s), task[s].id \notin borrowed, task[s].id \notin peripherals
        PROVE  WebInv'
    <2> DEFINE t == [task[s] EXCEPT !.at = "done"]
    <2>1. /\ task' = [task EXCEPT ![s] = t] /\ task[s].at = "ends" /\ task[s].new
          /\ Adds(task[s].id) /\ runs' = s
          /\ UNCHANGED <<tauri, locked, trapped, overlapped>>
      BY <1>4 DEF WebAdds, Unlisted, Enlists, Place, ScanGoes
    <2>2. t \in [at : WebPlaces, id : PeripheralId \cup {NoPeripheral}, new : BOOLEAN]
          /\ t.at = "done" /\ t.id = task[s].id /\ task[s].id \in PeripheralId
      BY <1>0, <2>1 DEF WebTypeOK, WebPlaces
    <2>3. ~ Holds(s)
      BY <2>1 DEF Holds
    <2> HIDE DEF t
    <2> QED BY <1>4, <2>1, <2>2, <2>3, WebEnlists
  <1>5. ASSUME NEW id \in PeripheralId, TauriDevice(s, id)
        PROVE  WebInv'
    <2> DEFINE t == [task[s] EXCEPT !.id = id]
    <2>1. /\ task' = [task EXCEPT ![s] = t] /\ task[s].at \in {"listens", "done"} /\ tauri
          /\ id \notin peripherals /\ Adds(id) /\ runs' = s
          /\ UNCHANGED <<tauri, locked, trapped, overlapped>>
      BY <1>5 DEF TauriDevice, Unlisted, ScanGoes
    <2>2. /\ t \in [at : WebPlaces, id : PeripheralId \cup {NoPeripheral}, new : BOOLEAN]
          /\ t.at = task[s].at /\ t.id = id
      BY <1>0 DEF WebTypeOK
    <2>3. ~ Holds(s) /\ (UnderWay(s) \/ t.at = "done")
      BY <2>1, <2>2 DEF Holds, Busy, UnderWay
    <2> HIDE DEF t
    <2> QED BY <2>1, <2>2, <2>3, WebEnlists
  <1> QED BY <1>2, <1>3, <1>4, <1>5

\* The task that has inserted a peripheral tells of it; a client reads.
LEMMA WebTells ==
    ASSUME WebInv, ClientReads \/ \E s \in WebScan : TellsEnlisted(s)
    PROVE  WebInv'
  <1>0. WebTypeOK /\ WebTold /\ WebReferences /\ WebOverlaps /\ WebTraps
    BY DEF WebInv
  <1>1. CASE ClientReads
    <2>1. UNCHANGED <<peripherals, link, raced, tauri, strays, early, collided, mirrored, borrowed, locked, runs, task, overlapped>>
      BY <1>1 DEF ClientReads, scanVars, managerVars, placeVars, scanHistory
    <2>2. \A x \in trapped' : x \in trapped \/ x.who = WebClient
      BY <1>1 DEF ClientReads
    <2>3. WebTypeOK' /\ WebTold' /\ WebReferences' /\ WebOverlaps'
      BY <1>0, <2>1 DEF WebTypeOK, WebTold, WebReferences, WebOverlaps, Holds, Makes, Busy, UnderWay
    <2> QED BY <1>0, <2>1, <2>2, <2>3 DEF WebInv, WebTraps
  <1>2. ASSUME NEW s \in WebScan, TellsEnlisted(s)
        PROVE  WebInv'
    <2>1. /\ runs = s /\ runs' = NoScan /\ Announce("DeviceDiscovered", task[s].id)
          /\ UNCHANGED <<link, borrowed, tauri, task, locked, trapped, overlapped>>
      BY <1>2 DEF TellsEnlisted, placeVars
    <2>2. task[s].id \in peripherals /\ mirrored \cup {task[s].id} = peripherals
      BY <1>0, <2>1, WebAssumption DEF WebTold
    <2>3. /\ UNCHANGED <<peripherals, raced, collided, strays>>
          /\ mirrored' = mirrored \cup {task[s].id}
      BY <2>1, <2>2, AnnounceEffect
    <2>4. early' = early
      BY <2>1 DEF Announce
    <2>5. WebTold' /\ WebTypeOK'
      BY <1>0, <2>1, <2>2, <2>3, <2>4 DEF WebTold, WebTypeOK
    <2>6. WebReferences' /\ WebOverlaps' /\ WebTraps'
      BY <1>0, <2>1, <2>3 DEF WebReferences, WebOverlaps, WebTraps, Holds, Makes, Busy, UnderWay
    <2> QED BY <2>5, <2>6 DEF WebInv
  <1> QED BY <1>1, <1>2

\* Every step.
LEMMA WebStep == WebInv /\ [WebAdapterNext]_webAdapterVars => WebInv'
  <1> SUFFICES ASSUME WebInv, [WebAdapterNext]_webAdapterVars
               PROVE  WebInv'
    OBVIOUS
  <1>1. CASE UNCHANGED webAdapterVars
    <2>1. UNCHANGED <<peripherals, link, raced, tauri, strays, early, collided, mirrored, borrowed, locked, runs, task, overlapped, trapped>>
      BY <1>1 DEF webAdapterVars, webVars, scanVars, managerVars, placeVars, scanHistory
    <2> QED BY <2>1 DEF WebInv, WebTypeOK, WebTold, WebReferences, WebOverlaps, WebTraps, Holds, Makes, Busy, UnderWay
  <1>2. CASE ClientReads \/ \E s \in WebScan : TellsEnlisted(s)
    BY <1>2, WebTells
  <1>3. ASSUME NEW s \in WebScan, runs = NoScan, WebScanStep(s)
        PROVE  WebInv'
    BY <1>3, WebBegins, WebGathers, WebUpdated, WebInserts DEF WebScanStep
  <1> QED BY <1>1, <1>2, <1>3 DEF WebAdapterNext

\* A scan of the Web backend that overlaps no other traps only when the user refuses, and the
\* events tell the map, for any number of scans and devices.
THEOREM WebScansTrapForCause == BackendsSpec => []WebTrapsExplained
  <1> DEFINE Inv == backend = "web adapter" => WebInv
  <1>1. BackendsInit => Inv
    BY WebStart DEF BackendsInit
  <1>2. Inv /\ [BackendsNext]_allVars => Inv'
    <2> SUFFICES ASSUME Inv, [BackendsNext]_allVars, backend' = "web adapter"
                 PROVE  WebInv'
      OBVIOUS
    <2>1. backend = "web adapter" /\ [WebAdapterNext]_webAdapterVars
      BY DEF BackendsNext, allVars, webAdapterVars
    <2> QED BY <2>1, WebStep
  <1>3. Inv => WebTrapsExplained
    BY DEF WebTrapsExplained, WebTrapsNeedCause, WebInv, WebTraps, WebTold, MirrorsMap
  <1> HIDE DEF Inv
  <1> QED BY <1>1, <1>2, <1>3, PTL DEF BackendsSpec

----------------------------------------------------------------------------
(* The Peripheral of the Linux backend. *)

\* The attribute at a path, as the database shows it now.
Shown(p) == [uuids |-> database[p].uuids, path |-> p]

\* What the uuids and parents of a database are to each other.
LEMMA DatabaseTree ==
    ASSUME NEW db \in Databases, NEW q \in DOMAIN db
    PROVE  /\ q \in Path /\ q # Root
           /\ db[q].uuids \in Seq(Uuid) /\ Len(db[q].uuids) \in 1..3
           /\ Len(db[q].uuids) = 1 =>
                 /\ db[q].parent = Root
                 /\ Append(<<>>, db[q].uuids[Len(db[q].uuids)]) = db[q].uuids
           /\ Len(db[q].uuids) # 1 =>
                 /\ db[q].parent \in DOMAIN db
                 /\ db[q].parent # Root
                 /\ db[db[q].parent].uuids = SubSeq(db[q].uuids, 1, Len(db[q].uuids) - 1)
                 /\ Len(db[db[q].parent].uuids) = Len(db[q].uuids) - 1
                 /\ Append(db[db[q].parent].uuids, db[q].uuids[Len(db[q].uuids)]) = db[q].uuids
  <1> DEFINE u == db[q].uuids
             r == db[q].parent
  <1>1. \A p \in DOMAIN db : [uuids |-> db[p].uuids, path |-> p] \in Item
    BY BluezAssumption DEF Attributes
  <1>2. \A p \in DOMAIN db : p \in Path /\ \E n \in 1..3 : db[p].uuids \in [1..n -> Uuid]
    BY <1>1 DEF Item
  <1>3. IF Len(u) = 1 THEN r = Root ELSE r \in DOMAIN db /\ db[r].uuids = SubSeq(u, 1, Len(u) - 1)
    BY BluezAssumption
  <1>4. PICK n \in 1..3 : u \in [1..n -> Uuid]
    BY <1>2
  <1>5. q \in Path /\ q # Root /\ (r \in DOMAIN db => r # Root)
    BY <1>2, BluezAssumption
  <1> HIDE DEF u, r
  <1>6. u \in Seq(Uuid) /\ Len(u) = n /\ n \in 1..3
    BY <1>4
  <1>7. ASSUME Len(u) = 1
        PROVE  Append(<<>>, u[Len(u)]) = u
    BY <1>6, <1>7
  <1>8. ASSUME Len(u) # 1
        PROVE  /\ Len(db[r].uuids) = Len(u) - 1
               /\ Append(db[r].uuids, u[Len(u)]) = u
    <2>1. r \in DOMAIN db /\ db[r].uuids = SubSeq(u, 1, Len(u) - 1)
      BY <1>3, <1>8
    <2> DEFINE v == SubSeq(u, 1, Len(u) - 1)
    <2>2. v \in Seq(Uuid) /\ Len(v) = Len(u) - 1 /\ \A k \in 1..Len(u) - 1 : v[k] = u[k]
      BY <1>6, <1>8
    <2> HIDE DEF v
    <2>3. u[Len(u)] \in Uuid
      BY <1>6
    <2>4. Append(v, u[Len(u)]) = u
      <3> DEFINE w == Append(v, u[Len(u)])
      <3>1. w \in Seq(Uuid) /\ Len(w) = Len(u)
        BY <1>6, <2>2, <2>3
      <3>2. \A k \in 1..Len(u) : w[k] = u[k]
        BY <1>6, <2>2, <2>3
      <3> HIDE DEF w
      <3>3. w = u
        BY <1>6, <3>1, <3>2, SeqEqual
      <3> QED BY <3>3 DEF w
    <2> QED BY <2>1, <2>2, <2>4 DEF v
  <1> QED BY <1>3, <1>5, <1>6, <1>7, <1>8 DEF u, r

\* A query of the children of an attribute returns them as the database shows them.
LEMMA ListedAreShown ==
    ASSUME database \in Databases, NEW i, i = [uuids |-> <<>>, path |-> Root] \/ i \in Attributes(database)
    PROVE  Listed(i) = {Shown(q) : q \in Children(i.path)}
  <1>1. \A q \in Children(i.path) : q \in DOMAIN database /\ database[q].parent = i.path
    BY DEF Children
  <1>2. CASE i = [uuids |-> <<>>, path |-> Root]
    <2>1. ASSUME NEW q \in Children(i.path)
          PROVE  Append(i.uuids, database[q].uuids[Len(database[q].uuids)]) = database[q].uuids
      <3>1. Len(database[q].uuids) = 1
        BY <1>1, <1>2, DatabaseTree
      <3> QED BY <1>1, <1>2, <3>1, DatabaseTree
    <2> QED BY <2>1 DEF Listed, Shown
  <1>3. CASE i \in Attributes(database)
    <2>1. i.path \in DOMAIN database /\ i.uuids = database[i.path].uuids
      BY <1>3 DEF Attributes
    <2>2. ASSUME NEW q \in Children(i.path)
          PROVE  Append(i.uuids, database[q].uuids[Len(database[q].uuids)]) = database[q].uuids
      <3>1. Len(database[q].uuids) # 1
        BY <1>1, <2>1, DatabaseTree
      <3> QED BY <1>1, <2>1, <3>1, DatabaseTree
    <2> QED BY <2>2 DEF Listed, Shown
  <1> QED BY <1>2, <1>3

\* p is a characteristic that nothing hides.
Plain(p) == p \in DOMAIN database /\ Len(database[p].uuids) = 2 /\ ~ Hidden(p)

AnyItem == [uuids : Seq(Uuid), path : Path]

Work == [obj : Object \cup {NoWork.obj}, uuids : Seq(Uuid), todo : SUBSET AnyItem, gathered : SUBSET AnyItem,
         path : Path \cup {Root}, since : Int, reached : Seq(Uuid)]

BluezTypeOK ==
    /\ database \in Databases /\ changes \in Nat
    /\ stage \in [BluezCall -> {"idle", "discovers", "asks", "done", "failed"}]
    /\ work \in [BluezCall -> Work]
    /\ services \in [Object -> SUBSET AnyItem] /\ since \in [Object -> Int]
    /\ DOMAIN events = Object /\ DOMAIN delivered = Object
    /\ \A c \in BluezCall : /\ work[c].since <= changes
                            /\ stage[c] = "discovers" => work[c].obj \in Object
    /\ \A o \in Object : since[o] <= changes

\* While the database is the one that a discovery began in, the discovery knows only what the
\* database shows, and will have every characteristic that nothing hides.
Discovering(c) ==
    stage[c] = "discovers" /\ work[c].since = changes =>
        /\ work[c].todo \subseteq Attributes(database) /\ work[c].gathered \subseteq Attributes(database)
        /\ \A p \in Path : Plain(p) =>
              Shown(database[p].parent) \in work[c].todo \/ Shown(p) \in work[c].gathered

\* So does the map that it leaves.
MapTrue(o) ==
    since[o] = changes =>
        /\ services[o] \subseteq Attributes(database)
        /\ \A p \in Path : Plain(p) => Shown(p) \in services[o]

\* A call asks at the path of the attribute it is for.
Asking(c) ==
    /\ stage[c] = "asks" /\ work[c].since = changes =>
          [uuids |-> work[c].uuids, path |-> work[c].path] \in Attributes(database)
    /\ stage[c] # "done" => work[c].reached = <<>>
    /\ work[c].reached # <<>> /\ work[c].since # -1 => work[c].reached = work[c].uuids

\* An event is of a characteristic that the database showed when it was sent.
EventTrue(e) ==
    /\ e.at \in Int /\ e.at <= changes
    /\ e.at = changes => /\ e.path \in DOMAIN database
                         /\ e.uuids = database[e.path].uuids /\ Len(e.uuids) = 2

EventsTrue(o) == events[o] # <<>> => events[o] = <<events[o][1]>> /\ EventTrue(events[o][1])

DeliveredTrue(o) ==
    LET d == delivered[o]
    IN  /\ d.event.at \in Int /\ d.event.at <= changes
        /\ d.event.at = changes /\ d.since = changes
              => d.uuid = d.event.uuids[2] \/ (d.uuid = "dropped" /\ Hidden(d.event.path))

BluezInv ==
    /\ BluezTypeOK
    /\ notifying \subseteq {p \in DOMAIN database : Len(database[p].uuids) = 2}
    /\ \A c \in BluezCall : Discovering(c) /\ Asking(c)
    /\ \A o \in Object : MapTrue(o) /\ EventsTrue(o) /\ DeliveredTrue(o)

\* The record of a call: at first, and when it goes on.
LEMMA NoWorkYet ==
    /\ NoWork \in Work /\ NoWork.uuids = <<>> /\ NoWork.todo = {} /\ NoWork.gathered = {}
    /\ NoWork.path = Root /\ NoWork.since = -1 /\ NoWork.reached = <<>>
  <1>1. PICK o : NoWork = [obj |-> o, uuids |-> <<>>, todo |-> {}, gathered |-> {},
                           path |-> Root, since |-> -1, reached |-> <<>>]
    BY DEF NoWork
  <1> QED BY <1>1 DEF Work

\* Nothing is discovered or asked.
LEMMA BluezStart == BluezInit => BluezInv
  <1> SUFFICES ASSUME BluezInit
               PROVE  BluezInv
    OBVIOUS
  <1>1. /\ database \in Databases /\ changes = 0 /\ notifying = {}
        /\ services = [o \in Object |-> {}]
        /\ stage = [c \in BluezCall |-> "idle"]
        /\ work = [c \in BluezCall |-> NoWork]
        /\ events = [o \in Object |-> <<>>] /\ since = [o \in Object |-> -1]
        /\ delivered = [o \in Object |-> [event |-> [uuids |-> <<>>, path |-> Root, at |-> -1], uuid |-> "none", since |-> -1]]
    BY DEF BluezInit, NoEvent
  <1>2. BluezTypeOK
    BY <1>1, NoWorkYet DEF BluezTypeOK
  <1>3. \A c \in BluezCall : Discovering(c) /\ Asking(c)
    BY <1>1, NoWorkYet DEF Discovering, Asking
  <1>4. \A o \in Object : MapTrue(o) /\ EventsTrue(o) /\ DeliveredTrue(o)
    BY <1>1 DEF MapTrue, EventsTrue, DeliveredTrue
  <1> QED BY <1>1, <1>2, <1>3, <1>4 DEF BluezInv

\* A step of one call that leaves the database and the maps as they are.
LEMMA BluezCallGoes ==
    ASSUME BluezInv, NEW c \in BluezCall,
           NEW place \in {"discovers", "asks", "done", "failed"}, NEW w \in Work,
           Comes(c, place, w), w.since <= changes, place = "discovers" => w.obj \in Object,
           notifying' \subseteq {p \in DOMAIN database : Len(database[p].uuids) = 2},
           UNCHANGED <<database, changes, services, events, since, delivered>>,
           place = "discovers" /\ w.since = changes =>
              /\ w.todo \subseteq Attributes(database) /\ w.gathered \subseteq Attributes(database)
              /\ \A p \in Path : Plain(p) => Shown(database[p].parent) \in w.todo \/ Shown(p) \in w.gathered,
           place = "asks" /\ w.since = changes => [uuids |-> w.uuids, path |-> w.path] \in Attributes(database),
           place # "done" => w.reached = <<>>,
           w.reached # <<>> /\ w.since # -1 => w.reached = w.uuids
    PROVE  BluezInv'
  <1>0. /\ BluezTypeOK
        /\ \A k \in BluezCall : Discovering(k) /\ Asking(k)
        /\ \A o \in Object : MapTrue(o) /\ EventsTrue(o) /\ DeliveredTrue(o)
    BY DEF BluezInv
  <1>1. /\ stage'[c] = place /\ work'[c] = w
        /\ \A k \in BluezCall : k # c => stage'[k] = stage[k] /\ work'[k] = work[k]
        /\ work' \in [BluezCall -> Work]
        /\ stage' \in [BluezCall -> {"idle", "discovers", "asks", "done", "failed"}]
    BY <1>0 DEF Comes, BluezTypeOK
  <1>2. BluezTypeOK'
    BY <1>0, <1>1 DEF BluezTypeOK
  <1>3. \A p : Plain(p)' <=> Plain(p)
    BY DEF Plain, Hidden
  <1>4. \A p : Shown(p)' = Shown(p)
    BY DEF Shown
  <1>5. Attributes(database)' = Attributes(database)
    OBVIOUS
  <1>6. \A k \in BluezCall : Discovering(k)'
    <2> SUFFICES ASSUME NEW k \in BluezCall, stage'[k] = "discovers", work'[k].since = changes
                 PROVE  /\ work'[k].todo \subseteq Attributes(database) /\ work'[k].gathered \subseteq Attributes(database)
                        /\ \A p \in Path : Plain(p) =>
                              Shown(database[p].parent) \in work'[k].todo \/ Shown(p) \in work'[k].gathered
      BY <1>3, <1>4 DEF Discovering
    <2>1. CASE k = c
      BY <1>1, <2>1
    <2>2. CASE k # c
      BY <1>0, <1>1, <2>2 DEF Discovering
    <2> QED BY <2>1, <2>2
  <1>7. \A k \in BluezCall : Asking(k)'
    BY <1>0, <1>1, <1>5 DEF Asking
  <1>8. \A o \in Object : MapTrue(o)'
    BY <1>0, <1>3, <1>4 DEF MapTrue
  <1>9. \A o \in Object : EventsTrue(o)' /\ DeliveredTrue(o)'
    <2>1. \A p : Hidden(p)' <=> Hidden(p)
      BY DEF Hidden
    <2> QED BY <1>0, <2>1 DEF EventsTrue, EventTrue, DeliveredTrue
  <1> QED BY <1>2, <1>6, <1>7, <1>8, <1>9 DEF BluezInv

\* Items of uuids and paths.
LEMMA AttributesAreItems ==
    ASSUME NEW db \in Databases
    PROVE  Attributes(db) \subseteq AnyItem
BY DatabaseTree DEF Attributes, AnyItem

\* Also what a query in a changed database returns.
LEMMA ListedAreItems ==
    ASSUME database \in Databases, NEW i \in AnyItem
    PROVE  Listed(i) \subseteq AnyItem
  <1> SUFFICES ASSUME NEW q \in DOMAIN database
               PROVE  /\ Append(i.uuids, database[q].uuids[Len(database[q].uuids)]) \in Seq(Uuid)
                      /\ q \in Path
    BY DEF Listed, Children, AnyItem
  <1>1. q \in Path /\ database[q].uuids \in Seq(Uuid) /\ Len(database[q].uuids) \in 1..3
    BY DatabaseTree
  <1> DEFINE u == database[q].uuids
  <1>2. u \in Seq(Uuid) /\ \E n \in 1..3 : Len(u) = n
    BY <1>1
  <1> HIDE DEF u
  <1>3. u[Len(u)] \in Uuid
    BY <1>2
  <1> QED BY <1>1, <1>3 DEF AnyItem, u

\* The path to a characteristic that nothing hides.
LEMMA PlainPath ==
    ASSUME database \in Databases, NEW p \in Path, Plain(p)
    PROVE  LET s == database[p].parent
           IN  /\ s \in DOMAIN database /\ database[s].parent = Root /\ Len(database[s].uuids) = 1
               /\ database[s].uuids = SubSeq(database[p].uuids, 1, 1)
               /\ \A q \in DOMAIN database : database[q].uuids = database[s].uuids => q = s
               /\ \A q \in DOMAIN database : database[q].uuids = database[p].uuids => q = p
  <1> DEFINE s == database[p].parent
  <1>1. p \in DOMAIN database /\ Len(database[p].uuids) = 2 /\ ~ Hidden(p)
    BY DEF Plain
  <1>2. /\ s \in DOMAIN database /\ database[s].uuids = SubSeq(database[p].uuids, 1, 2 - 1)
        /\ Len(database[s].uuids) = 1
    <2> HIDE DEF s
    <2>1. \A q \in DOMAIN database : Len(database[q].uuids) # 1 =>
             /\ database[q].parent \in DOMAIN database
             /\ database[database[q].parent].uuids = SubSeq(database[q].uuids, 1, Len(database[q].uuids) - 1)
             /\ Len(database[database[q].parent].uuids) = Len(database[q].uuids) - 1
      BY DatabaseTree
    <2>2. p \in DOMAIN database /\ Len(database[p].uuids) # 1
      BY <1>1
    <2>3. /\ database[p].parent \in DOMAIN database
          /\ database[database[p].parent].uuids = SubSeq(database[p].uuids, 1, Len(database[p].uuids) - 1)
          /\ Len(database[database[p].parent].uuids) = Len(database[p].uuids) - 1
      BY <2>1, <2>2, Zenon
    <2> QED BY <1>1, <2>3 DEF s
  <1>3. database[s].parent = Root
    BY <1>2, DatabaseTree
  <1>4. \A q \in DOMAIN database : database[q].uuids = database[p].uuids => q = p
    BY <1>1 DEF Hidden
  <1>5. \A q \in DOMAIN database : database[q].uuids = database[s].uuids => q = s
    <2> SUFFICES ASSUME NEW q \in DOMAIN database, database[q].uuids = database[s].uuids, q # s
                 PROVE  FALSE
      OBVIOUS
    <2>1. q # p
      BY <1>1, <1>2
    <2> QED BY <1>1, <2>1 DEF Hidden
  <1> QED BY <1>2, <1>3, <1>4, <1>5

\* session.get_services.
LEMMA BluezDiscovers ==
    ASSUME BluezInv, NEW c \in BluezCall, Discovers(c)
    PROVE  BluezInv'
  <1>0. /\ BluezTypeOK /\ notifying \subseteq {p \in DOMAIN database : Len(database[p].uuids) = 2}
    BY DEF BluezInv
  <1>1. /\ notifying' = notifying
        /\ UNCHANGED <<database, changes, services, events, since, delivered>>
    BY DEF Discovers
  <1> DEFINE todo == Listed([uuids |-> <<>>, path |-> Root])
  <1>2. PICK o \in Object :
            LET w == [NoWork EXCEPT !.obj = o, !.since = changes]
            IN  Comes(c, "discovers", [w EXCEPT !.todo = todo]) \/ Comes(c, "failed", w)
    BY DEF Discovers
  <1> DEFINE w == [NoWork EXCEPT !.obj = o, !.since = changes]
             v == [w EXCEPT !.todo = todo]
  <1>3. /\ todo \subseteq Attributes(database)
        /\ \A p \in Path : Plain(p) => Shown(database[p].parent) \in todo
    <2>1. todo = {Shown(q) : q \in Children(Root)}
      BY <1>0, ListedAreShown DEF BluezTypeOK
    <2> HIDE DEF todo
    <2>2. todo \subseteq Attributes(database)
      BY <2>1 DEF Children, Shown, Attributes
    <2>3. ASSUME NEW p \in Path, Plain(p)
          PROVE  database[p].parent \in Children(Root)
      BY <1>0, <2>3, PlainPath DEF BluezTypeOK, Children
    <2> QED BY <2>1, <2>2, <2>3
  <1>4. todo \in SUBSET AnyItem
    BY <1>0, <1>3, AttributesAreItems DEF BluezTypeOK
  <1>5. Comes(c, "discovers", v) \/ Comes(c, "failed", w)
    BY <1>2
  <1> HIDE DEF todo
  <1>6. /\ w \in Work /\ w.obj = o /\ w.since = changes /\ w.todo = {} /\ w.gathered = {} /\ w.reached = <<>>
        /\ changes \in Int /\ changes <= changes
    <2>1. changes \in Int /\ changes <= changes
      BY <1>0 DEF BluezTypeOK
    <2> QED BY <2>1, NoWorkYet DEF Work
  <1> HIDE DEF w
  <1>7. /\ v \in Work /\ v.obj = o /\ v.since = changes /\ v.todo = todo /\ v.gathered = {} /\ v.reached = <<>>
    BY <1>4, <1>6 DEF Work
  <1> HIDE DEF v
  <1>8. CASE Comes(c, "discovers", v)
    BY <1>0, <1>1, <1>3, <1>6, <1>7, <1>8, BluezCallGoes
  <1>9. CASE Comes(c, "failed", w)
    BY <1>0, <1>1, <1>6, <1>9, BluezCallGoes
  <1> QED BY <1>5, <1>8, <1>9

\* session.get_characteristics and get_descriptors.
LEMMA BluezGathers ==
    ASSUME BluezInv, NEW c \in BluezCall, GetCharacteristics(c) \/ GetDescriptors(c)
    PROVE  BluezInv'
  <1>0. /\ BluezTypeOK /\ notifying \subseteq {p \in DOMAIN database : Len(database[p].uuids) = 2}
        /\ Discovering(c) /\ Asking(c)
    BY DEF BluezInv
  <1>1. /\ notifying' = notifying /\ stage[c] = "discovers"
        /\ UNCHANGED <<database, changes, services, events, since, delivered>>
    BY DEF GetCharacteristics, GetDescriptors
  <1>2. /\ work[c] \in Work /\ work[c].since <= changes /\ work[c].obj \in Object
        /\ work[c].reached = <<>>
    BY <1>0, <1>1 DEF BluezTypeOK, Asking
  <1>3. ASSUME Comes(c, "failed", work[c])
        PROVE  BluezInv'
    BY <1>0, <1>1, <1>2, <1>3, BluezCallGoes
  <1>4. ASSUME NEW todo \in SUBSET AnyItem, NEW gathered \in SUBSET AnyItem,
               Comes(c, "discovers", [work[c] EXCEPT !.todo = todo, !.gathered = gathered]),
               work[c].since = changes =>
                  /\ todo \subseteq Attributes(database) /\ gathered \subseteq Attributes(database)
                  /\ \A p \in Path : Plain(p) => Shown(database[p].parent) \in todo \/ Shown(p) \in gathered
        PROVE  BluezInv'
    <2> DEFINE w == [work[c] EXCEPT !.todo = todo, !.gathered = gathered]
    <2>1. /\ w \in Work
          /\ w.since = work[c].since /\ w.obj = work[c].obj /\ w.reached = work[c].reached /\ w.todo = todo
          /\ w.gathered = gathered
      BY <1>2 DEF Work
    <2>2. Comes(c, "discovers", w)
      BY <1>4
    <2> HIDE DEF w
    <2> QED BY <1>0, <1>1, <1>2, <1>4, <2>1, <2>2, BluezCallGoes
  <1>5. work[c].since = changes =>
          /\ work[c].todo \subseteq Attributes(database) /\ work[c].gathered \subseteq Attributes(database)
          /\ \A p \in Path : Plain(p) =>
                Shown(database[p].parent) \in work[c].todo \/ Shown(p) \in work[c].gathered
    BY <1>0, <1>1 DEF Discovering
  <1>6. ASSUME NEW i \in work[c].todo, i \in Attributes(database), NEW kept, kept \subseteq Listed(i)
        PROVE  /\ kept \subseteq Attributes(database)
               /\ i = Shown(i.path) /\ i.path \in DOMAIN database
    <2>1. Listed(i) \subseteq Attributes(database)
      BY <1>0, <1>6, ListedAreShown DEF BluezTypeOK, Children, Shown, Attributes
    <2>2. i = Shown(i.path) /\ i.path \in DOMAIN database
      BY <1>6 DEF Attributes, Shown
    <2> QED BY <1>6, <2>1, <2>2
  <1>11. \A i \in work[c].todo : i \in AnyItem /\ Listed(i) \subseteq AnyItem
    BY <1>0, <1>2, ListedAreItems DEF Work, BluezTypeOK
  <1>7. ASSUME NEW i \in work[c].todo, Len(i.uuids) = 1, NEW kept \in SUBSET Listed(i), Collected(Listed(i), kept),
               Comes(c, "discovers", [work[c] EXCEPT !.todo = (@ \ {i}) \cup kept,
                                                     !.gathered = InsertService(@, i, kept)])
        PROVE  BluezInv'
    <2> DEFINE todo == (work[c].todo \ {i}) \cup kept
               gathered == InsertService(work[c].gathered, i, kept)
    <2>1. Comes(c, "discovers", [work[c] EXCEPT !.todo = todo, !.gathered = gathered])
      BY <1>7
    <2>3. todo \in SUBSET AnyItem /\ gathered \in SUBSET AnyItem
      BY <1>2, <1>7, <1>11 DEF Work, InsertService
    <2>2. ASSUME work[c].since = changes
          PROVE  /\ todo \subseteq Attributes(database) /\ gathered \subseteq Attributes(database)
                 /\ \A p \in Path : Plain(p) => Shown(database[p].parent) \in todo \/ Shown(p) \in gathered
      <3>1. i \in Attributes(database) /\ work[c].gathered \subseteq Attributes(database)
            /\ work[c].todo \subseteq Attributes(database)
        BY <1>5, <2>2
      <3>2. /\ kept \subseteq Attributes(database)
            /\ i = Shown(i.path) /\ i.path \in DOMAIN database
        BY <1>6, <3>1
      <3>3. todo \subseteq Attributes(database) /\ gathered \subseteq Attributes(database)
        BY <3>1, <3>2 DEF InsertService
      <3>4. ASSUME NEW p \in Path, Plain(p)
            PROVE  Shown(database[p].parent) \in todo \/ Shown(p) \in gathered
        <4> DEFINE s == database[p].parent
        <4>1. /\ s \in DOMAIN database /\ Len(database[s].uuids) = 1
              /\ database[s].uuids = SubSeq(database[p].uuids, 1, 1)
              /\ \A q \in DOMAIN database : database[q].uuids = database[s].uuids => q = s
              /\ \A q \in DOMAIN database : database[q].uuids = database[p].uuids => q = p
              /\ p \in DOMAIN database
          BY <1>0, <3>4, PlainPath DEF BluezTypeOK, Plain
        <4>2. CASE i = Shown(s)
          <5>1. i.path = s
            BY <4>2 DEF Shown
          <5>2. p \in Children(i.path)
            BY <4>1, <5>1 DEF Children
          <5>3. Shown(p) \in Listed(i)
            BY <1>0, <3>1, <5>2, ListedAreShown DEF BluezTypeOK
          <5>4. PICK j \in kept : Shown(p).uuids = j.uuids
            BY <1>7, <5>3 DEF Collected
          <5>5. PICK q \in DOMAIN database : j = Shown(q)
            BY <3>2, <5>4 DEF Attributes, Shown
          <5>6. q = p
            BY <4>1, <5>4, <5>5 DEF Shown
          <5> QED BY <5>4, <5>5, <5>6 DEF InsertService
        <4>3. CASE i # Shown(s)
          <5>1. CASE Shown(s) \in work[c].todo
            BY <4>3, <5>1
          <5>2. CASE Shown(p) \in work[c].gathered
            <6>1. i.uuids = database[i.path].uuids /\ i.path # s
              BY <3>2, <4>3 DEF Shown
            <6>2. i.uuids # database[s].uuids
              BY <3>2, <4>1, <6>1
            <6>3. ~ Below(i.uuids, Shown(p))
              BY <1>7, <4>1, <6>2 DEF Below, Shown
            <6> QED BY <5>2, <6>3 DEF InsertService
          <5> QED BY <1>5, <2>2, <3>4, <5>1, <5>2
        <4> QED BY <4>2, <4>3
      <3> QED BY <3>3, <3>4
    <2> HIDE DEF todo, gathered
    <2> QED BY <1>4, <2>1, <2>2, <2>3
  <1>8. ASSUME NEW i \in work[c].todo, Len(i.uuids) = 2, NEW kept \in SUBSET Listed(i),
               Comes(c, "discovers", [work[c] EXCEPT !.todo = @ \ {i}, !.gathered = @ \cup kept])
        PROVE  BluezInv'
    <2> DEFINE todo == work[c].todo \ {i}
               gathered == work[c].gathered \cup kept
    <2>1. Comes(c, "discovers", [work[c] EXCEPT !.todo = todo, !.gathered = gathered])
      BY <1>8
    <2>3. todo \in SUBSET AnyItem /\ gathered \in SUBSET AnyItem
      BY <1>2, <1>8, <1>11 DEF Work
    <2>2. ASSUME work[c].since = changes
          PROVE  /\ todo \subseteq Attributes(database) /\ gathered \subseteq Attributes(database)
                 /\ \A p \in Path : Plain(p) => Shown(database[p].parent) \in todo \/ Shown(p) \in gathered
      <3>1. i \in Attributes(database)
        BY <1>5, <2>2
      <3>2. kept \subseteq Attributes(database)
        BY <1>6, <3>1
      <3>3. ASSUME NEW p \in Path, Plain(p)
            PROVE  Shown(database[p].parent) # i
        <4>1. Len(database[database[p].parent].uuids) = 1
          BY <1>0, <3>3, PlainPath DEF BluezTypeOK
        <4> QED BY <1>8, <4>1 DEF Shown
      <3> QED BY <1>5, <2>2, <3>2, <3>3
    <2> HIDE DEF todo, gathered
    <2> QED BY <1>4, <2>1, <2>2, <2>3
  <1>9. CASE GetCharacteristics(c)
    BY <1>3, <1>7, <1>9 DEF GetCharacteristics
  <1>10. CASE GetDescriptors(c)
    BY <1>8, <1>10 DEF GetDescriptors
  <1> QED BY <1>9, <1>10

\* The map is replaced.
LEMMA BluezReplaces ==
    ASSUME BluezInv, NEW c \in BluezCall, Replaces(c)
    PROVE  BluezInv'
  <1>0. /\ BluezTypeOK /\ notifying \subseteq {p \in DOMAIN database : Len(database[p].uuids) = 2}
        /\ \A k \in BluezCall : Discovering(k) /\ Asking(k)
        /\ \A o \in Object : MapTrue(o) /\ EventsTrue(o) /\ DeliveredTrue(o)
    BY DEF BluezInv
  <1> DEFINE u == work[c].obj
  <1>1. /\ stage[c] = "discovers" /\ work[c].todo = {}
        /\ services' = [services EXCEPT ![u] = work[c].gathered]
        /\ since' = [since EXCEPT ![u] = work[c].since]
        /\ stage' = [stage EXCEPT ![c] = "done"]
        /\ UNCHANGED <<database, changes, notifying, work, events, delivered>>
    BY DEF Replaces
  <1>2. /\ u \in Object /\ work[c].since \in Int /\ work[c].since <= changes
        /\ work[c].gathered \in SUBSET AnyItem
    BY <1>0, <1>1 DEF BluezTypeOK, Work
  <1> HIDE DEF u
  <1>3. /\ services' \in [Object -> SUBSET AnyItem] /\ since' \in [Object -> Int]
        /\ services'[u] = work[c].gathered /\ since'[u] = work[c].since
        /\ \A o \in Object : o # u => services'[o] = services[o] /\ since'[o] = since[o]
    BY <1>0, <1>1, <1>2 DEF BluezTypeOK
  <1>4. /\ stage' \in [BluezCall -> {"idle", "discovers", "asks", "done", "failed"}]
        /\ stage'[c] = "done" /\ \A k \in BluezCall : k # c => stage'[k] = stage[k]
    BY <1>0, <1>1 DEF BluezTypeOK
  <1>5. BluezTypeOK'
    BY <1>0, <1>1, <1>2, <1>3, <1>4 DEF BluezTypeOK
  <1>6. /\ \A p : Plain(p)' <=> Plain(p)
        /\ \A p : Shown(p)' = Shown(p)
        /\ \A p : Hidden(p)' <=> Hidden(p)
    BY <1>1 DEF Plain, Hidden, Shown
  <1>7. \A k \in BluezCall : Discovering(k)' /\ Asking(k)'
    BY <1>0, <1>1, <1>4, <1>6 DEF Discovering, Asking
  <1>8. \A o \in Object : MapTrue(o)'
    <2> SUFFICES ASSUME NEW o \in Object, since'[o] = changes
                 PROVE  /\ services'[o] \subseteq Attributes(database)
                        /\ \A p \in Path : Plain(p) => Shown(p) \in services'[o]
      BY <1>1, <1>6 DEF MapTrue
    <2>1. CASE o = u
      BY <1>0, <1>1, <1>3, <2>1 DEF Discovering
    <2>2. CASE o # u
      BY <1>0, <1>3, <2>2 DEF MapTrue
    <2> QED BY <2>1, <2>2
  <1>9. \A o \in Object : EventsTrue(o)' /\ DeliveredTrue(o)'
    BY <1>0, <1>1, <1>6 DEF EventsTrue, EventTrue, DeliveredTrue
  <1>10. notifying' \subseteq {p \in DOMAIN database' : Len(database'[p].uuids) = 2}
    BY <1>0, <1>1
  <1> QED BY <1>5, <1>7, <1>8, <1>9, <1>10 DEF BluezInv

\* An operation on an attribute.
LEMMA BluezAsks ==
    ASSUME BluezInv, NEW c \in BluezCall, LooksUp(c) \/ Reaches(c)
    PROVE  BluezInv'
  <1>0. /\ BluezTypeOK /\ notifying \subseteq {p \in DOMAIN database : Len(database[p].uuids) = 2}
        /\ Asking(c) /\ \A o \in Object : MapTrue(o)
    BY DEF BluezInv
  <1>1. ASSUME LooksUp(c)
        PROVE  BluezInv'
    <2>1. UNCHANGED <<database, changes, notifying, services, events, since, delivered>>
      BY <1>1 DEF LooksUp
    <2>2. PICK o \in Object, uuids \in {i.uuids : i \in UNION {Attributes(db) : db \in Databases}} :
              LET w == [NoWork EXCEPT !.obj = o, !.uuids = uuids, !.since = since[o]]
              IN  IF Info(o, uuids) = {} THEN Comes(c, "failed", w)
                  ELSE \E i \in Info(o, uuids) : Comes(c, "asks", [w EXCEPT !.path = i.path])
      BY <1>1 DEF LooksUp
    <2>3. uuids \in Seq(Uuid)
      <3>1. PICK db \in Databases : \E i \in Attributes(db) : uuids = i.uuids
        BY <2>2
      <3> QED BY <3>1, AttributesAreItems DEF AnyItem
    <2> DEFINE w == [NoWork EXCEPT !.obj = o, !.uuids = uuids, !.since = since[o]]
    <2>4. since[o] \in Int /\ since[o] <= changes /\ services[o] \subseteq AnyItem
      BY <1>0 DEF BluezTypeOK
    <2>5. /\ w \in Work /\ w.obj = o /\ w.since = since[o] /\ w.uuids = uuids /\ w.reached = <<>>
      BY <2>3, <2>4, NoWorkYet DEF Work
    <2>6. Comes(c, "failed", w) \/ \E i \in Info(o, uuids) : Comes(c, "asks", [w EXCEPT !.path = i.path])
      BY <2>2
    <2> HIDE DEF w
    <2>7. CASE Comes(c, "failed", w)
      BY <1>0, <2>1, <2>4, <2>5, <2>7, BluezCallGoes
    <2>8. ASSUME NEW i \in Info(o, uuids), Comes(c, "asks", [w EXCEPT !.path = i.path])
          PROVE  BluezInv'
      <3> DEFINE v == [w EXCEPT !.path = i.path]
      <3>1. i \in services[o] /\ i.uuids = uuids /\ i \in AnyItem
        BY <2>4, <2>8 DEF Info
      <3>2. i = [uuids |-> i.uuids, path |-> i.path] /\ i.path \in Path
        BY <3>1 DEF AnyItem
      <3>3. /\ v \in Work /\ v.since = since[o] /\ v.uuids = uuids /\ v.reached = <<>> /\ v.path = i.path
        BY <2>5, <3>2 DEF Work
      <3>4. Comes(c, "asks", v)
        BY <2>8
      <3> HIDE DEF v
      <3>5. v.since = changes => [uuids |-> v.uuids, path |-> v.path] \in Attributes(database)
        BY <1>0, <3>1, <3>2, <3>3 DEF MapTrue
      <3> QED BY <1>0, <2>1, <2>4, <3>3, <3>4, <3>5, BluezCallGoes
    <2> QED BY <2>6, <2>7, <2>8
  <1>2. ASSUME Reaches(c)
        PROVE  BluezInv'
    <2>1. /\ UNCHANGED <<database, changes, services, events, since, delivered>>
          /\ stage[c] = "asks"
      BY <1>2 DEF Reaches
    <2>2. /\ work[c] \in Work /\ work[c].since <= changes /\ work[c].reached = <<>>
          /\ work[c].since = changes => [uuids |-> work[c].uuids, path |-> work[c].path] \in Attributes(database)
          /\ changes \in Nat /\ work[c].since \in Int
      BY <1>0, <2>1 DEF BluezTypeOK, Asking, Work
    <2>3. CASE Comes(c, "failed", work[c]) /\ notifying' = notifying
      BY <1>0, <2>1, <2>2, <2>3, BluezCallGoes
    <2>4. ASSUME NEW p, p = work[c].path, p \in DOMAIN database, Len(database[p].uuids) = Len(work[c].uuids),
                 Comes(c, "done", [work[c] EXCEPT !.reached = database[p].uuids,
                                                  !.since = IF @ = changes THEN @ ELSE -1]),
                 \/ notifying' = notifying
                 \/ /\ Len(work[c].uuids) = 2
                    /\ notifying' \in {notifying \cup {p}, notifying \ {p}}
          PROVE  BluezInv'
      <3> DEFINE n == IF work[c].since = changes THEN changes ELSE -1
                 w == [work[c] EXCEPT !.reached = database[p].uuids, !.since = n]
      <3>1. Comes(c, "done", w)
        BY <2>4
      <3>2. n \in Int /\ n <= changes
        BY <2>2
      <3>3. database[p].uuids \in Seq(Uuid)
        BY <1>0, <2>4, DatabaseTree DEF BluezTypeOK
      <3>4. n # -1 => work[c].since = changes
        OBVIOUS
      <3> HIDE DEF n
      <3>5. w \in Work /\ w.since = n /\ w.reached = database[p].uuids /\ w.uuids = work[c].uuids
        BY <2>2, <3>2, <3>3 DEF Work
      <3> HIDE DEF w
      <3>6. w.since # -1 => w.reached = w.uuids
        BY <2>2, <2>4, <3>4, <3>5 DEF Attributes
      <3>7. notifying' \subseteq {x \in DOMAIN database : Len(database[x].uuids) = 2}
        BY <1>0, <2>4
      <3> QED BY <2>1, <3>1, <3>2, <3>5, <3>6, <3>7, BluezCallGoes
    <2> QED BY <1>2, <2>3, <2>4 DEF Reaches
  <1> QED BY <1>1, <1>2

\* BlueZ changes the database or reports a value, and a stream is polled.
LEMMA BluezReports ==
    ASSUME BluezInv, DatabaseChanges \/ ValueReported \/ \E o \in Object : Notification(o)
    PROVE  BluezInv'
  <1>0. /\ BluezTypeOK /\ notifying \subseteq {p \in DOMAIN database : Len(database[p].uuids) = 2}
        /\ \A k \in BluezCall : Discovering(k) /\ Asking(k)
        /\ \A o \in Object : MapTrue(o) /\ EventsTrue(o) /\ DeliveredTrue(o)
    BY DEF BluezInv
  <1>1. ASSUME DatabaseChanges
        PROVE  BluezInv'
    <2>1. /\ database' \in Databases /\ changes' = changes + 1 /\ notifying' = {}
          /\ UNCHANGED <<services, stage, work, events, since, delivered>>
      BY <1>1 DEF DatabaseChanges
    <2>2. \A n \in Int : n <= changes => n # changes' /\ n <= changes'
      BY <1>0, <2>1 DEF BluezTypeOK
    <2>3. BluezTypeOK'
      BY <1>0, <2>1, <2>2 DEF BluezTypeOK, Work
    <2>4. \A k \in BluezCall : work[k].since # changes'
      BY <1>0, <2>2 DEF BluezTypeOK, Work
    <2>5. \A o \in Object : since[o] # changes'
      BY <1>0, <2>2 DEF BluezTypeOK
    <2>6. \A k \in BluezCall : Discovering(k)'
      BY <2>1, <2>4 DEF Discovering
    <2>7. \A k \in BluezCall : Asking(k)'
      BY <1>0, <2>1, <2>4 DEF Asking
    <2>8. \A o \in Object : MapTrue(o)'
      BY <2>1, <2>5 DEF MapTrue
    <2>9. \A e : EventTrue(e) => EventTrue(e)'
      BY <2>2 DEF EventTrue
    <2>10. \A o \in Object : EventsTrue(o)'
      BY <1>0, <2>1, <2>9 DEF EventsTrue
    <2>11. \A o \in Object : DeliveredTrue(o)'
      BY <1>0, <2>1, <2>2 DEF DeliveredTrue
    <2> QED BY <2>1, <2>3, <2>6, <2>7, <2>8, <2>10, <2>11 DEF BluezInv
  <1>2. ASSUME UNCHANGED <<database, changes, notifying, services, stage, work, since>>,
               DOMAIN events' = Object, DOMAIN delivered' = Object,
               \A o \in Object : EventsTrue(o)' /\ DeliveredTrue(o)'
        PROVE  BluezInv'
    <2>1. BluezTypeOK'
      BY <1>0, <1>2 DEF BluezTypeOK
    <2>2. /\ \A p : Plain(p)' <=> Plain(p)
          /\ \A p : Shown(p)' = Shown(p)
      BY <1>2 DEF Plain, Hidden, Shown
    <2>3. \A k \in BluezCall : Discovering(k)' /\ Asking(k)'
      BY <1>0, <1>2, <2>2 DEF Discovering, Asking
    <2>4. \A o \in Object : MapTrue(o)'
      BY <1>0, <1>2, <2>2 DEF MapTrue
    <2> QED BY <1>0, <1>2, <2>1, <2>3, <2>4 DEF BluezInv
  <1>3. ASSUME ValueReported
        PROVE  BluezInv'
    <2>1. PICK p \in notifying :
              events' = [o \in Object |-> <<[uuids |-> database[p].uuids, path |-> p, at |-> changes]>>]
      BY <1>3 DEF ValueReported
    <2>2. UNCHANGED <<database, changes, notifying, services, stage, work, since, delivered>>
      BY <1>3 DEF ValueReported
    <2>0. PICK e : e = [uuids |-> database[p].uuids, path |-> p, at |-> changes]
      OBVIOUS
    <2>3. EventTrue(e)'
      BY <1>0, <2>0, <2>1, <2>2 DEF EventTrue, BluezTypeOK
    <2>4. \A o \in Object : events'[o] = <<e>> /\ events'[o][1] = e
      BY <2>0, <2>1
    <2>5. \A o \in Object : EventsTrue(o)'
      BY <2>3, <2>4 DEF EventsTrue
    <2>6. \A o \in Object : DeliveredTrue(o)'
      BY <1>0, <2>2 DEF DeliveredTrue, Hidden
    <2> QED BY <1>0, <1>2, <2>1, <2>2, <2>5, <2>6 DEF BluezTypeOK
  <1>4. ASSUME NEW o \in Object, Notification(o)
        PROVE  BluezInv'
    <2> DEFINE e == Head(events[o])
    <2>1. PICK uuid \in IF FindCharacteristicById(o, e.path) = {} THEN {"dropped"}
                        ELSE {i.uuids[2] : i \in FindCharacteristicById(o, e.path)} :
              delivered' = [delivered EXCEPT ![o] = [event |-> e, uuid |-> uuid, since |-> since[o]]]
      BY <1>4 DEF Notification
    <2>2. /\ events[o] # <<>> /\ events' = [events EXCEPT ![o] = Tail(@)]
          /\ UNCHANGED <<database, changes, notifying, services, stage, work, since>>
      BY <1>4 DEF Notification
    <2>3. EventTrue(e) /\ Tail(events[o]) = <<>>
      <3>1. events[o] = <<events[o][1]>> /\ EventTrue(events[o][1])
        BY <1>0, <2>2 DEF EventsTrue
      <3>2. PICK x : events[o] = <<x>> /\ EventTrue(x)
        BY <3>1
      <3>3. Head(events[o]) = x /\ Tail(events[o]) = <<>>
        BY <3>2
      <3> QED BY <3>2, <3>3
    <2> HIDE DEF e
    <2>4. DOMAIN events' = Object /\ DOMAIN delivered' = Object
      BY <1>0, <2>1, <2>2 DEF BluezTypeOK
    <2>5. events'[o] = <<>> /\ \A u \in Object : u # o => events'[u] = events[u] /\ delivered'[u] = delivered[u]
      BY <1>0, <2>1, <2>2, <2>3 DEF BluezTypeOK
    <2>6. \A u \in Object : EventsTrue(u)'
      BY <1>0, <2>2, <2>5 DEF EventsTrue, EventTrue
    <2>7. \A u \in Object : u # o => DeliveredTrue(u)'
      BY <1>0, <2>2, <2>5 DEF DeliveredTrue, Hidden
    <2>8. delivered'[o] = [event |-> e, uuid |-> uuid, since |-> since[o]]
      BY <1>0, <2>1 DEF BluezTypeOK
    <2>9. e.at = changes /\ since[o] = changes => uuid = e.uuids[2] \/ (uuid = "dropped" /\ Hidden(e.path))
      <3> SUFFICES ASSUME e.at = changes, since[o] = changes
                   PROVE  uuid = e.uuids[2] \/ (uuid = "dropped" /\ Hidden(e.path))
        OBVIOUS
      <3>1. /\ e.path \in DOMAIN database /\ e.uuids = database[e.path].uuids /\ Len(e.uuids) = 2
        BY <2>3 DEF EventTrue
      <3>2. /\ services[o] \subseteq Attributes(database)
            /\ \A p \in Path : Plain(p) => Shown(p) \in services[o]
        BY <1>0 DEF MapTrue
      <3>3. CASE FindCharacteristicById(o, e.path) = {}
        <4>1. Shown(e.path) \notin services[o]
          BY <3>1, <3>3 DEF FindCharacteristicById, Shown
        <4>2. e.path \in Path
          BY <1>0, <3>1, DatabaseTree DEF BluezTypeOK
        <4>3. Hidden(e.path)
          BY <3>1, <3>2, <4>1, <4>2 DEF Plain
        <4> QED BY <2>1, <3>3, <4>3
      <3>4. CASE FindCharacteristicById(o, e.path) # {}
        <4>1. PICK i \in FindCharacteristicById(o, e.path) : uuid = i.uuids[2]
          BY <2>1, <3>4
        <4>2. i \in Attributes(database) /\ i.path = e.path
          BY <3>2, <4>1 DEF FindCharacteristicById
        <4>3. i.uuids = e.uuids
          BY <3>1, <4>2 DEF Attributes
        <4> QED BY <4>1, <4>3
      <3> QED BY <3>3, <3>4
    <2>10. DeliveredTrue(o)'
      <3>1. e.at \in Int /\ e.at <= changes
        BY <2>3 DEF EventTrue
      <3> QED BY <2>2, <2>8, <2>9, <3>1 DEF DeliveredTrue, Hidden
    <2> QED BY <1>2, <2>2, <2>4, <2>6, <2>7, <2>10
  <1> QED BY <1>1, <1>3, <1>4

\* Every step.
LEMMA BluezStep == BluezInv /\ [BluezNext]_bluezVars => BluezInv'
  <1> SUFFICES ASSUME BluezInv, [BluezNext]_bluezVars
               PROVE  BluezInv'
    OBVIOUS
  <1>1. CASE UNCHANGED bluezVars
    <2>1. UNCHANGED <<database, changes, notifying, services, stage, work, events, since, delivered>>
      BY <1>1 DEF bluezVars
    <2>2. BluezTypeOK'
      BY <2>1 DEF BluezInv, BluezTypeOK
    <2>3. /\ \A p : Plain(p)' <=> Plain(p)
          /\ \A p : Shown(p)' = Shown(p)
          /\ \A p : Hidden(p)' <=> Hidden(p)
      BY <2>1 DEF Plain, Hidden, Shown
    <2>4. /\ \A k \in BluezCall : Discovering(k)' /\ Asking(k)'
          /\ \A o \in Object : MapTrue(o)'
      BY <2>1, <2>3 DEF BluezInv, Discovering, Asking, MapTrue
    <2>5. \A o \in Object : EventsTrue(o)' /\ DeliveredTrue(o)'
      BY <2>1, <2>3 DEF BluezInv, EventsTrue, EventTrue, DeliveredTrue
    <2> QED BY <2>1, <2>2, <2>4, <2>5 DEF BluezInv
  <1>2. CASE DatabaseChanges \/ ValueReported \/ \E o \in Object : Notification(o)
    BY <1>2, BluezReports
  <1>3. ASSUME NEW c \in BluezCall,
               Discovers(c) \/ GetCharacteristics(c) \/ GetDescriptors(c) \/ Replaces(c) \/ LooksUp(c) \/ Reaches(c)
        PROVE  BluezInv'
    BY <1>3, BluezDiscovers, BluezGathers, BluezReplaces, BluezAsks
  <1> QED BY <1>1, <1>2, <1>3 DEF BluezNext

\* The invariant in the Linux backend, and among the others.
LEMMA BluezAlways == BluezSpec => []BluezInv
  <1> QED BY BluezStart, BluezStep, PTL DEF BluezSpec

\* A request reaches an attribute with the uuids that the client asked for, for any database
\* of the device and any number of calls and Peripheral objects, unless the database has
\* changed since the discovery of the map began.
THEOREM BluezReachesTheAsked == BluezSpec => []BluezReachesAsked
  <1>1. BluezInv => BluezReachesAsked
    BY DEF BluezInv, Asking, BluezReachesAsked
  <1> QED BY <1>1, BluezAlways, PTL

\* An event of a characteristic is delivered with its uuid by every object whose map was
\* discovered in the present database, unless another attribute hides it there.
THEOREM BluezDelivers == BluezSpec => []BluezNotifies
  <1>1. BluezInv => BluezNotifies
    BY DEF BluezInv, DeliveredTrue, BluezNotifies
  <1> QED BY <1>1, BluezAlways, PTL

----------------------------------------------------------------------------
(* The event stream of the Linux backend. *)

OurSignal == [signal : Signal, dev : Ours]

FirstSignal == [signal : {"Discovered", "Connected"}, dev : Ours]

BluezStreamTypeOK ==
    /\ known \in [Device -> {"absent", "present", "connected"}]
    /\ setup \in {"none", "first", "ready"}
    /\ queue \in Seq(OurSignal) /\ initial \in Seq(FirstSignal)
    /\ linked \subseteq Ours
    /\ setup # "ready" => linked = {} /\ initial = <<>>
    /\ setup = "none" => queue = <<>>

\* The i-th signal in the queue is about the connection of d.
OfLink(i, d) == queue[i].dev = d /\ queue[i].signal \in {"Connected", "Disconnected"}

\* The last of these tells whether d is connected.
LastTells(d) ==
    \A i \in 1..Len(queue) :
        OfLink(i, d) /\ (\A j \in 1..Len(queue) : j > i => ~ OfLink(j, d))
            => (queue[i].signal = "Connected" <=> known[d] = "connected")

\* Where no signal waits, the snapshot or what the reader knows tells it.
RestTells(d) ==
    setup = "ready" /\ (\A i \in 1..Len(queue) : ~ OfLink(i, d)) =>
        IF \E i \in 1..Len(initial) : initial[i].dev = d /\ initial[i].signal = "Connected"
        THEN known[d] = "connected"
        ELSE d \in linked <=> known[d] = "connected"

\* A device that BlueZ has was discovered, or will be.
WillDiscover(d) ==
    setup = "ready" /\ known[d] # "absent" =>
        \/ d \in discovered
        \/ \E i \in 1..Len(initial) : initial[i].dev = d /\ initial[i].signal = "Discovered"
        \/ \E i \in 1..Len(queue) : queue[i].dev = d /\ queue[i].signal = "Discovered"

BluezStreamInv ==
    /\ BluezStreamTypeOK
    /\ \A d \in Ours : LastTells(d)
    /\ \A d \in Ours \ missed : RestTells(d) /\ WillDiscover(d)

\* Nothing waits, and no stream is open.
LEMMA BluezStreamStart == BluezAdapterInit => BluezStreamInv
  <1> SUFFICES ASSUME BluezAdapterInit
               PROVE  BluezStreamInv
    OBVIOUS
  <1>1. /\ known \in [Device -> {"absent", "present", "connected"}] /\ setup = "none"
        /\ queue = <<>> /\ initial = <<>> /\ linked = {}
    BY DEF BluezAdapterInit
  <1>2. BluezStreamTypeOK
    BY <1>1 DEF BluezStreamTypeOK
  <1>3. \A d \in Ours : LastTells(d)
    BY <1>1 DEF LastTells
  <1>4. \A d \in Ours : RestTells(d) /\ WillDiscover(d)
    BY <1>1 DEF RestTells, WillDiscover
  <1> QED BY <1>2, <1>3, <1>4 DEF BluezStreamInv

\* A device changes.
LEMMA BluezDeviceChanges ==
    ASSUME BluezStreamInv, NEW d \in Device, DeviceChanges(d)
    PROVE  BluezStreamInv'
  <1>0. /\ BluezStreamTypeOK /\ \A x \in Ours : LastTells(x)
        /\ \A x \in Ours \ missed : RestTells(x) /\ WillDiscover(x)
    BY DEF BluezStreamInv
  <1>1. PICK from \in {"absent", "present", "connected"}, to \in {"absent", "present", "connected"} :
            /\ known[d] = from
            /\ <<from, to>> \notin {<<"absent", "absent">>, <<"absent", "connected">>,
                                    <<"connected", "connected">>, <<"connected", "absent">>}
            /\ known' = [known EXCEPT ![d] = to]
            /\ queue' = IF d \in Ours /\ setup # "none"
                        THEN Append(queue, [signal |-> SignalOf(from, to), dev |-> d]) ELSE queue
    BY DEF DeviceChanges
  <1>2. UNCHANGED <<setup, initial, discovered, linked, missed>>
    BY DEF DeviceChanges
  <1> DEFINE sig == SignalOf(from, to)
  <1>3. /\ sig \in Signal
        /\ sig = "Discovered" <=> from = "absent"
        /\ sig = "Connected" <=> to = "connected"
        /\ sig = "Disconnected" <=> from = "connected"
        /\ from = "connected" => to = "present"
        /\ to = "connected" => from = "present"
    BY <1>1 DEF SignalOf, Signal
  <1>4. /\ known'[d] = to /\ \A x \in Device : x # d => known'[x] = known[x]
        /\ known' \in [Device -> {"absent", "present", "connected"}]
    BY <1>0, <1>1 DEF BluezStreamTypeOK
  <1> HIDE DEF sig
  <1>5. queue' = IF d \in Ours /\ setup # "none" THEN Append(queue, [signal |-> sig, dev |-> d]) ELSE queue
    BY <1>1 DEF sig
  <1>a. Ours \subseteq Device
    BY BluezAdapterAssumption
  <1>6. CASE ~ (d \in Ours /\ setup # "none")
    <2>1. queue' = queue
      BY <1>5, <1>6
    <2>2. BluezStreamTypeOK'
      BY <1>0, <1>2, <1>4, <2>1 DEF BluezStreamTypeOK
    <2>3. CASE setup = "none"
      <3>1. queue' = <<>> /\ setup' = "none"
        BY <1>0, <1>2, <2>1, <2>3 DEF BluezStreamTypeOK
      <3>2. \A x \in Ours : LastTells(x)'
        BY <3>1 DEF LastTells
      <3>3. \A x \in Ours \ missed : RestTells(x)' /\ WillDiscover(x)'
        BY <3>1 DEF RestTells, WillDiscover
      <3> QED BY <1>2, <2>2, <3>2, <3>3 DEF BluezStreamInv
    <2>4. CASE d \notin Ours
      <3>1. \A x \in Ours : known'[x] = known[x]
        BY <1>4, <1>a, <2>4
      <3>2. \A x \in Ours : LastTells(x)'
        BY <1>0, <2>1, <3>1 DEF LastTells, OfLink
      <3>3. \A x \in Ours \ missed : RestTells(x)' /\ WillDiscover(x)'
        BY <1>0, <1>2, <2>1, <3>1 DEF RestTells, WillDiscover, OfLink
      <3> QED BY <1>2, <2>2, <3>2, <3>3 DEF BluezStreamInv
    <2> QED BY <1>6, <2>3, <2>4
  <1>7. CASE d \in Ours /\ setup # "none"
    <2> DEFINE e == [signal |-> sig, dev |-> d]
    <2>0. PICK n \in Nat : n = Len(queue)
      BY <1>0 DEF BluezStreamTypeOK
    <2>1. queue' = Append(queue, e) /\ e \in OurSignal /\ e.signal = sig /\ e.dev = d
      BY <1>3, <1>5, <1>7 DEF OurSignal
    <2> HIDE DEF e
    <2>2. /\ queue' \in Seq(OurSignal)
          /\ Len(queue') = n + 1 /\ queue'[n + 1] = e
          /\ \A i \in 1..n : queue'[i] = queue[i]
      BY <1>0, <2>0, <2>1 DEF BluezStreamTypeOK
    <2>3. BluezStreamTypeOK'
      BY <1>0, <1>2, <1>4, <1>7, <2>2 DEF BluezStreamTypeOK
    <2>4. 1..n + 1 = 1..n \cup {n + 1} /\ n + 1 \notin 1..n /\ \A i \in 1..n : n + 1 > i
      BY <2>2
    <2>5. \A x : /\ OfLink(n + 1, x)' <=> x = d /\ sig \in {"Connected", "Disconnected"}
                /\ \A i \in 1..n : OfLink(i, x)' <=> OfLink(i, x)
      BY <2>1, <2>2 DEF OfLink
    <2>6. \A x \in Ours : x # d \/ sig \notin {"Connected", "Disconnected"}
                          => (known'[x] = "connected" <=> known[x] = "connected")
      BY <1>1, <1>3, <1>4, <1>a
    <2>7. ASSUME NEW x \in Ours
          PROVE  LastTells(x)'
      <3> SUFFICES ASSUME NEW i \in 1..n + 1, OfLink(i, x)',
                          \A j \in 1..n + 1 : j > i => ~ OfLink(j, x)'
                   PROVE  queue'[i].signal = "Connected" <=> known'[x] = "connected"
        BY <2>2 DEF LastTells
      <3>1. CASE i = n + 1
        BY <1>3, <1>4, <2>1, <2>2, <2>5, <3>1
      <3>2. CASE i # n + 1
        <4>1. i \in 1..n /\ ~ OfLink(n + 1, x)'
          BY <2>4, <3>2
        <4>2. OfLink(i, x) /\ \A j \in 1..n : j > i => ~ OfLink(j, x)
          BY <2>4, <2>5, <4>1
        <4>3. queue[i].signal = "Connected" <=> known[x] = "connected"
          BY <1>0, <2>0, <4>1, <4>2 DEF LastTells
        <4> QED BY <2>2, <2>5, <2>6, <4>1, <4>3
      <3> QED BY <3>1, <3>2
    <2>8. ASSUME NEW x \in Ours \ missed
          PROVE  RestTells(x)'
      <3> SUFFICES ASSUME setup = "ready", \A i \in 1..n + 1 : ~ OfLink(i, x)'
                   PROVE  IF \E i \in 1..Len(initial) : initial[i].dev = x /\ initial[i].signal = "Connected"
                          THEN known'[x] = "connected"
                          ELSE x \in linked <=> known'[x] = "connected"
        BY <1>2, <2>2 DEF RestTells
      <3>1. \A i \in 1..n : ~ OfLink(i, x)
        BY <2>4, <2>5
      <3>2. known'[x] = "connected" <=> known[x] = "connected"
        BY <2>4, <2>5, <2>6
      <3> QED BY <1>0, <2>0, <3>1, <3>2 DEF RestTells
    <2>9. ASSUME NEW x \in Ours \ missed
          PROVE  WillDiscover(x)'
      <3> SUFFICES ASSUME setup = "ready", known'[x] # "absent"
                   PROVE  \/ x \in discovered
                          \/ \E i \in 1..Len(initial) : initial[i].dev = x /\ initial[i].signal = "Discovered"
                          \/ \E i \in 1..n + 1 : queue'[i].dev = x /\ queue'[i].signal = "Discovered"
        BY <1>2, <2>2 DEF WillDiscover
      <3>1. CASE known[x] = "absent"
        <4>1. x = d /\ sig = "Discovered"
          BY <1>1, <1>3, <1>4, <1>a, <3>1
        <4> QED BY <2>1, <2>2, <2>4, <4>1
      <3>2. CASE known[x] # "absent"
        BY <1>0, <2>0, <2>2, <2>4, <3>2 DEF WillDiscover
      <3> QED BY <3>1, <3>2
    <2> QED BY <1>2, <2>3, <2>7, <2>8, <2>9 DEF BluezStreamInv
  <1> QED BY <1>6, <1>7

\* The subscription, and the snapshot.
LEMMA BluezOpens ==
    ASSUME BluezStreamInv, OpensStream
    PROVE  BluezStreamInv'
  <1>0. /\ BluezStreamTypeOK /\ \A x \in Ours : LastTells(x)
        /\ \A x \in Ours \ missed : RestTells(x) /\ WillDiscover(x)
    BY DEF BluezStreamInv
  <1>1. UNCHANGED <<known, queue, discovered, linked, missed>>
    BY DEF OpensStream, Subscribes
  <1>2. \A x \in Ours : LastTells(x)'
    BY <1>0, <1>1 DEF LastTells, OfLink
  <1>3. CASE setup = "none" /\ setup' = "first" /\ initial' = initial
    <2>1. BluezStreamTypeOK'
      BY <1>0, <1>1, <1>3 DEF BluezStreamTypeOK
    <2> QED BY <1>1, <1>2, <1>3, <2>1 DEF BluezStreamInv, RestTells, WillDiscover
  <1>4. CASE setup = "first" /\ setup' = "ready" /\ Snapshot
    <2>1. PICK q \in [1..Cardinality(Synthesised) -> Synthesised] :
              /\ \A e \in Synthesised : \E i \in DOMAIN q : q[i] = e
              /\ initial' = q
      BY <1>4 DEF Snapshot
    <2>2. IsFiniteSet(Synthesised)
      <3> DEFINE S == {"Discovered", "Connected"} \X Ours
                 f == [p \in S |-> [signal |-> p[1], dev |-> p[2]]]
                 T == {f[p] : p \in S}
      <3>1. IsFiniteSet({"Discovered"} \cup {"Connected"}) /\ IsFiniteSet(Ours)
        BY BluezAdapterAssumption, FS_Singleton, FS_AddElement
      <3>2. {"Discovered", "Connected"} = {"Discovered"} \cup {"Connected"}
        OBVIOUS
      <3>3. IsFiniteSet(S)
        BY <3>1, <3>2, FS_Product
      <3>4. f \in Surjection(S, T)
        BY DEF Surjection
      <3>5. IsFiniteSet(T)
        BY <3>3, <3>4, FS_Surjection
      <3>6. Synthesised \subseteq T
        <4> SUFFICES ASSUME NEW e \in Synthesised
                     PROVE  \E p \in S : f[p] = e
          OBVIOUS
        <4>1. e.signal \in {"Discovered", "Connected"} /\ e.dev \in Ours /\ e = [signal |-> e.signal, dev |-> e.dev]
          BY DEF Synthesised
        <4>2. <<e.signal, e.dev>> \in S /\ f[<<e.signal, e.dev>>] = e
          BY <4>1
        <4> QED BY <4>2
      <3> HIDE DEF T
      <3> QED BY <3>5, <3>6, FS_Subset
    <2>3. Cardinality(Synthesised) \in Nat
      BY <2>2, FS_CardinalityType
    <2>4. /\ q \in Seq(Synthesised) /\ DOMAIN q = 1..Len(q)
      BY <2>3
    <2>5. Synthesised \subseteq FirstSignal
      BY DEF Synthesised, FirstSignal
    <2>6. initial' \in Seq(FirstSignal)
      BY <2>1, <2>4, <2>5
    <2>7. BluezStreamTypeOK'
      BY <1>0, <1>1, <1>4, <2>6 DEF BluezStreamTypeOK
    <2>8. \A e : e \in Synthesised <=> \E i \in 1..Len(initial') : initial'[i] = e
      BY <2>1, <2>4
    <2>9. ASSUME NEW x \in Ours
          PROVE  /\ known[x] # "absent" <=> [signal |-> "Discovered", dev |-> x] \in Synthesised
                 /\ known[x] = "connected" <=> [signal |-> "Connected", dev |-> x] \in Synthesised
      BY BluezAdapterAssumption DEF Synthesised
    <2>10. ASSUME NEW x \in Ours
           PROVE  RestTells(x)' /\ WillDiscover(x)'
      <3>1. (\E i \in 1..Len(initial') : initial'[i].dev = x /\ initial'[i].signal = "Connected")
                <=> known[x] = "connected"
        <4>1. \A e \in Synthesised : e.dev = x /\ e.signal = "Connected" => e = [signal |-> "Connected", dev |-> x]
          BY DEF Synthesised
        <4>2. ASSUME NEW i \in 1..Len(initial'), initial'[i].dev = x, initial'[i].signal = "Connected"
              PROVE  known[x] = "connected"
          BY <2>8, <2>9, <4>1, <4>2
        <4>3. ASSUME known[x] = "connected"
              PROVE  \E i \in 1..Len(initial') : initial'[i].dev = x /\ initial'[i].signal = "Connected"
          <5>1. PICK i \in 1..Len(initial') : initial'[i] = [signal |-> "Connected", dev |-> x]
            BY <2>8, <2>9, <4>3
          <5> QED BY <5>1
        <4> QED BY <4>2, <4>3
      <3>2. x \notin linked
        BY <1>0, <1>4 DEF BluezStreamTypeOK
      <3>3. ASSUME known[x] # "absent"
            PROVE  \E i \in 1..Len(initial') : initial'[i].dev = x /\ initial'[i].signal = "Discovered"
        <4>1. PICK i \in 1..Len(initial') : initial'[i] = [signal |-> "Discovered", dev |-> x]
          BY <2>8, <2>9, <3>3
        <4> QED BY <4>1
      <3> QED BY <1>1, <3>1, <3>2, <3>3 DEF RestTells, WillDiscover
    <2> QED BY <1>1, <1>2, <2>7, <2>10 DEF BluezStreamInv
  <1> QED BY <1>3, <1>4 DEF OpensStream, Subscribes

\* The rest of a queue.
LEMMA RestOfQueue ==
    ASSUME NEW S, NEW q \in Seq(S), q # <<>>
    PROVE  /\ Head(q) = q[1] /\ q[1] \in S
           /\ Tail(q) \in Seq(S) /\ Len(Tail(q)) = Len(q) - 1 /\ Len(q) \in Nat /\ Len(q) >= 1
           /\ \A i \in 1..Len(q) : i = 1 \/ (i - 1 \in 1..Len(Tail(q)) /\ Tail(q)[i - 1] = q[i])
           /\ \A i \in 1..Len(Tail(q)) : i + 1 \in 1..Len(q) /\ Tail(q)[i] = q[i + 1]
OBVIOUS

\* The stream yields an event of the snapshot.
LEMMA BluezInitial ==
    ASSUME BluezStreamInv, InitialEvent
    PROVE  BluezStreamInv'
  <1>0. /\ BluezStreamTypeOK /\ \A x \in Ours : LastTells(x)
        /\ \A x \in Ours \ missed : RestTells(x) /\ WillDiscover(x)
    BY DEF BluezStreamInv
  <1>1. /\ setup = "ready" /\ initial # <<>> /\ initial' = Tail(initial)
        /\ UNCHANGED <<known, setup, queue, missed>>
        /\ Yields(Head(initial))
    BY DEF InitialEvent
  <1>2. PICK e \in FirstSignal : e = initial[1]
    BY <1>0, <1>1, RestOfQueue DEF BluezStreamTypeOK
  <1>3. /\ discovered' = IF e.signal = "Discovered" THEN discovered \cup {e.dev} ELSE discovered
        /\ e.signal = "Connected" => linked' = linked \cup {e.dev}
        /\ e.signal \notin {"Connected", "Disconnected"} => linked' = linked
        /\ e.dev \in Ours /\ e.signal # "Disconnected"
    BY <1>0, <1>1, <1>2, RestOfQueue DEF Yields, BluezStreamTypeOK, OurSignal, FirstSignal
  <1>4. /\ initial' \in Seq(FirstSignal)
        /\ \A i \in 1..Len(initial) : i = 1 \/ (i - 1 \in 1..Len(initial') /\ initial'[i - 1] = initial[i])
        /\ \A i \in 1..Len(initial') : i + 1 \in 1..Len(initial) /\ initial'[i] = initial[i + 1]
        /\ 1 \in 1..Len(initial)
    BY <1>0, <1>1, RestOfQueue DEF BluezStreamTypeOK
  <1>5. BluezStreamTypeOK'
    BY <1>0, <1>1, <1>3, <1>4 DEF BluezStreamTypeOK
  <1>6. \A x \in Ours : LastTells(x)'
    BY <1>0, <1>1 DEF LastTells, OfLink
  <1>7. ASSUME NEW x \in Ours \ missed
        PROVE  RestTells(x)'
    <2> SUFFICES ASSUME \A i \in 1..Len(queue) : ~ OfLink(i, x)
                 PROVE  IF \E i \in 1..Len(initial') : initial'[i].dev = x /\ initial'[i].signal = "Connected"
                        THEN known[x] = "connected"
                        ELSE x \in linked' <=> known[x] = "connected"
      BY <1>1 DEF RestTells, OfLink
    <2>1. IF \E i \in 1..Len(initial) : initial[i].dev = x /\ initial[i].signal = "Connected"
          THEN known[x] = "connected"
          ELSE x \in linked <=> known[x] = "connected"
      BY <1>0, <1>1 DEF RestTells
    <2>2. CASE \E i \in 1..Len(initial') : initial'[i].dev = x /\ initial'[i].signal = "Connected"
      <3>1. \E i \in 1..Len(initial) : initial[i].dev = x /\ initial[i].signal = "Connected"
        BY <1>4, <2>2
      <3> QED BY <2>1, <2>2, <3>1
    <2>3. CASE ~ \E i \in 1..Len(initial') : initial'[i].dev = x /\ initial'[i].signal = "Connected"
      <3>1. CASE e.dev = x /\ e.signal = "Connected"
        BY <1>2, <1>3, <1>4, <2>1, <2>3, <3>1
      <3>2. CASE ~ (e.dev = x /\ e.signal = "Connected")
        <4>1. ~ \E i \in 1..Len(initial) : initial[i].dev = x /\ initial[i].signal = "Connected"
          BY <1>2, <1>4, <2>3, <3>2
        <4>2. x \in linked' <=> x \in linked
          BY <1>2, <1>3, <3>2
        <4> QED BY <2>1, <2>3, <4>1, <4>2
      <3> QED BY <3>1, <3>2
    <2> QED BY <2>2, <2>3
  <1>8. ASSUME NEW x \in Ours \ missed
        PROVE  WillDiscover(x)'
    <2> SUFFICES ASSUME known[x] # "absent"
                 PROVE  \/ x \in discovered'
                        \/ \E i \in 1..Len(initial') : initial'[i].dev = x /\ initial'[i].signal = "Discovered"
                        \/ \E i \in 1..Len(queue) : queue[i].dev = x /\ queue[i].signal = "Discovered"
      BY <1>1 DEF WillDiscover
    <2>1. \/ x \in discovered
          \/ \E i \in 1..Len(initial) : initial[i].dev = x /\ initial[i].signal = "Discovered"
          \/ \E i \in 1..Len(queue) : queue[i].dev = x /\ queue[i].signal = "Discovered"
      BY <1>0, <1>1 DEF WillDiscover
    <2>2. ASSUME NEW i \in 1..Len(initial), initial[i].dev = x, initial[i].signal = "Discovered"
          PROVE  \/ x \in discovered'
                 \/ \E j \in 1..Len(initial') : initial'[j].dev = x /\ initial'[j].signal = "Discovered"
      BY <1>2, <1>3, <1>4, <2>2
    <2> QED BY <1>3, <2>1, <2>2
  <1> QED BY <1>1, <1>5, <1>6, <1>7, <1>8 DEF BluezStreamInv

\* The stream yields a signal, or drops it.
LEMMA BluezSignal ==
    ASSUME BluezStreamInv, SignalEvent
    PROVE  BluezStreamInv'
  <1>0. /\ BluezStreamTypeOK /\ \A x \in Ours : LastTells(x)
        /\ \A x \in Ours \ missed : RestTells(x) /\ WillDiscover(x)
    BY DEF BluezStreamInv
  <1>1. /\ setup = "ready" /\ initial = <<>> /\ queue # <<>> /\ queue' = Tail(queue)
        /\ UNCHANGED <<known, setup, initial>>
    BY DEF SignalEvent
  <1>2. PICK e \in OurSignal : e = queue[1]
    BY <1>0, <1>1, RestOfQueue DEF BluezStreamTypeOK
  <1>3. /\ missed \subseteq missed'
        /\ known[e.dev] = "absent" => e.signal = "Other" \/ e.dev \in missed'
        /\ discovered \subseteq discovered'
        /\ known[e.dev] # "absent" /\ e.signal = "Discovered" => e.dev \in discovered'
        /\ known[e.dev] # "absent" /\ e.signal = "Connected" => linked' = linked \cup {e.dev}
        /\ known[e.dev] # "absent" /\ e.signal = "Disconnected" => linked' = linked \ {e.dev}
        /\ known[e.dev] = "absent" \/ e.signal \notin {"Connected", "Disconnected"} => linked' = linked
        /\ e.dev \in Ours
    <2>1. e = Head(queue) /\ e.dev \in Ours
      BY <1>0, <1>1, <1>2, RestOfQueue DEF BluezStreamTypeOK, OurSignal
    <2>2. IF e.signal = "Other" THEN UNCHANGED <<discovered, linked, missed>>
          ELSE IF known[e.dev] = "absent"
               THEN missed' = missed \cup {e.dev} /\ UNCHANGED <<discovered, linked>>
               ELSE Yields(e) /\ UNCHANGED missed
      BY <2>1 DEF SignalEvent
    <2>3. CASE e.signal = "Other"
      BY <2>1, <2>2, <2>3
    <2>4. CASE e.signal # "Other" /\ known[e.dev] = "absent"
      BY <2>1, <2>2, <2>4
    <2>5. CASE e.signal # "Other" /\ known[e.dev] # "absent"
      BY <2>1, <2>2, <2>5 DEF Yields
    <2> QED BY <2>3, <2>4, <2>5
  <1>4. /\ queue' \in Seq(OurSignal)
        /\ \A i \in 1..Len(queue) : i = 1 \/ (i - 1 \in 1..Len(queue') /\ queue'[i - 1] = queue[i])
        /\ \A i \in 1..Len(queue') : i + 1 \in 1..Len(queue) /\ queue'[i] = queue[i + 1]
        /\ 1 \in 1..Len(queue)
    BY <1>0, <1>1, RestOfQueue DEF BluezStreamTypeOK
  <1>5. BluezStreamTypeOK'
    BY <1>0, <1>1, <1>3, <1>4 DEF BluezStreamTypeOK
  <1>6. ASSUME NEW x, NEW i \in 1..Len(queue')
        PROVE  /\ OfLink(i, x)' <=> OfLink(i + 1, x)
               /\ i + 1 \in 1..Len(queue)
    BY <1>4 DEF OfLink
  <1>7. ASSUME NEW x \in Ours
        PROVE  LastTells(x)'
    <2> SUFFICES ASSUME NEW i \in 1..Len(queue'), OfLink(i, x)',
                        \A j \in 1..Len(queue') : j > i => ~ OfLink(j, x)'
                 PROVE  queue'[i].signal = "Connected" <=> known[x] = "connected"
      BY <1>1 DEF LastTells
    <2>1. OfLink(i + 1, x) /\ i + 1 \in 1..Len(queue) /\ i \in Int
      BY <1>6
    <2>2. ASSUME NEW j \in 1..Len(queue), j > i + 1
          PROVE  ~ OfLink(j, x)
      <3>1. j # 1 /\ j \in Int
        BY <2>1, <2>2
      <3>2. j - 1 \in 1..Len(queue') /\ j - 1 > i /\ (j - 1) + 1 = j
        BY <1>4, <2>1, <2>2, <3>1
      <3> QED BY <1>6, <3>2
    <2>3. queue[i + 1].signal = "Connected" <=> known[x] = "connected"
      BY <1>0, <2>1, <2>2 DEF LastTells
    <2> QED BY <1>4, <2>3
  <1>8. ASSUME NEW x \in Ours, x \notin missed'
        PROVE  RestTells(x)'
    <2> SUFFICES ASSUME \A i \in 1..Len(queue') : ~ OfLink(i, x)'
                 PROVE  x \in linked' <=> known[x] = "connected"
      BY <1>1 DEF RestTells
    <2>1. \A j \in 1..Len(queue) : j > 1 => ~ OfLink(j, x)
      <3> SUFFICES ASSUME NEW j \in 1..Len(queue), j > 1
                   PROVE  ~ OfLink(j, x)
        OBVIOUS
      <3>1. j - 1 \in 1..Len(queue') /\ (j - 1) + 1 = j
        BY <1>4
      <3> QED BY <1>6, <3>1
    <2>2. CASE OfLink(1, x)
      <3>1. e.signal = "Connected" <=> known[x] = "connected"
        BY <1>0, <1>2, <1>4, <2>1, <2>2 DEF LastTells
      <3>2. e.dev = x /\ e.signal \in {"Connected", "Disconnected"}
        BY <1>2, <2>2 DEF OfLink
      <3> QED BY <1>3, <1>8, <3>1, <3>2
    <2>3. CASE ~ OfLink(1, x)
      <3>1. \A j \in 1..Len(queue) : ~ OfLink(j, x)
        BY <2>1, <2>3
      <3>2. x \in linked <=> known[x] = "connected"
        BY <1>0, <1>1, <1>3, <1>8, <3>1 DEF RestTells
      <3>3. x \in linked' <=> x \in linked
        BY <1>2, <1>3, <2>3 DEF OfLink
      <3> QED BY <3>2, <3>3
    <2> QED BY <2>2, <2>3
  <1>9. ASSUME NEW x \in Ours, x \notin missed'
        PROVE  WillDiscover(x)'
    <2> SUFFICES ASSUME known[x] # "absent"
                 PROVE  \/ x \in discovered'
                        \/ \E i \in 1..Len(queue') : queue'[i].dev = x /\ queue'[i].signal = "Discovered"
      BY <1>1 DEF WillDiscover
    <2>1. \/ x \in discovered
          \/ \E i \in 1..Len(queue) : queue[i].dev = x /\ queue[i].signal = "Discovered"
      BY <1>0, <1>1, <1>3, <1>9 DEF WillDiscover
    <2>2. ASSUME NEW i \in 1..Len(queue), queue[i].dev = x, queue[i].signal = "Discovered"
          PROVE  \/ x \in discovered'
                 \/ \E j \in 1..Len(queue') : queue'[j].dev = x /\ queue'[j].signal = "Discovered"
      BY <1>2, <1>3, <1>4, <2>2
    <2> QED BY <1>3, <2>1, <2>2
  <1> QED BY <1>5, <1>7, <1>8, <1>9 DEF BluezStreamInv

\* Every step.
LEMMA BluezStreamStep == BluezStreamInv /\ [BluezAdapterNext]_bluezAdapterVars => BluezStreamInv'
  <1> SUFFICES ASSUME BluezStreamInv, [BluezAdapterNext]_bluezAdapterVars
               PROVE  BluezStreamInv'
    OBVIOUS
  <1>1. CASE StartStopScan \/ UNCHANGED bluezAdapterVars
    <2>1. UNCHANGED <<known, setup, queue, initial, discovered, linked, missed>>
      BY <1>1 DEF StartStopScan, bluezAdapterVars
    <2> QED BY <2>1 DEF BluezStreamInv, BluezStreamTypeOK, LastTells, RestTells, WillDiscover, OfLink
  <1> QED BY <1>1, BluezDeviceChanges, BluezOpens, BluezInitial, BluezSignal DEF BluezAdapterNext

\* A reader of the event stream of the Linux backend that has read all of it has seen every
\* device discovered and knows which are connected, for any number of devices and changes,
\* unless an event of the device was dropped because the device was gone.
THEOREM BluezStreamTells == BluezAdapterSpec => []BluezStreamTruth
  <1>1. BluezAdapterSpec => []BluezStreamInv
    BY BluezStreamStart, BluezStreamStep, PTL DEF BluezAdapterSpec
  <1>2. BluezStreamInv => BluezStreamTruth
    <2> SUFFICES ASSUME BluezStreamInv, setup = "ready", initial = <<>>, queue = <<>>, NEW d \in Device \ missed
                 PROVE  /\ known[d] # "absent" /\ d \in Ours => d \in discovered
                        /\ d \in linked <=> known[d] = "connected" /\ d \in Ours
      BY DEF BluezStreamTruth
    <2>1. linked \subseteq Ours
      BY DEF BluezStreamInv, BluezStreamTypeOK
    <2>2. CASE d \in Ours
      BY <2>2 DEF BluezStreamInv, RestTells, WillDiscover
    <2> QED BY <2>1, <2>2
  <1> QED BY <1>1, <1>2, PTL
=============================================================================
