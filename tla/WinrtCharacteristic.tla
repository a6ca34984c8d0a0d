------------------------ MODULE WinrtCharacteristic ------------------------
(***************************************************************************)
(* One characteristic of the Windows backend (src/src/winrtble/ble/        *)
(* characteristic.rs, and its callers in src/src/winrtble/peripheral.rs).  *)
(*                                                                         *)
(* subscribe() and unsubscribe() keep a mutable reference into the map of  *)
(* services (dashmap::RefMut) across the write of the client configuration *)
(* descriptor, so that they exclude each other, the requests that read the *)
(* map, and disconnect().  Windows, external, goes on with a write whose   *)
(* call was dropped.                                                       *)
(***************************************************************************)
EXTENDS Integers

CONSTANTS
    NotifyCall,    \* the calls of clients, each made once; one that subscribes names its handler
    NoHandler

ASSUME WinrtCharacteristicAssumption == NoHandler \notin NotifyCall

VARIABLES
    present,       \* the map has the service with the characteristic
    notify_token,
    handlers,      \* the handlers registered for ValueChanged, those of dropped objects included
    configured,    \* the last value Windows wrote to the descriptor: notifications are on
    phase,         \* phase[c]: what call c is doing
    orphans,       \* the values that writes of dropped calls have yet to write
    \* for the properties only
    lost,          \* the handlers whose token was forgotten while they were registered
    lastOk         \* the last call of the object that ended, if it was Ok and no write was orphaned

winrtCharacteristicVars ==
    <<present, notify_token, handlers, configured, phase, orphans, lost, lastOk>>

Phase == {"idle", "reads", "subscribes", "unsubscribes", "done"}

WinrtCharacteristicInit ==
    /\ present = FALSE
    /\ notify_token = NoHandler
    /\ handlers = {}
    /\ configured = FALSE
    /\ phase = [c \in NotifyCall |-> "idle"]
    /\ orphans = {}
    /\ lost = {} /\ lastOk = "none"

PhaseOf(c, p) == phase' = [phase EXCEPT ![c] = p]

\* get_mut waits for every reference, get for a mutable one.
Unreferenced == \A c \in NotifyCall : phase[c] \in {"idle", "done"}
Readable     == \A c \in NotifyCall : phase[c] \notin {"subscribes", "unsubscribes"}

\* discover_services inserts the service.
CreatesCharacteristic ==
    /\ ~ present
    /\ present' = TRUE
    /\ notify_token' = NoHandler
    /\ UNCHANGED <<handlers, configured, phase, orphans, lost, lastOk>>

\* read, write, read_descriptor, write_descriptor
ReadsOrWrites(c) ==
    /\ phase[c] = "idle" /\ present /\ Readable
    /\ PhaseOf(c, "reads")
    /\ UNCHANGED <<present, notify_token, handlers, configured, orphans, lost, lastOk>>

\* The token that is kept, if there is one.
KeptToken == {notify_token} \ {NoHandler}

\* subscribe registers a handler, which Windows may refuse, and overwrites the token; then the
\* characteristic may turn out to have neither notifications nor indications.
WinrtSubscribe(c) ==
    /\ phase[c] = "idle" /\ present /\ Unreferenced
    /\ \/ PhaseOf(c, "done") /\ UNCHANGED <<notify_token, handlers, lost>>
       \/ /\ handlers' = handlers \cup {c}
          /\ notify_token' = c
          /\ lost' = lost \cup KeptToken
          /\ PhaseOf(c, "subscribes") \/ PhaseOf(c, "done")
    /\ lastOk' = "none"
    /\ UNCHANGED <<present, configured, orphans>>

\* Seeded fault: the token is forgotten, and the handler stays.
ForgetsHandler == handlers

\* RemoveValueChanged(token)
RemovesHandler == handlers \ {notify_token}

\* unsubscribe; RemoveValueChanged and the request of the write may fail.
WinrtUnsubscribe(c) ==
    /\ phase[c] = "idle" /\ present /\ Unreferenced
    /\ \/ /\ notify_token # NoHandler
          /\ PhaseOf(c, "done")
          /\ UNCHANGED <<notify_token, handlers>>
       \/ /\ handlers' = RemovesHandler
          /\ notify_token' = NoHandler
          /\ PhaseOf(c, "unsubscribes") \/ PhaseOf(c, "done")
    /\ lastOk' = "none"
    /\ UNCHANGED <<present, configured, orphans, lost>>

\* The request of call c is answered.
Answered(c) ==
    /\ phase[c] \notin {"idle", "done"}
    /\ PhaseOf(c, "done")
    /\ \/ UNCHANGED <<configured, lastOk>>
       \/ /\ phase[c] # "reads"
          /\ configured' = (phase[c] = "subscribes")
          /\ lastOk' = phase[c]
    /\ UNCHANGED <<present, notify_token, handlers, orphans, lost>>

\* The client drops the call, and with it the reference.
DropsCall(c) ==
    /\ phase[c] \notin {"idle", "done"}
    /\ PhaseOf(c, "done")
    /\ orphans' = IF phase[c] = "reads" THEN orphans ELSE orphans \cup {phase[c] = "subscribes"}
    /\ UNCHANGED <<present, notify_token, handlers, configured, lost, lastOk>>

OrphanWrites ==
    /\ \E on \in orphans : configured' = on /\ orphans' = orphans \ {on}
    /\ lastOk' = "none"
    /\ UNCHANGED <<present, notify_token, handlers, phase, lost>>

\* disconnect clears the map, and drops what is in it; Drop passes over a RemoveValueChanged
\* that fails, and the token is gone.
ClearsServices ==
    /\ present /\ Unreferenced
    /\ present' = FALSE
    /\ \/ handlers' = RemovesHandler /\ UNCHANGED lost
       \/ lost' = lost \cup KeptToken /\ UNCHANGED handlers
    /\ notify_token' = NoHandler
    /\ lastOk' = "none"
    /\ UNCHANGED <<configured, phase, orphans>>

WinrtCharacteristicNext ==
    \/ CreatesCharacteristic \/ OrphanWrites \/ ClearsServices
    \/ \E c \in NotifyCall : \/ ReadsOrWrites(c) \/ WinrtSubscribe(c) \/ WinrtUnsubscribe(c)
                             \/ Answered(c) \/ DropsCall(c)

WinrtCharacteristicSpec ==
    WinrtCharacteristicInit /\ [][WinrtCharacteristicNext]_winrtCharacteristicVars

----------------------------------------------------------------------------
(* Properties *)

\* Only the handler whose token is kept delivers values, beside those that are lost: a second
\* subscribe() overwrites the token of the first, and the drop of a characteristic passes over
\* an error.  So a subscribe() that failed, an unsubscribe() that failed at any step or a call
\* that was dropped leaves no handler that a later unsubscribe() or disconnect() would miss.
\* After a subscribe() that returned Ok, and until the next call, its handler is registered
\* and the device is set to notify; after an unsubscribe() only lost handlers are, and the
\* device is not: as long as no write of a dropped call comes late.
WinrtOneHandler ==
    /\ handlers \subseteq {notify_token} \cup lost
    /\ lastOk = "subscribes" => notify_token \in handlers /\ configured
    /\ lastOk = "unsubscribes" => handlers \subseteq lost /\ ~ configured
=============================================================================
