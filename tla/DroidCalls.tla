----------------------------- MODULE DroidCalls -----------------------------
(***************************************************************************)
(* The calls of the Android backend from the side of the client            *)
(* (src/src/droidplug/peripheral.rs): each makes a command of the Java     *)
(* peripheral, awaits its future, and makes a Rust result of what the      *)
(* future was woken with.  Commands end in order; the tasks that await     *)
(* them are polled in any order, and may be dropped, which the command     *)
(* does not notice.                                                        *)
(***************************************************************************)
EXTENDS DroidPeripheral

VARIABLES
    returned,      \* returned[r]: "none", "ok", "err" or "dropped"
    stored,        \* the discovery whose list services() and characteristics() show
    \* for the properties only
    answer,        \* answer[r]: how the framework completed the operation of r
    ended          \* ended[r]: the calls that had returned when r began

callVars == <<returned, stored, answer, ended>>
droidCallsVars == <<vars, callVars>>

DroidCallsInit ==
    /\ Init
    /\ returned = [r \in Req |-> "none"]
    /\ stored = NoReq
    /\ answer = [r \in Req |-> "none"]
    /\ ended = [r \in Req |-> {}]

\* The first part of a call: with_obj, before the await.
Begins(r) ==
    /\ Calls(r)
    /\ ended' = [ended EXCEPT ![r] = {q \in Req : returned[q] # "none"}]
    /\ UNCHANGED <<returned, stored, answer>>

\* The framework completes an operation; only a notification and a discovery show the status.
Completion ==
    /\ Completed
    /\ \E status \in {"ok", "failed"} :
        /\ status = "failed" => ask[gatt.op].op \in MayFail
        /\ ask[gatt.op].op \in {"notify", "discover"} => (status = "ok" <=> result'[gatt.op] = "ok")
        /\ answer' = [answer EXCEPT ![gatt.op] = status]
    /\ UNCHANGED <<returned, stored, ended>>

\* Seeded fault: a result that is null is Ok, whatever the call needs of it.
AnyResult(r) == result[r] # "error"

\* get_poll_result, and what is made of the object: a null one is no list and no array.
IsOk(r) == \/ result[r] = "ok"
           \/ result[r] = "null" /\ ask[r].op \notin {"read", "discover", "read_descriptor"}

\* Seeded fault: what was discovered once is kept.
StoresOnce(r) == stored' = IF stored = NoReq THEN r ELSE stored

StoresServices(r) == stored' = r

\* The task of call r is polled, and its future is ready.
Returns(r) ==
    /\ returned[r] = "none" /\ result[r] # "none"
    /\ returned' = [returned EXCEPT ![r] = IF IsOk(r) THEN "ok" ELSE "err"]
    /\ IF ask[r].op = "discover" /\ IsOk(r) THEN StoresServices(r) ELSE UNCHANGED stored
    /\ UNCHANGED <<vars, answer, ended>>

DropsTask(r) ==
    /\ r \in made /\ returned[r] = "none"
    /\ returned' = [returned EXCEPT ![r] = "dropped"]
    /\ UNCHANGED <<vars, stored, answer, ended>>

DroidCallsNext ==
    \/ \E r \in Req : Begins(r) \/ Returns(r) \/ DropsTask(r)
    \/ Completion
    \/ (Connected \/ Disconnected \/ Report \/ ReportLate) /\ UNCHANGED callVars

DroidCallsSpec == DroidCallsInit /\ [][DroidCallsNext]_droidCallsVars

----------------------------------------------------------------------------
(* Properties *)

\* A call on an attribute that returns Ok was completed by the framework for this very call, and
\* with success, whatever other calls were queued, dropped, or cut off by a lost link.  There
\* are two exceptions: the status of a read, a write and a descriptor write is ignored, and
\* a write or a subscription under which the link was lost without an error is Ok.
OkMeansAnswered ==
    \A r \in Req :
        returned[r] = "ok" /\ ask[r].op \notin LinkOp
          => \/ answer[r] = "ok"
             \/ answer[r] = "failed" /\ ask[r].op \in {"read", "write", "write_descriptor"}
             \/ answer[r] = "none" /\ ask[r].op \in {"write", "notify"}

\* What services() and characteristics() show comes from a discovery that had not returned when
\* any discovery that returned Ok began: no later discovery is undone, although tasks are polled
\* in any order.  (Two that overlap may store their lists in the wrong order.)
DroidServicesFresh ==
    \A q \in Req : returned[q] = "ok" /\ ask[q].op = "discover"
        => stored # NoReq /\ stored \notin ended[q]
=============================================================================
