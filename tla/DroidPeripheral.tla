-------------------------- MODULE DroidPeripheral --------------------------
(***************************************************************************)
(* The Java half of the Android backend: Peripheral.java in src/src/       *)
(* droidplug/java/src/main/java/com/nonpolynomial/btleplug/android/impl/.  *)
(*                                                                         *)
(* Every call of the Rust half becomes a command.  queueCommand runs it, or *)
(* queues it behind the one that runs; a command calls the framework's     *)
(* BluetoothGatt, leaves a CommandCallback, and ends when that wakes its   *)
(* future, which runs the next one.  All of this is synchronized on the    *)
(* peripheral, so a call or a callback is one step, apart from the report  *)
(* to the adapter, which a callback makes after it left the monitor.       *)
(*                                                                         *)
(* BluetoothGatt is external: it performs one operation at a time, and its *)
(* callbacks come on a thread of its own, one at a time.  An exception     *)
(* that escapes from a callback is logged by the framework and forgotten.  *)
(***************************************************************************)
EXTENDS Integers, Sequences

CONSTANTS
    Req,        \* the futures of the calls
    NoReq,      \* no command callback, no operation
    Asks,       \* the calls that may be made: a set of [op, attr]
    Attr,       \* characteristics and descriptors
    NoAttr,     \* a call that concerns the device itself
    Refuses,    \* the operations the framework may refuse to begin
    MayFail,    \* those that may report another status than GATT_SUCCESS
    MaxLate     \* BOUND: the reports of closed BluetoothGatts on their way

LinkOp == {"connect", "disconnect"}
DescOp == {"read_descriptor", "write_descriptor"}
AttrOp == {"read", "write", "notify"} \cup DescOp
Op     == LinkOp \cup {"discover"} \cup AttrOp

Call == [op : LinkOp \cup {"discover"}, attr : {NoAttr}] \cup [op : AttrOp, attr : Attr]

ASSUME DroidAssumption ==
    /\ NoReq \notin Req
    /\ Asks \subseteq Call
    /\ MaxLate \in Nat

VARIABLES
    ask,               \* ask[r]: what r calls
    made,              \* the calls that were made
    result,            \* result[r]: what the future was woken with
    connected,
    executingCommand,
    commandQueue,
    commandCallback,   \* the command whose CommandCallback is set
    gatt,              \* the BluetoothGatt: open (this.gatt # null), its link, its operation
    reporting,         \* the report that its thread is about to make to the adapter
    late,              \* how many threads of closed ones are about to report "down"
    told,              \* the last report the adapter got
    overtaken          \* history: that report was made while others were late

javaVars   == <<result, connected, executingCommand, commandQueue, commandCallback>>
reportVars == <<reporting, late, told, overtaken>>
vars == <<ask, made, javaVars, gatt, reportVars>>

Closed == [open |-> FALSE, link |-> "down", op |-> NoReq]

Init ==
    /\ ask \in [Req -> Asks]
    /\ made = {}
    /\ result = [r \in Req |-> "none"]
    /\ connected = FALSE
    /\ executingCommand = FALSE
    /\ commandQueue = <<>>
    /\ commandCallback = NoReq
    /\ gatt = Closed
    /\ reporting = "none"
    /\ late = 0
    /\ told = "down"
    /\ overtaken = FALSE

----------------------------------------------------------------------------
(* Commands.  `on` and `g` are `connected` and the gatt they find. *)

\* A command whose future is woken while it runs: there is nothing to do, the device is
\* not connected, or the framework refuses.
EndsAtOnce(r, on) == \/ ask[r].op = "connect" <=> on
                     \/ ask[r].op \in Refuses

AtOnce(r, on) == IF ask[r].op \in LinkOp /\ (ask[r].op = "connect" <=> on) THEN "ok" ELSE "error"

\* A command that calls the framework, and leaves its CommandCallback.
Waits(r, on) == ask[r].op = "connect" <=> ~ on

\* What the framework is asked: connectGatt or gatt.connect(), gatt.disconnect(), an operation.
Start(r, g) ==
    CASE ask[r].op = "connect"    -> [g EXCEPT !.open = TRUE, !.link = "dialling"]
      [] ask[r].op = "disconnect" -> [g EXCEPT !.link = "hanging up"]
      [] OTHER                    -> [g EXCEPT !.op = r]

\* Seeded fault: the command that runs is not removed from the queue.
PeekNext(q, n) == SubSeq(q, n + 1, Len(q))

\* What is left of q when n commands have ended and another was removed to run.
RemoveNext(q, n) == SubSeq(q, n + 2, Len(q))

\* The commands of q run, one after the other, until one waits: the recursion of
\* runNextCommand, wakeCommand and asyncWithFuture.
RunCommands(q, res, on, g) ==
    \E n \in 0..Len(q) :
        /\ \A i \in 1..n : EndsAtOnce(q[i], on)
        /\ result' = [r \in Req |-> IF \E i \in 1..n : q[i] = r THEN AtOnce(r, on) ELSE res[r]]
        /\ \/ /\ n = Len(q)
              /\ executingCommand' = FALSE
              /\ commandCallback' = NoReq
              /\ commandQueue' = <<>>
              /\ gatt' = g
           \/ /\ n < Len(q)
              /\ Waits(q[n + 1], on)
              /\ executingCommand' = TRUE
              /\ commandCallback' = q[n + 1]
              /\ commandQueue' = RemoveNext(q, n)
              /\ gatt' = Start(q[n + 1], g)

\* Seeded fault: the last command to come is the next to run.
AddFirst(q, r) == <<r>> \o q

Add(q, r) == Append(q, r)

\* Seeded fault: a command runs although another one does.
RunAnyway(r) == RunCommands(<<r>> \o commandQueue, result, connected, gatt)

QueueCommand(r) ==
    \/ /\ executingCommand
       /\ commandQueue' = Add(commandQueue, r)
       /\ UNCHANGED <<result, executingCommand, commandCallback, gatt>>
    \/ /\ ~ executingCommand
       /\ RunCommands(<<r>> \o commandQueue, result, connected, gatt)

\* A method of Peripheral.
Calls(r) ==
    /\ r \notin made
    /\ made' = made \cup {r}
    /\ QueueCommand(r)
    /\ UNCHANGED <<ask, connected, reportVars>>

----------------------------------------------------------------------------
(* Callbacks. *)

\* The future of the command that runs is woken with `with`, and the next command runs.
WakeCommand(with, on, g) ==
    RunCommands(commandQueue, [result EXCEPT ![commandCallback] = with], on, g)

\* The command goes on waiting, or there is none.
KeepWaiting(g) ==
    /\ gatt' = g
    /\ UNCHANGED <<result, executingCommand, commandQueue, commandCallback>>

\* The BluetoothGatt's thread is free for its next callback.
ThreadIsFree == gatt.open /\ reporting = "none"

\* Seeded fault: once connected, always connected.
Latched(on) == connected \/ on

NewState(on) == on

\* Seeded fault: a lost connection is not reported.
TellUp(on) == IF on THEN "up" ELSE "none"

Tell(on) == IF on THEN "up" ELSE "down"

\* Callback.onConnectionStateChange, when the gatt has become g.
OnConnectionStateChange(on, success, g) ==
    /\ ThreadIsFree
    /\ late < MaxLate                                         \* BOUND
    /\ connected' = NewState(on)
    /\ LET op      == ask[commandCallback].op
           Reports == reporting' = Tell(on) /\ UNCHANGED late
       IN  \/ /\ commandCallback = NoReq
              /\ KeepWaiting(g)
              /\ Reports
           \/ /\ commandCallback # NoReq /\ op \in DescOp
              \* the default of CommandCallback: the exception escapes, and nothing is reported
              /\ KeepWaiting(g)
              /\ UNCHANGED <<reporting, late>>
           \/ /\ commandCallback # NoReq /\ op \notin DescOp /\ ~ success
              /\ WakeCommand("error", on, g)
              /\ Reports
           \/ /\ commandCallback # NoReq /\ op \notin DescOp /\ success
              /\ op = "connect" <=> ~ on
              /\ KeepWaiting(g)
              /\ Reports
           \/ /\ commandCallback # NoReq /\ op = "connect" /\ success /\ on
              /\ WakeCommand("ok", on, g)
              /\ Reports
           \/ /\ commandCallback # NoReq /\ op \notin DescOp \cup {"connect"} /\ success /\ ~ on
              \* gatt.close(), gatt = null; its thread still has its report to make
              /\ WakeCommand(IF op = "disconnect" THEN "ok" ELSE "null", on, Closed)
              /\ late' = late + 1
              /\ UNCHANGED reporting
    /\ UNCHANGED <<ask, made, told, overtaken>>

Connected ==
    /\ gatt.link = "dialling"
    /\ OnConnectionStateChange(TRUE, TRUE, [gatt EXCEPT !.link = "up"])

\* A dial that fails, a link that breaks, or the end of a disconnect(); the operation
\* that was outstanding will not complete.
Disconnected ==
    /\ gatt.link # "down"
    /\ \E success \in BOOLEAN :
          OnConnectionStateChange(FALSE, success, [gatt EXCEPT !.link = "down", !.op = NoReq])

\* The outstanding operation completes: one of `ops`, with that status.
Completes(ops, success) ==
    /\ ThreadIsFree
    /\ gatt.op # NoReq
    /\ ask[gatt.op].op \in ops
    /\ success \/ ask[gatt.op].op \in MayFail

Idle == [gatt EXCEPT !.op = NoReq]

\* There is a CommandCallback, of a command that overrides the callback for ops; with
\* any other the call is not made, or its exception escapes.
Handled(ops) == commandCallback # NoReq /\ ask[commandCallback].op \in ops

\* UnexpectedCharacteristicException unless it is the attribute of the command.
WakeIfExpected ==
    WakeCommand(IF ask[gatt.op] = ask[commandCallback] THEN "ok" ELSE "error", connected, Idle)

OnCharacteristicRead ==
    \E success \in BOOLEAN :
        /\ Completes({"read"}, success)
        /\ IF Handled({"read"}) THEN WakeIfExpected ELSE KeepWaiting(Idle)

\* Seeded fault: the future of a write is not woken.
WriteForgotten ==
    \E success \in BOOLEAN : Completes({"write"}, success) /\ KeepWaiting(Idle)

OnCharacteristicWrite ==
    \E success \in BOOLEAN :
        /\ Completes({"write"}, success)
        /\ IF Handled({"write"}) THEN WakeIfExpected ELSE KeepWaiting(Idle)

\* The exception of a discovery that failed is outside asyncWithFuture: it escapes.
OnServicesDiscovered ==
    \E success \in BOOLEAN :
        /\ Completes({"discover"}, success)
        /\ IF Handled({"discover"}) /\ success THEN WakeIfExpected ELSE KeepWaiting(Idle)

\* Also the completion of setCharacteristicNotification, which alone looks at the status.
OnDescriptorWrite ==
    \E success \in BOOLEAN :
        /\ Completes({"notify", "write_descriptor"}, success)
        /\ IF ~ Handled({"notify", "write_descriptor"}) THEN KeepWaiting(Idle)
           ELSE IF success \/ ask[commandCallback].op = "write_descriptor" THEN WakeIfExpected
           ELSE WakeCommand("error", connected, Idle)

\* Callback does not override onDescriptorRead: no CommandCallback hears of it.
OnDescriptorRead ==
    \E success \in BOOLEAN : Completes({"read_descriptor"}, success) /\ KeepWaiting(Idle)

Completed ==
    /\ \/ OnCharacteristicRead
       \/ OnCharacteristicWrite
       \/ OnServicesDiscovered
       \/ OnDescriptorWrite
       \/ OnDescriptorRead
    /\ UNCHANGED <<ask, made, connected, reportVars>>

\* adapter.onConnectionStateChanged(..), after the monitor was left.
Report ==
    /\ reporting # "none"
    /\ told' = reporting
    /\ reporting' = "none"
    /\ overtaken' = (late > 0)
    /\ UNCHANGED <<ask, made, javaVars, gatt, late>>

ReportLate ==
    /\ late > 0
    /\ told' = "down"
    /\ late' = late - 1
    /\ UNCHANGED <<ask, made, javaVars, gatt, reporting, overtaken>>

----------------------------------------------------------------------------
Next ==
    \/ \E r \in Req : Calls(r)
    \/ Connected
    \/ Disconnected
    \/ Completed
    \/ Report
    \/ ReportLate

Spec == Init /\ [][Next]_vars

\* The framework completes operations and disconnects, threads go on; that a device
\* answers a connection request, or that a link breaks, is nobody's duty.
Fairness ==
    /\ WF_vars(Completed)
    /\ WF_vars(gatt.link = "hanging up" /\ Disconnected)
    /\ WF_vars(Report)
    /\ WF_vars(ReportLate)

FairSpec == Spec /\ Fairness

----------------------------------------------------------------------------
(* Properties. *)

Result == {"none", "ok", "null", "error"}

\* Type invariant of the peripheral, its framework object and the reports.
TypeOK ==
    /\ ask \in [Req -> Asks]
    /\ made \subseteq Req
    /\ result \in [Req -> Result]
    /\ connected \in BOOLEAN
    /\ executingCommand \in BOOLEAN
    /\ commandQueue \in Seq(Req)
    /\ commandCallback \in Req \cup {NoReq}
    /\ gatt \in [open : BOOLEAN, link : {"down", "dialling", "up", "hanging up"},
                 op : Req \cup {NoReq}]
    /\ reporting \in {"none", "up", "down"}
    /\ late \in 0..MaxLate
    /\ told \in {"up", "down"}
    /\ overtaken \in BOOLEAN

line == IF commandCallback = NoReq THEN commandQueue ELSE <<commandCallback>> \o commandQueue

\* Every command that was queued and has not ended is in line exactly once, and somebody
\* is there to end it: a queue without a command that runs would never move again.
CallInOnePlace ==
    /\ \A i, j \in DOMAIN line : line[i] = line[j] => i = j
    /\ \A r \in Req : (\E i \in DOMAIN line : line[i] = r) <=> r \in made /\ result[r] = "none"
    /\ \A r \in Req \ made : result[r] = "none"
    /\ executingCommand <=> commandCallback # NoReq
    /\ ~ executingCommand => commandQueue = <<>>

\* What the framework still works on is the command that runs, on a link that is up: a late
\* completion never reaches the next command, as an UnexpectedCharacteristicException or,
\* were it of the same attribute, as its own.
OutstandingIsRunning ==
    gatt.op # NoReq => gatt.op = commandCallback /\ gatt.link = "up"
                       /\ ask[gatt.op].op \notin LinkOp

\* `connected` is true only with a gatt whose link is up, so no command calls a null one,
\* and what a command dials or hangs up is what it waits for.
ConnectedHasGatt ==
    /\ connected <=> gatt.link \in {"up", "hanging up"}
    /\ gatt.link # "down" => gatt.open
    /\ LET Runs(op) == commandCallback # NoReq /\ ask[commandCallback].op = op
       IN  /\ gatt.link = "dialling" => Runs("connect")
           /\ gatt.link = "hanging up" => Runs("disconnect")
           /\ gatt.link = "up" => ~ Runs("connect") /\ ~ Runs("disconnect")

\* A command that waits while the framework has nothing to do for it waits for ever, with
\* everything behind it.  It does for four reasons only: the callback of a descriptor read
\* that is not forwarded, the loss of the link that a descriptor write does not handle, a
\* failed discovery, and a device that is reported as disconnected, without an error, when
\* it should have been connected.
StuckNeedsCause ==
    commandCallback # NoReq /\ gatt.op = NoReq /\ gatt.link \in {"up", "down"}
    => LET op == ask[commandCallback].op
       IN  \/ op = "read_descriptor"
           \/ op \in {"connect", "write_descriptor"} /\ ~ connected
           \/ op = "discover" /\ op \in MayFail

\* When all reports are made the adapter knows whether the device is connected, except
\* after a link lost under a descriptor operation, and after the report of a new
\* connection that overtook the one of the end of the last.
ToldTruth ==
    reporting = "none" /\ late = 0
    => \/ (told = "up") = connected
       \/ overtaken
       \/ commandCallback # NoReq /\ ask[commandCallback].op \in DescOp /\ ~ connected

Queue == INSTANCE CommandQueue

\* Commands end in the order they were queued, whoever ends them and however many at once.
KeepsOrder == Queue!Spec

\* The inductive invariant: what each command finds when its turn comes.
IInv ==
    /\ TypeOK
    /\ CallInOnePlace
    /\ OutstandingIsRunning
    /\ ConnectedHasGatt
    /\ StuckNeedsCause

\* Why a command may wait for ever.
Blocked ==
    /\ commandCallback # NoReq
    /\ LET op == ask[commandCallback].op
       IN  \/ op \in {"connect", "read_descriptor"}
           \/ op = "write_descriptor" /\ ~ connected
           \/ op = "discover" /\ op \in MayFail

\* Every command ends, unless in the end one that may wait for ever stays in its way.
CommandsEnd ==
    \A r \in Req : <>[](r \in made /\ result[r] = "none") => <>[]Blocked

----------------------------------------------------------------------------
(* What the sources say and the code does not do: this is violated. *)

\* api/mod.rs: read_descriptor "Returns either an error if the request was not accepted or
\* the response from the device."
DescriptorReadReturns ==
    \A r \in Req : commandCallback = r /\ ask[r].op = "read_descriptor" ~> result[r] # "none"
=============================================================================
