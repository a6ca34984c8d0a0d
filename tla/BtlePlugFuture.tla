--------------------------- MODULE BtlePlugFuture ---------------------------
(***************************************************************************)
(* The futures of src/src/corebluetooth/future.rs.  The CoreBluetooth      *)
(* thread calls set_reply, a worker of the client's async runtime calls    *)
(* poll; the two share the state through a mutex, which is what is         *)
(* modelled here step by step.  The runtime is modelled from the contract  *)
(* of std::future: a task is polled again when its waker fires, perhaps    *)
(* also when it does not, and a future that is pending may move to another *)
(* task, whose waker it is then polled with.                               *)
(***************************************************************************)
EXTENDS Functions

CONSTANTS
    Future,   \* the futures of calls in progress
    Task,     \* the tasks of the runtime; each awaits at most one of them
    NoTask    \* no waker, and nobody in the mutex

ASSUME TaskAssumption == NoTask \notin Task /\ "thread" \notin Task \cup {NoTask}

VARIABLES
    reply_msg,    \* reply_msg[f] : whether there is a reply in the shared state
    waker,        \* waker[f]     : the task it would wake
    mutex,        \* mutex[f]     : the task in it, "thread", or NoTask
    sender,       \* sender[f]    : the thread, about f
    owner,        \* owner[f]     : the task that awaits f
    task,         \* task[t]      : what t is doing
    notified      \* the tasks woken while they ran

vars == <<reply_msg, waker, mutex, sender, owner, task, notified>>

Init ==
    /\ reply_msg = [f \in Future |-> FALSE]
    /\ waker = [f \in Future |-> NoTask]
    /\ mutex = [f \in Future |-> NoTask]
    /\ sender = [f \in Future |-> "has the state"]
    /\ owner \in Injection(Future, Task)
    /\ task = [t \in Task |-> IF t \in Range(owner) THEN "runnable" ELSE "other work"]
    /\ notified = {}

----------------------------------------------------------------------------
(* Mutex<BtlePlugFutureState>. *)

\* Seeded fault: no mutual exclusion.
NoMutex(f) == TRUE
Unlocked(f) == mutex[f] = NoTask

----------------------------------------------------------------------------
(* The thread: state.lock().unwrap().set_reply(..). *)

SetReplyLocks(f) ==
    /\ sender[f] = "has the state"
    /\ Unlocked(f)
    /\ mutex' = [mutex EXCEPT ![f] = "thread"]
    /\ sender' = [sender EXCEPT ![f] = "locked"]
    /\ UNCHANGED <<reply_msg, waker, owner, task, notified>>

SetReply(f) ==
    /\ sender[f] = "locked"
    /\ reply_msg' = [reply_msg EXCEPT ![f] = TRUE]
    /\ sender' = [sender EXCEPT ![f] = "replied"]
    /\ UNCHANGED <<waker, mutex, owner, task, notified>>

\* Waker::wake: a task that is running is polled once more afterwards.
Wake(t) ==
    /\ task' = [u \in Task |-> IF u = t /\ task[u] = "pending" THEN "runnable" ELSE task[u]]
    /\ notified' = notified \cup {u \in Task : u = t /\ task[u] \in {"polls", "locked", "stores"}}

\* waker.take().unwrap().wake(), and the guard of the mutex goes.
SetReplyWakes(f) ==
    /\ sender[f] = "replied"
    /\ Wake(waker[f])
    /\ waker' = [waker EXCEPT ![f] = NoTask]
    /\ mutex' = [mutex EXCEPT ![f] = NoTask]
    /\ sender' = [sender EXCEPT ![f] = "done"]
    /\ UNCHANGED <<reply_msg, owner>>

----------------------------------------------------------------------------
(* The runtime, and poll. *)

Run(t) ==
    /\ task[t] = "runnable"
    /\ task' = [task EXCEPT ![t] = "polls"]
    /\ notified' = notified \ {t}
    /\ UNCHANGED <<reply_msg, waker, mutex, sender, owner>>

Awaits(t, f) == owner[f] = t

PollLocks(t, f) ==
    /\ task[t] = "polls" /\ Awaits(t, f)
    /\ Unlocked(f)
    /\ mutex' = [mutex EXCEPT ![f] = t]
    /\ task' = [task EXCEPT ![t] = "locked"]
    /\ UNCHANGED <<reply_msg, waker, sender, owner, notified>>

\* Poll::Ready: the task goes on with the reply.
PollReady(t, f) ==
    /\ task[t] = "locked" /\ Awaits(t, f)
    /\ reply_msg[f]
    /\ reply_msg' = [reply_msg EXCEPT ![f] = FALSE]
    /\ mutex' = [mutex EXCEPT ![f] = NoTask]
    /\ owner' = [owner EXCEPT ![f] = NoTask]
    /\ task' = [task EXCEPT ![t] = "other work"]
    /\ UNCHANGED <<waker, sender, notified>>

PollFindsNoReply(t, f) ==
    /\ task[t] = "locked" /\ Awaits(t, f)
    /\ ~ reply_msg[f]
    /\ task' = [task EXCEPT ![t] = "stores"]
    /\ UNCHANGED <<reply_msg, waker, mutex, sender, owner, notified>>

\* Seeded fault: a waker that is there already is not replaced.
KeepsWaker(t, f) == waker' = [waker EXCEPT ![f] = IF @ = NoTask THEN t ELSE @]
StoresWaker(t, f) == waker' = [waker EXCEPT ![f] = t]

\* waker = Some(cx.waker().clone()), and Poll::Pending.
PollPending(t, f) ==
    /\ task[t] = "stores" /\ Awaits(t, f)
    /\ StoresWaker(t, f)
    /\ mutex' = [mutex EXCEPT ![f] = NoTask]
    /\ task' = [task EXCEPT ![t] = IF t \in notified THEN "runnable" ELSE "pending"]
    /\ UNCHANGED <<reply_msg, sender, owner, notified>>

\* Something else in the task, another branch of a select!, wakes it.
WokenByOthers(t) ==
    /\ task[t] = "pending"
    /\ task' = [task EXCEPT ![t] = "runnable"]
    /\ UNCHANGED <<reply_msg, waker, mutex, sender, owner, notified>>

\* A pending future is handed to a task that has none, and polled there.
Move(f, t) ==
    /\ owner[f] # NoTask /\ task[owner[f]] = "pending"
    /\ task[t] = "other work"
    /\ owner' = [owner EXCEPT ![f] = t]
    /\ task' = [task EXCEPT ![owner[f]] = "other work", ![t] = "runnable"]
    /\ UNCHANGED <<reply_msg, waker, mutex, sender, notified>>

----------------------------------------------------------------------------
Thread(f) == SetReplyLocks(f) \/ SetReply(f) \/ SetReplyWakes(f)

Poll(t, f) == PollLocks(t, f) \/ PollReady(t, f) \/ PollFindsNoReply(t, f) \/ PollPending(t, f)

Runs(t) == Run(t) \/ \E f \in Future : Poll(t, f)

Next ==
    \/ \E f \in Future : Thread(f)
    \/ \E t \in Task : Runs(t) \/ WokenByOthers(t)
    \/ \E f \in Future, t \in Task : Move(f, t)

Spec == Init /\ [][Next]_vars

\* A thread that is in set_reply goes on, and the runtime polls the tasks that can run.
FairSpec ==
    /\ Spec
    /\ \A f \in Future : WF_vars(Thread(f))
    /\ \A t \in Task : WF_vars(Runs(t))

----------------------------------------------------------------------------
(* Properties. *)

TypeOK ==
    /\ reply_msg \in [Future -> BOOLEAN]
    /\ waker \in [Future -> Task \cup {NoTask}]
    /\ mutex \in [Future -> Task \cup {NoTask, "thread"}]
    /\ sender \in [Future -> {"has the state", "locked", "replied", "done"}]
    /\ owner \in [Future -> Task \cup {NoTask}]
    /\ task \in [Task -> {"other work", "runnable", "polls", "locked", "stores", "pending"}]
    /\ notified \subseteq Task

\* A task does not sleep on a reply that is there: when set_reply is over the task that
\* awaits the future is awake, and while it runs the waker it will fire is that task's.
NoLostWakeup ==
    \A f \in Future :
        owner[f] # NoTask /\ task[owner[f]] = "pending"
        => sender[f] # "done" /\ waker[f] = owner[f]

promise == [f \in Future |-> IF owner[f] = NoTask THEN "returned"
                              ELSE IF reply_msg[f] THEN "replied" ELSE "waiting"]

Kept == INSTANCE Promise WITH state <- promise

\* Every reply that is set is returned, once, however the future was moved and polled.
KeepsPromise == Kept!Spec
=============================================================================
