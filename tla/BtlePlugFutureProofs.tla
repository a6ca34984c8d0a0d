------------------------ MODULE BtlePlugFutureProofs ------------------------
(***************************************************************************)
(* That no wake-up of a BtlePlugFuture is lost, and that it implements the *)
(* safety part of Promise, for every number of futures and tasks.          *)
(***************************************************************************)
EXTENDS BtlePlugFuture, TLAPS

\* A task awaits one future.
OneEach ==
    \A f, g \in Future : owner[f] # NoTask /\ owner[f] = owner[g] => f = g

\* A task that does something else awaits none.
OwnerBusyAt(f) == owner[f] # NoTask => task[owner[f]] # "other work"
OwnerBusy == \A f \in Future : OwnerBusyAt(f)

\* Whoever is between lock and unlock is the one in the mutex.
ExclusionAt(f) ==
    /\ sender[f] \in {"locked", "replied"} => mutex[f] = "thread"
    /\ owner[f] # NoTask /\ task[owner[f]] \in {"locked", "stores"} => mutex[f] = owner[f]
Exclusion == \A f \in Future : ExclusionAt(f)

\* The reply is in the shared state from set_reply until poll takes it.
ReplyThereAt(f) ==
    /\ owner[f] # NoTask => (reply_msg[f] <=> sender[f] \in {"replied", "done"})
    /\ owner[f] = NoTask => ~ reply_msg[f] /\ sender[f] = "done"
    /\ owner[f] # NoTask /\ task[owner[f]] = "stores" => ~ reply_msg[f]
ReplyThere == \A f \in Future : ReplyThereAt(f)

\* NoLostWakeup, of one future.
NotLostAt(f) == owner[f] # NoTask /\ task[owner[f]] = "pending"
                => sender[f] # "done" /\ waker[f] = owner[f]

FutureInv == TypeOK /\ OneEach /\ OwnerBusy /\ Exclusion /\ ReplyThere /\ NoLostWakeup

\* Before anything runs nobody holds a mutex, and no reply is set.
LEMMA FutureInit == Init => FutureInv
  <1> SUFFICES ASSUME Init
               PROVE  FutureInv
    OBVIOUS
  <1>1. owner \in [Future -> Task] /\ \A f, g \in Future : owner[f] = owner[g] => f = g
    BY DEF Init, Injection, IsInjective
  <1>2. \A f \in Future : owner[f] \in Task /\ owner[f] \in Range(owner) /\ owner[f] # NoTask
    BY <1>1, TaskAssumption DEF Range
  <1>3. \A f \in Future : task[owner[f]] = "runnable"
    BY <1>2 DEF Init
  <1>4. TypeOK
    BY <1>1 DEF Init, TypeOK
  <1> QED BY <1>1, <1>2, <1>3, <1>4
          DEF FutureInv, Init, OneEach, OwnerBusy, Exclusion, ReplyThere, NoLostWakeup,
              OwnerBusyAt, ExclusionAt, ReplyThereAt

\* The parts of the invariant as the steps below use them.
LEMMA Facts ==
    ASSUME FutureInv
    PROVE  /\ \A f \in Future : owner[f] # NoTask => owner[f] \in Task
           /\ \A t \in Task : t # "thread" /\ t # NoTask
           /\ NoTask # "thread"
BY TaskAssumption DEF FutureInv, TypeOK

\* A step about f leaves the other futures alone, and at most wakes the tasks that await them.
LEMMA Frame ==
    ASSUME FutureInv, NEW f \in Future, TypeOK', OneEach',
           OwnerBusyAt(f)', ExclusionAt(f)', ReplyThereAt(f)', NotLostAt(f)',
           \A g \in Future \ {f} :
              /\ reply_msg'[g] = reply_msg[g] /\ waker'[g] = waker[g] /\ mutex'[g] = mutex[g]
              /\ sender'[g] = sender[g] /\ owner'[g] = owner[g]
              /\ owner[g] # NoTask =>
                    \/ task'[owner[g]] = task[owner[g]]
                    \/ task[owner[g]] = "pending" /\ task'[owner[g]] = "runnable"
    PROVE  FutureInv'
  <1> SUFFICES ASSUME NEW g \in Future, g # f
               PROVE  (OwnerBusyAt(g) /\ ExclusionAt(g) /\ ReplyThereAt(g) /\ NotLostAt(g))'
    BY DEF FutureInv, OwnerBusy, Exclusion, ReplyThere, NoLostWakeup, NotLostAt
  <1>1. OwnerBusyAt(g) /\ ExclusionAt(g) /\ ReplyThereAt(g) /\ NotLostAt(g)
    BY DEF FutureInv, OwnerBusy, Exclusion, ReplyThere, NoLostWakeup, NotLostAt
  <1>2. OwnerBusyAt(g)'
    BY <1>1 DEF OwnerBusyAt
  <1>3. ExclusionAt(g)'
    BY <1>1 DEF ExclusionAt
  <1>4. ReplyThereAt(g)'
    BY <1>1 DEF ReplyThereAt
  <1>5. NotLostAt(g)'
    BY <1>1 DEF NotLostAt
  <1> QED BY <1>2, <1>3, <1>4, <1>5

\* set_reply: the thread locks, stores the reply, and takes and wakes the waker, all under the mutex.
LEMMA ThreadStep ==
    ASSUME FutureInv, NEW f \in Future, Thread(f)
    PROVE  FutureInv'
  <1>0. /\ OwnerBusyAt(f) /\ ExclusionAt(f) /\ ReplyThereAt(f) /\ NotLostAt(f)
        /\ OneEach /\ TypeOK
    BY DEF FutureInv, OwnerBusy, Exclusion, ReplyThere, NoLostWakeup, NotLostAt
  <1>1. CASE SetReplyLocks(f)
    <2>1. TypeOK' /\ OneEach'
      BY <1>0, <1>1 DEF SetReplyLocks, TypeOK, OneEach
    <2>2. (OwnerBusyAt(f) /\ ExclusionAt(f) /\ ReplyThereAt(f) /\ NotLostAt(f))'
      BY <1>0, <1>1, Facts DEF SetReplyLocks, Unlocked, TypeOK, OwnerBusyAt, ExclusionAt,
         ReplyThereAt, NotLostAt
    <2> QED BY <1>0, <1>1, <2>1, <2>2, Frame DEF SetReplyLocks, TypeOK
  <1>2. CASE SetReply(f)
    <2>1. TypeOK' /\ OneEach'
      BY <1>0, <1>2 DEF SetReply, TypeOK, OneEach
    <2>2. (OwnerBusyAt(f) /\ ExclusionAt(f) /\ ReplyThereAt(f) /\ NotLostAt(f))'
      BY <1>0, <1>2, Facts DEF SetReply, TypeOK, OwnerBusyAt, ExclusionAt, ReplyThereAt, NotLostAt
    <2> QED BY <1>0, <1>2, <2>1, <2>2, Frame DEF SetReply, TypeOK
  <1>3. CASE SetReplyWakes(f)
    <2>1. TypeOK' /\ OneEach'
      BY <1>0, <1>3 DEF SetReplyWakes, Wake, TypeOK, OneEach
    <2>2. \A u \in Task : task'[u] = IF u = waker[f] /\ task[u] = "pending"
                                     THEN "runnable" ELSE task[u]
      BY <1>3 DEF SetReplyWakes, Wake
    <2>3. (OwnerBusyAt(f) /\ ExclusionAt(f) /\ ReplyThereAt(f) /\ NotLostAt(f))'
      BY <1>0, <1>3, <2>2, Facts DEF SetReplyWakes, TypeOK, OwnerBusyAt, ExclusionAt,
         ReplyThereAt, NotLostAt
    <2> QED BY <1>0, <1>3, <2>1, <2>2, <2>3, Facts, Frame DEF SetReplyWakes, TypeOK
  <1> QED BY <1>1, <1>2, <1>3 DEF Thread

\* A step in which only the task t does something, about f which it awaits.
LEMMA OthersTasks ==
    ASSUME FutureInv, NEW t \in Task, NEW f \in Future, owner[f] = t,
           \A u \in Task \ {t} : task'[u] = task[u]
    PROVE  \A g \in Future \ {f} : owner[g] # NoTask => task'[owner[g]] = task[owner[g]]
  <1>1. \A g \in Future \ {f} : owner[g] # t
    BY Facts DEF FutureInv, OneEach
  <1> QED BY <1>1, Facts DEF FutureInv, TypeOK

\* poll: a task locks, finds a reply or not, stores its waker and unlocks.
LEMMA PollStep ==
    ASSUME FutureInv, NEW t \in Task, NEW f \in Future, Poll(t, f)
    PROVE  FutureInv'
  <1>0. /\ OwnerBusyAt(f) /\ ExclusionAt(f) /\ ReplyThereAt(f) /\ NotLostAt(f)
        /\ OneEach /\ TypeOK /\ t # NoTask
    BY Facts DEF FutureInv, OwnerBusy, Exclusion, ReplyThere, NoLostWakeup, NotLostAt
  <1>1. CASE PollLocks(t, f)
    <2>1. TypeOK' /\ OneEach'
      BY <1>0, <1>1 DEF PollLocks, TypeOK, OneEach
    <2>2. /\ task'[t] = "locked"
          /\ \A g \in Future \ {f} : owner[g] # NoTask => task'[owner[g]] = task[owner[g]]
      <3>1. owner[f] = t /\ task' = [task EXCEPT ![t] = "locked"]
        BY <1>1 DEF PollLocks, Awaits
      <3>2. task'[t] = ("locked") /\ \A u \in Task \ {t} : task'[u] = task[u]
        BY <1>0, <3>1 DEF TypeOK
      <3> QED BY <3>1, <3>2, OthersTasks
    <2>3. (OwnerBusyAt(f) /\ ExclusionAt(f) /\ ReplyThereAt(f) /\ NotLostAt(f))'
      BY <1>0, <1>1, <2>2, Facts DEF PollLocks, Awaits, Unlocked, TypeOK, OwnerBusyAt,
         ExclusionAt, ReplyThereAt, NotLostAt
    <2> QED BY <1>0, <1>1, <2>1, <2>2, <2>3, Frame DEF PollLocks, TypeOK
  <1>2. CASE PollReady(t, f)
    <2>1. TypeOK' /\ OneEach'
      BY <1>0, <1>2 DEF PollReady, TypeOK, OneEach
    <2>2. /\ task'[t] = "other work"
          /\ \A g \in Future \ {f} : owner[g] # NoTask => task'[owner[g]] = task[owner[g]]
      <3>1. owner[f] = t /\ task' = [task EXCEPT ![t] = "other work"]
        BY <1>2 DEF PollReady, Awaits
      <3>2. task'[t] = ("other work") /\ \A u \in Task \ {t} : task'[u] = task[u]
        BY <1>0, <3>1 DEF TypeOK
      <3> QED BY <3>1, <3>2, OthersTasks
    <2>3. (OwnerBusyAt(f) /\ ExclusionAt(f) /\ ReplyThereAt(f) /\ NotLostAt(f))'
      BY <1>0, <1>2, <2>2, Facts DEF PollReady, Awaits, TypeOK, OwnerBusyAt,
         ExclusionAt, ReplyThereAt, NotLostAt
    <2> QED BY <1>0, <1>2, <2>1, <2>2, <2>3, Frame DEF PollReady, TypeOK
  <1>3. CASE PollFindsNoReply(t, f)
    <2>1. TypeOK' /\ OneEach'
      BY <1>0, <1>3 DEF PollFindsNoReply, TypeOK, OneEach
    <2>2. /\ task'[t] = "stores"
          /\ \A g \in Future \ {f} : owner[g] # NoTask => task'[owner[g]] = task[owner[g]]
      <3>1. owner[f] = t /\ task' = [task EXCEPT ![t] = "stores"]
        BY <1>3 DEF PollFindsNoReply, Awaits
      <3>2. task'[t] = ("stores") /\ \A u \in Task \ {t} : task'[u] = task[u]
        BY <1>0, <3>1 DEF TypeOK
      <3> QED BY <3>1, <3>2, OthersTasks
    <2>3. (OwnerBusyAt(f) /\ ExclusionAt(f) /\ ReplyThereAt(f) /\ NotLostAt(f))'
      BY <1>0, <1>3, <2>2, Facts DEF PollFindsNoReply, Awaits, TypeOK, OwnerBusyAt,
         ExclusionAt, ReplyThereAt, NotLostAt
    <2> QED BY <1>0, <1>3, <2>1, <2>2, <2>3, Frame DEF PollFindsNoReply, TypeOK
  <1>4. CASE PollPending(t, f)
    <2>1. TypeOK' /\ OneEach'
      BY <1>0, <1>4 DEF PollPending, StoresWaker, TypeOK, OneEach
    <2>2. /\ task'[t] = IF t \in notified THEN "runnable" ELSE "pending"
          /\ \A g \in Future \ {f} : owner[g] # NoTask => task'[owner[g]] = task[owner[g]]
      <3>1. owner[f] = t /\ task' = [task EXCEPT ![t] = IF t \in notified THEN "runnable" ELSE "pending"]
        BY <1>4 DEF PollPending, Awaits
      <3>2. task'[t] = (IF t \in notified THEN "runnable" ELSE "pending") /\ \A u \in Task \ {t} : task'[u] = task[u]
        BY <1>0, <3>1 DEF TypeOK
      <3> QED BY <3>1, <3>2, OthersTasks
    <2>3. (OwnerBusyAt(f) /\ ExclusionAt(f) /\ ReplyThereAt(f) /\ NotLostAt(f))'
      BY <1>0, <1>4, <2>2, Facts DEF PollPending, Awaits, StoresWaker, TypeOK, OwnerBusyAt,
         ExclusionAt, ReplyThereAt, NotLostAt
    <2>4. \A g \in Future \ {f} :
             /\ reply_msg'[g] = reply_msg[g] /\ waker'[g] = waker[g] /\ mutex'[g] = mutex[g]
             /\ sender'[g] = sender[g] /\ owner'[g] = owner[g]
      BY <1>0, <1>4 DEF PollPending, StoresWaker, TypeOK
    <2> QED BY <2>1, <2>2, <2>3, <2>4, Frame
  <1> QED BY <1>1, <1>2, <1>3, <1>4 DEF Poll

\* The runtime polls a task that is runnable, or one that somebody else has woken.
LEMMA TaskStep ==
    ASSUME FutureInv, NEW t \in Task, Run(t) \/ WokenByOthers(t)
    PROVE  FutureInv'
  <1>1. CASE Run(t)
    <2>1. /\ task[t] = "runnable" /\ UNCHANGED <<reply_msg, waker, mutex, sender, owner>>
          /\ \A u \in Task : task'[u] = IF u = t THEN "polls" ELSE task[u]
      BY <1>1 DEF Run, FutureInv, TypeOK
    <2>2. TypeOK' /\ OneEach'
      BY <1>1 DEF Run, FutureInv, TypeOK, OneEach
    <2>3. OwnerBusy' /\ Exclusion'
      BY <2>1, Facts DEF FutureInv, OwnerBusy, Exclusion, OwnerBusyAt, ExclusionAt
    <2>4. ReplyThere' /\ NoLostWakeup'
      BY <2>1, Facts DEF FutureInv, ReplyThere, ReplyThereAt, NoLostWakeup
    <2> QED BY <2>2, <2>3, <2>4 DEF FutureInv
  <1>2. CASE WokenByOthers(t)
    <2>1. /\ task[t] = "pending" /\ UNCHANGED <<reply_msg, waker, mutex, sender, owner, notified>>
          /\ \A u \in Task : task'[u] = IF u = t THEN "runnable" ELSE task[u]
      BY <1>2 DEF WokenByOthers, FutureInv, TypeOK
    <2>2. TypeOK' /\ OneEach'
      BY <1>2 DEF WokenByOthers, FutureInv, TypeOK, OneEach
    <2>3. OwnerBusy' /\ Exclusion'
      BY <2>1, Facts DEF FutureInv, OwnerBusy, Exclusion, OwnerBusyAt, ExclusionAt
    <2>4. ReplyThere' /\ NoLostWakeup'
      BY <2>1, Facts DEF FutureInv, ReplyThere, ReplyThereAt, NoLostWakeup
    <2> QED BY <2>2, <2>3, <2>4 DEF FutureInv
  <1> QED BY <1>1, <1>2

\* A pending future is handed to another task, which is to poll it anew.
LEMMA MoveStep ==
    ASSUME FutureInv, NEW f \in Future, NEW t \in Task, Move(f, t)
    PROVE  FutureInv'
  <1>0. /\ OwnerBusyAt(f) /\ ExclusionAt(f) /\ ReplyThereAt(f) /\ NotLostAt(f)
        /\ OneEach /\ OwnerBusy /\ TypeOK /\ t # NoTask
    BY Facts DEF FutureInv, OwnerBusy, Exclusion, ReplyThere, NoLostWakeup, NotLostAt
  <1>1. \A g \in Future \ {f} : owner[g] # NoTask => owner[g] # t /\ owner[g] # owner[f]
    BY <1>0 DEF Move, OneEach, OwnerBusy, OwnerBusyAt
  <1>2. /\ owner' = [owner EXCEPT ![f] = t] /\ owner[f] # t /\ owner[f] \in Task
        /\ UNCHANGED <<reply_msg, waker, mutex, sender, notified>>
    BY <1>0, Facts DEF Move
  <1>3. /\ task'[t] = "runnable"
        /\ \A g \in Future \ {f} : owner[g] # NoTask => task'[owner[g]] = task[owner[g]]
    BY <1>0, <1>1, <1>2, Facts DEF Move, TypeOK
  <1>4. TypeOK'
    BY <1>0 DEF Move, TypeOK
  <1>5. OneEach'
    BY <1>0, <1>1, <1>2 DEF TypeOK, OneEach
  <1>6. (OwnerBusyAt(f) /\ ExclusionAt(f) /\ ReplyThereAt(f) /\ NotLostAt(f))'
    BY <1>0, <1>2, <1>3, Facts DEF Move, TypeOK, OwnerBusyAt, ExclusionAt, ReplyThereAt, NotLostAt
  <1> QED BY <1>0, <1>2, <1>3, <1>4, <1>5, <1>6, Frame DEF TypeOK

\* Every step of the thread, of the tasks and of the runtime keeps the invariant.
LEMMA FutureStep == FutureInv /\ [Next]_vars => FutureInv'
  <1> SUFFICES ASSUME FutureInv, [Next]_vars
               PROVE  FutureInv'
    OBVIOUS
  <1>1. CASE UNCHANGED vars
    BY <1>1 DEF vars, FutureInv, TypeOK, OneEach, OwnerBusy, Exclusion, ReplyThere, NoLostWakeup,
       OwnerBusyAt, ExclusionAt, ReplyThereAt
  <1> QED BY <1>1, ThreadStep, PollStep, TaskStep, MoveStep DEF Next, Runs

\* A task never sleeps on a reply that is there: set_reply and poll exclude each other, and
\* the waker that is stored is the one of the task that polled last.
THEOREM NoWakeupIsLost == Spec => []NoLostWakeup
  <1>1. FutureInv => NoLostWakeup
    BY DEF FutureInv
  <1> QED BY <1>1, FutureInit, FutureStep, PTL DEF Spec

\* A reply is set once and returned once, whatever the two threads do meanwhile.
THEOREM PromiseIsKept == Spec => Kept!Safety
  <1>1. Init => Kept!Init
    BY FutureInit DEF Init, Kept!Init, promise, FutureInv, ReplyThere, ReplyThereAt
  <1>2. ASSUME FutureInv, [Next]_vars
        PROVE  [Kept!Next]_promise
    <2>1. ASSUME owner' = owner, reply_msg' = reply_msg
          PROVE  promise' = promise
      BY <2>1 DEF promise
    <2>2. ASSUME NEW f \in Future, SetReply(f)
          PROVE  [Kept!Next]_promise
      <3>1. CASE owner[f] # NoTask
        <4>1. promise[f] = "waiting"
          BY <1>2, <2>2, <3>1 DEF SetReply, promise, FutureInv, ReplyThere, ReplyThereAt
        <4>2. promise' = [promise EXCEPT ![f] = "replied"]
          BY <1>2, <2>2, <3>1 DEF SetReply, promise, FutureInv, TypeOK
        <4>3. Kept!Put(f)
          BY <4>1, <4>2 DEF Kept!Put
        <4> QED BY <4>3 DEF Kept!Next
      <3>2. CASE owner[f] = NoTask
        BY <1>2, <2>2, <3>2 DEF SetReply, FutureInv, ReplyThere, ReplyThereAt
      <3> QED BY <3>1, <3>2
    <2>3. ASSUME NEW t \in Task, NEW f \in Future, PollReady(t, f)
          PROVE  [Kept!Next]_promise
      <3>1. owner[f] # NoTask
        BY <2>3, TaskAssumption DEF PollReady, Awaits
      <3>2. promise[f] = "replied" /\ promise' = [promise EXCEPT ![f] = "returned"]
        BY <1>2, <2>3, <3>1 DEF PollReady, promise, FutureInv, TypeOK
      <3>3. Kept!Take(f)
        BY <3>2 DEF Kept!Take
      <3> QED BY <3>3 DEF Kept!Next
    <2>4. ASSUME NEW t \in Task, NEW f \in Future, Move(f, t)
          PROVE  [Kept!Next]_promise
      <3>1. t # NoTask
        BY TaskAssumption
      <3>2. promise' = promise
        BY <1>2, <2>4, <3>1 DEF Move, promise, FutureInv, TypeOK
      <3> QED BY <3>2
    <2>5. ASSUME NEW f \in Future, SetReplyLocks(f) \/ SetReplyWakes(f)
          PROVE  [Kept!Next]_promise
      BY <2>1, <2>5 DEF SetReplyLocks, SetReplyWakes
    <2>6. ASSUME NEW t \in Task, NEW f \in Future,
                 PollLocks(t, f) \/ PollFindsNoReply(t, f) \/ PollPending(t, f)
          PROVE  [Kept!Next]_promise
      BY <2>1, <2>6 DEF PollLocks, PollFindsNoReply, PollPending
    <2>7. ASSUME NEW t \in Task, Run(t) \/ WokenByOthers(t)
          PROVE  [Kept!Next]_promise
      BY <2>1, <2>7 DEF Run, WokenByOthers
    <2>8. CASE UNCHANGED vars
      BY <2>1, <2>8 DEF vars
    <2> QED BY <1>2, <2>2, <2>3, <2>4, <2>5, <2>6, <2>7, <2>8 DEF Next, Thread, Runs, Poll
  <1> QED BY <1>1, <1>2, FutureInit, FutureStep, PTL DEF Spec, Kept!Safety
=============================================================================
