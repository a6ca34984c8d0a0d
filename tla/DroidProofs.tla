---------------------------- MODULE DroidProofs ----------------------------
(***************************************************************************)
(* Theorems of DroidPeripheral, for every set of calls, whatever the       *)
(* framework refuses or fails to do, and then of DroidCalls.  The          *)
(* behaviour of the Java peripheral below the calls of a client is one of  *)
(* DroidPeripheral, so its inductive invariant holds there: what the       *)
(* framework completes is the command that runs, and the commands in line  *)
(* were not woken before.                                                  *)
(***************************************************************************)
EXTENDS DroidCalls, SequenceTheorems, TLAPS


----------------------------------------------------------------------------
(* Running commands. *)

\* The commands of q are those that were made and have not ended, each once.
QueueOK(q, res, m) ==
    /\ q \in Seq(Req)
    /\ \A i, j \in 1..Len(q) : q[i] = q[j] => i = j
    /\ res \in [Req -> Result]
    /\ \A r \in Req : (\E i \in 1..Len(q) : q[i] = r) <=> r \in m /\ res[r] = "none"
    /\ \A r \in Req \ m : res[r] = "none"

GattType == [open : BOOLEAN, link : {"down", "dialling", "up", "hanging up"},
             op : Req \cup {NoReq}]

\* The framework has nothing to do, and `on` says whether its link is up.
GattOK(on, g) ==
    /\ g \in GattType
    /\ g.op = NoReq
    /\ g.link \in {"up", "down"}
    /\ on <=> g.link = "up"
    /\ g.link # "down" => g.open

\* line and its membership in terms of 1..Len.
LEMMA LineProperties ==
    ASSUME TypeOK
    PROVE  line \in Seq(Req) /\ DOMAIN line = 1..Len(line)
  <1>1. commandQueue \in Seq(Req)
    BY DEF TypeOK
  <1>2. ASSUME commandCallback # NoReq
        PROVE  line \in Seq(Req)
    <2>0. commandCallback \in Req
      BY <1>2 DEF TypeOK
    <2>1. <<commandCallback>> \in Seq(Req)
      BY <2>0
    <2> QED BY <1>1, <1>2, <2>1, ConcatProperties DEF line
  <1>3. line \in Seq(Req)
    BY <1>1, <1>2 DEF line
  <1> QED BY <1>3, LenProperties

\* n commands of q have ended; the next one, if there is one, runs.
RunTo(q, res, on, g, n) ==
    /\ line' = SubSeq(q, n + 1, Len(q))
    /\ result' = [r \in Req |-> IF \E i \in 1..n : q[i] = r THEN AtOnce(r, on) ELSE res[r]]
    /\ commandQueue' \in Seq(Req)
    /\ \/ /\ n = Len(q)
          /\ executingCommand' = FALSE
          /\ commandCallback' = NoReq
          /\ commandQueue' = <<>>
          /\ gatt' = g
       \/ /\ n < Len(q)
          /\ Waits(q[n + 1], on)
          /\ executingCommand' = TRUE
          /\ commandCallback' = q[n + 1]
          /\ gatt' = Start(q[n + 1], g)

\* What RunCommands leaves of the line, as a tail of q.
LEMMA RunTail ==
    ASSUME NEW q \in Seq(Req), NEW res, NEW on, NEW g, RunCommands(q, res, on, g)
    PROVE  \E n \in 0..Len(q) : RunTo(q, res, on, g, n)
  <1>0. Len(q) \in Nat
    BY LenProperties
  <1>1. PICK n \in 0..Len(q) :
          /\ result' = [r \in Req |-> IF \E i \in 1..n : q[i] = r THEN AtOnce(r, on) ELSE res[r]]
          /\ \/ /\ n = Len(q) /\ executingCommand' = FALSE /\ commandCallback' = NoReq
                /\ commandQueue' = <<>> /\ gatt' = g
             \/ /\ n < Len(q) /\ Waits(q[n + 1], on) /\ executingCommand' = TRUE
                /\ commandCallback' = q[n + 1] /\ commandQueue' = SubSeq(q, n + 2, Len(q))
                /\ gatt' = Start(q[n + 1], g)
    BY DEF RunCommands, RemoveNext
  <1>2. CASE n = Len(q)
    <2>1. SubSeq(q, n + 1, Len(q)) = <<>>
      BY <1>0, <1>2, SubSeqEmpty
    <2>2. ~ (n < Len(q))
      BY <1>0, <1>2
    <2>3. line' = <<>>
      BY <1>1, <2>2 DEF line
    <2>4. commandQueue' \in Seq(Req)
      <3>1. commandQueue' = <<>>
        BY <1>1, <2>2
      <3> QED BY <3>1
    <2>5. RunTo(q, res, on, g, n)
      BY <1>1, <2>1, <2>2, <2>3, <2>4 DEF RunTo
    <2> QED BY <2>5
  <1>3. CASE n < Len(q)
    <2>1. n + 1 \in 1..Len(q) /\ q[n + 1] \in Req /\ n + 2 \in Int /\ Len(q) \in (n + 1)..Len(q)
      BY <1>0, <1>3, ElementOfSeq
    <2>2. SubSeq(q, n + 1, Len(q)) = <<q[n + 1]>> \o SubSeq(q, n + 2, Len(q))
      <3>1. SubSeq(q, n + 1, Len(q)) = <<q[n + 1]>> \o SubSeq(q, n + 1 + 1, Len(q))
        BY <2>1, SubSeqRecursiveFirst
      <3>2. n + 1 + 1 = n + 2
        BY <1>0
      <3> QED BY <3>1, <3>2
    <2>7. /\ Waits(q[n + 1], on) /\ executingCommand' = TRUE
          /\ commandCallback' = q[n + 1] /\ commandQueue' = SubSeq(q, n + 2, Len(q))
          /\ gatt' = Start(q[n + 1], g)
      <3>1. n # Len(q)
        BY <1>0, <1>3
      <3> QED BY <1>1, <3>1
    <2>8. q[n + 1] # NoReq
      BY <2>1, DroidAssumption
    <2>3. line' = <<q[n + 1]>> \o SubSeq(q, n + 2, Len(q))
      BY <2>7, <2>8 DEF line
    <2>4. \A i \in (n + 2)..Len(q) : q[i] \in Req
      BY <1>0, ElementOfSeq
    <2>5. SubSeq(q, n + 2, Len(q)) \in Seq(Req)
      BY <1>0, <2>1, <2>4, SubSeqProperties
    <2>6. line' = SubSeq(q, n + 1, Len(q)) /\ commandQueue' \in Seq(Req)
      BY <2>2, <2>3, <2>5, <2>7
    <2>9. RunTo(q, res, on, g, n)
      BY <1>1, <1>3, <2>6, <2>7 DEF RunTo
    <2> QED BY <2>9
  <1> QED BY <1>0, <1>2, <1>3

\* Whatever the commands of q do, the one that runs last waits for the framework, and the
\* framework works for it alone.
LEMMA RunKeeps ==
    ASSUME NEW q, NEW res, NEW on \in BOOLEAN, NEW g,
           ask \in [Req -> Asks], ask' = ask, made' \subseteq Req, connected' = on,
           QueueOK(q, res, made'), GattOK(on, g), RunCommands(q, res, on, g)
    PROVE  /\ result' \in [Req -> Result]
           /\ executingCommand' \in BOOLEAN
           /\ commandQueue' \in Seq(Req)
           /\ commandCallback' \in Req \cup {NoReq}
           /\ gatt' \in GattType
           /\ CallInOnePlace'
           /\ OutstandingIsRunning'
           /\ ConnectedHasGatt'
           /\ StuckNeedsCause'
           /\ \E n \in 0..Len(q) : line' = SubSeq(q, n + 1, Len(q))
  <1>1. q \in Seq(Req) /\ Len(q) \in Nat /\ \A i \in 1..Len(q) : q[i] \in Req
    BY LenProperties, ElementOfSeq DEF QueueOK
  <1>2. PICK n \in 0..Len(q) : RunTo(q, res, on, g, n)
    BY <1>1, RunTail
  <1>3. n \in Nat /\ n <= Len(q) /\ n + 1 \in Int
    BY <1>1
  <1>4. /\ line' \in Seq(Req)
        /\ Len(line') = Len(q) - n
        /\ \A i \in 1..(Len(q) - n) : line'[i] = q[i + n]
    <2>1. \A i \in (n + 1)..Len(q) : q[i] \in Req
      BY <1>1, <1>3
    <2>2. /\ SubSeq(q, n + 1, Len(q)) \in Seq(Req)
          /\ Len(SubSeq(q, n + 1, Len(q))) = IF n + 1 <= Len(q) THEN Len(q) - (n + 1) + 1 ELSE 0
          /\ \A i \in 1..(Len(q) - (n + 1) + 1) : SubSeq(q, n + 1, Len(q))[i] = q[n + 1 + i - 1]
      BY <1>1, <1>3, <2>1, SubSeqProperties
    <2>3. line' = SubSeq(q, n + 1, Len(q))
      BY <1>2 DEF RunTo
    <2>4. Len(line') = Len(q) - n
      BY <1>1, <1>3, <2>2, <2>3
    <2>5. ASSUME NEW i \in 1..(Len(q) - n)
          PROVE  line'[i] = q[i + n]
      <3>1. i \in 1..(Len(q) - (n + 1) + 1) /\ n + 1 + i - 1 = i + n
        BY <1>1, <1>3
      <3>2. line'[i] = q[n + 1 + i - 1]
        BY <2>2, <2>3, <3>1
      <3> QED BY <3>1, <3>2
    <2> QED BY <2>2, <2>3, <2>4, <2>5
  <1>5. DOMAIN line' = 1..(Len(q) - n)
    BY <1>4, LenProperties
  <1>6. result' \in [Req -> Result]
    <2>1. \A r \in Req : AtOnce(r, on) \in Result
      BY DEF AtOnce, Result
    <2> QED BY <1>2, <2>1 DEF RunTo, QueueOK
  <1>7. ASSUME NEW r \in Req
        PROVE  (\E i \in DOMAIN line' : line'[i] = r) <=> r \in made' /\ result'[r] = "none"
    <2>1. CASE \E i \in 1..n : q[i] = r
      <3>1. PICK i \in 1..n : q[i] = r
        BY <2>1
      <3>2. result'[r] # "none"
        BY <1>2, <2>1 DEF RunTo, AtOnce
      <3>3. ASSUME NEW j \in 1..(Len(q) - n)
            PROVE  line'[j] # r
        <4>1. j + n \in 1..Len(q) /\ i \in 1..Len(q) /\ i # j + n
          BY <1>1, <1>3
        <4>2. q[j + n] # q[i]
          BY <4>1 DEF QueueOK
        <4> QED BY <1>4, <3>1, <4>2
      <3> QED BY <1>5, <3>2, <3>3
    <2>2. CASE ~ \E i \in 1..n : q[i] = r
      <3>1. result'[r] = res[r]
        BY <1>2, <2>2 DEF RunTo
      <3>2. ASSUME NEW i \in 1..Len(q), q[i] = r
            PROVE  \E j \in 1..(Len(q) - n) : line'[j] = r
        <4>1. ~ (i \in 1..n)
          BY <2>2, <3>2
        <4>2. i - n \in 1..(Len(q) - n) /\ (i - n) + n = i
          BY <1>1, <1>3, <4>1
        <4>3. line'[i - n] = r
          BY <1>4, <3>2, <4>2
        <4> QED BY <4>2, <4>3
      <3>3. ASSUME NEW j \in 1..(Len(q) - n), line'[j] = r
            PROVE  \E i \in 1..Len(q) : q[i] = r
        <4>1. j + n \in 1..Len(q)
          BY <1>1, <1>3
        <4> QED BY <1>4, <3>3, <4>1
      <3>4. (\E i \in 1..Len(q) : q[i] = r) <=> \E j \in 1..(Len(q) - n) : line'[j] = r
        BY <3>2, <3>3
      <3> QED BY <1>5, <3>1, <3>4 DEF QueueOK
    <2> QED BY <2>1, <2>2
  <1>8. \A i, j \in DOMAIN line' : line'[i] = line'[j] => i = j
    <2>1. ASSUME NEW i \in 1..(Len(q) - n), NEW j \in 1..(Len(q) - n), line'[i] = line'[j]
          PROVE  i = j
      <3>1. i + n \in 1..Len(q) /\ j + n \in 1..Len(q) /\ q[i + n] = q[j + n]
        BY <1>1, <1>3, <1>4, <2>1
      <3>2. i + n = j + n
        BY <3>1 DEF QueueOK
      <3> QED BY <1>3, <3>2
    <2> QED BY <1>5, <2>1
  <1>9. \/ /\ executingCommand' = FALSE
           /\ commandCallback' = NoReq
           /\ commandQueue' = <<>>
           /\ gatt' = g
        \/ /\ executingCommand' = TRUE
           /\ commandCallback' \in Req
           /\ Waits(commandCallback', on)
           /\ gatt' = Start(commandCallback', g)
    <2>1. n < Len(q) => q[n + 1] \in Req
      BY <1>1, <1>3
    <2> QED BY <1>2, <2>1 DEF RunTo
  <1>10. commandQueue' \in Seq(Req)
    BY <1>2 DEF RunTo
  <1>11. CallInOnePlace'
    <2>1. executingCommand' <=> commandCallback' # NoReq
      BY <1>9, DroidAssumption
    <2>2. ~ executingCommand' => commandQueue' = <<>>
      BY <1>9
    <2>3. ASSUME NEW r \in Req \ made'
          PROVE  result'[r] = "none"
      <3>1. res[r] = "none" /\ ~ \E i \in 1..Len(q) : q[i] = r
        BY DEF QueueOK
      <3>2. ~ \E i \in 1..n : q[i] = r
        BY <1>1, <1>3, <3>1
      <3> QED BY <1>2, <3>1, <3>2 DEF RunTo
    <2> QED BY <1>7, <1>8, <2>1, <2>2, <2>3 DEF CallInOnePlace
  <1>12. /\ gatt' \in GattType
         /\ OutstandingIsRunning'
         /\ ConnectedHasGatt'
         /\ StuckNeedsCause'
    <2>1. CASE commandCallback' = NoReq /\ gatt' = g
      BY <2>1 DEF GattOK, OutstandingIsRunning, ConnectedHasGatt, StuckNeedsCause
    <2>2. CASE /\ commandCallback' \in Req
               /\ Waits(commandCallback', on)
               /\ gatt' = Start(commandCallback', g)
      <3> DEFINE op == ask[commandCallback'].op
      <3>1. commandCallback' # NoReq /\ ask'[commandCallback'].op = op
        BY <2>2, DroidAssumption
      <3>2. CASE op = "connect"
        <4>1. ~ on /\ g.link = "down" /\ gatt' = [g EXCEPT !.open = TRUE, !.link = "dialling"]
          BY <2>2, <3>2 DEF Waits, Start, GattOK
        <4>2. /\ gatt' \in GattType /\ gatt'.link = "dialling" /\ gatt'.open
              /\ gatt'.op = NoReq
          BY <4>1 DEF GattOK, GattType
        <4> QED BY <3>1, <3>2, <4>1, <4>2
                DEF OutstandingIsRunning, ConnectedHasGatt, StuckNeedsCause
      <3>3. CASE op = "disconnect"
        <4>1. on /\ g.link = "up" /\ gatt' = [g EXCEPT !.link = "hanging up"]
          BY <2>2, <3>3 DEF Waits, Start, GattOK
        <4>2. /\ gatt' \in GattType /\ gatt'.link = "hanging up" /\ gatt'.open
              /\ gatt'.op = NoReq
          BY <4>1 DEF GattOK, GattType
        <4> QED BY <3>1, <3>3, <4>1, <4>2
                DEF OutstandingIsRunning, ConnectedHasGatt, StuckNeedsCause
      <3>4. CASE op \notin LinkOp
        <4>1. on /\ g.link = "up" /\ gatt' = [g EXCEPT !.op = commandCallback']
          BY <2>2, <3>4 DEF Waits, Start, GattOK, LinkOp
        <4>2. /\ gatt' \in GattType /\ gatt'.link = "up" /\ gatt'.open
              /\ gatt'.op = commandCallback'
          BY <2>2, <4>1 DEF GattOK, GattType
        <4> QED BY <3>1, <3>4, <4>1, <4>2
                DEF OutstandingIsRunning, ConnectedHasGatt, StuckNeedsCause, LinkOp
      <3> QED BY <3>2, <3>3, <3>4 DEF LinkOp
    <2> QED BY <1>9, <2>1, <2>2
  <1>13. executingCommand' \in BOOLEAN /\ commandCallback' \in Req \cup {NoReq}
    BY <1>9
  <1>14. \E m \in 0..Len(q) : line' = SubSeq(q, m + 1, Len(q))
    BY <1>2 DEF RunTo
  <1> QED BY <1>6, <1>10, <1>11, <1>12, <1>13, <1>14

\* What waits behind the command that runs, once that has ended.
LEMMA RestIsOK ==
    ASSUME TypeOK, CallInOnePlace, commandCallback # NoReq, NEW with \in Result \ {"none"}
    PROVE  /\ QueueOK(commandQueue, [result EXCEPT ![commandCallback] = with], made)
           /\ Len(line) = Len(commandQueue) + 1
           /\ \A i \in 1..Len(commandQueue) : line[i + 1] = commandQueue[i]
  <1> DEFINE c == commandCallback
             q == commandQueue
             res == [result EXCEPT ![c] = with]
  <1>1. c \in Req /\ q \in Seq(Req) /\ Len(q) \in Nat /\ line = <<c>> \o q
    BY LenProperties DEF TypeOK, line
  <1>2. <<c>> \in Seq(Req) /\ Len(<<c>>) = 1 /\ <<c>>[1] = c
    BY <1>1
  <1>3. /\ Len(line) = 1 + Len(q)
        /\ \A i \in 1..(1 + Len(q)) : line[i] = IF i <= 1 THEN <<c>>[i] ELSE q[i - 1]
    BY <1>1, <1>2, ConcatProperties
  <1>4. DOMAIN line = 1..(1 + Len(q))
    BY <1>3, LineProperties
  <1>5. line[1] = c
    BY <1>1, <1>2, <1>3
  <1>6. ASSUME NEW i \in 1..Len(q)
        PROVE  i + 1 \in DOMAIN line /\ line[i + 1] = q[i] /\ q[i] # c
    <2>1. i + 1 \in 1..(1 + Len(q)) /\ ~ (i + 1 <= 1) /\ (i + 1) - 1 = i /\ 1 \in 1..(1 + Len(q))
      BY <1>1
    <2>2. line[i + 1] = q[i]
      BY <1>3, <2>1
    <2>3. line[i + 1] # line[1]
      BY <1>4, <2>1 DEF CallInOnePlace
    <2> QED BY <1>4, <1>5, <2>1, <2>2, <2>3
  <1>7. \A i, j \in 1..Len(q) : q[i] = q[j] => i = j
    <2>1. ASSUME NEW i \in 1..Len(q), NEW j \in 1..Len(q), q[i] = q[j]
          PROVE  i = j
      <3>1. i + 1 = j + 1
        BY <1>6, <2>1 DEF CallInOnePlace
      <3> QED BY <1>1, <3>1
    <2> QED BY <2>1
  <1>8. res \in [Req -> Result] /\ res[c] # "none" /\ \A r \in Req \ {c} : res[r] = result[r]
    BY <1>1 DEF TypeOK
  <1>9. ASSUME NEW r \in Req
        PROVE  (\E i \in 1..Len(q) : q[i] = r) <=> r \in made /\ res[r] = "none"
    <2>1. CASE r = c
      BY <1>6, <1>8, <2>1
    <2>2. CASE r # c
      <3>1. ASSUME NEW i \in DOMAIN line, line[i] = r
            PROVE  \E j \in 1..Len(q) : q[j] = r
        <4>1. i # 1
          BY <1>5, <2>2, <3>1
        <4>2. i - 1 \in 1..Len(q) /\ ~ (i <= 1) /\ i \in 1..(1 + Len(q))
          BY <1>1, <1>4, <4>1
        <4>3. q[i - 1] = r
          BY <1>3, <3>1, <4>2
        <4> QED BY <4>2, <4>3
      <3>2. (\E i \in 1..Len(q) : q[i] = r) <=> \E i \in DOMAIN line : line[i] = r
        BY <1>6, <3>1
      <3> QED BY <1>8, <2>2, <3>2 DEF CallInOnePlace
    <2> QED BY <2>1, <2>2
  <1>10. Len(line) = Len(q) + 1
    BY <1>1, <1>3
  <1>11. \A r \in Req \ made : res[r] = "none"
    <2>1. c \in made
      <3>1. 1 \in DOMAIN line
        BY <1>1, <1>4
      <3> QED BY <1>1, <1>5, <3>1 DEF CallInOnePlace
    <2> QED BY <1>8, <2>1 DEF CallInOnePlace
  <1> QED BY <1>1, <1>6, <1>7, <1>8, <1>9, <1>10, <1>11 DEF QueueOK

\* The parts of the invariant a step that runs commands establishes.
RunInv ==
    /\ result \in [Req -> Result]
    /\ executingCommand \in BOOLEAN
    /\ commandQueue \in Seq(Req)
    /\ commandCallback \in Req \cup {NoReq}
    /\ gatt \in GattType
    /\ CallInOnePlace
    /\ OutstandingIsRunning
    /\ ConnectedHasGatt
    /\ StuckNeedsCause

\* The command that runs ends: RunInv holds after it, and the line has moved on.
LEMMA WakeKeeps ==
    ASSUME IInv, commandCallback # NoReq, NEW with \in Result \ {"none"},
           NEW on \in BOOLEAN, NEW g, GattOK(on, g), ask' = ask, made' = made, connected' = on,
           WakeCommand(with, on, g)
    PROVE  /\ RunInv'
           /\ \E n \in 1..Len(line) : line' = SubSeq(line, n + 1, Len(line))
  <1> DEFINE q == commandQueue
             res == [result EXCEPT ![commandCallback] = with]
  <1>1. /\ QueueOK(q, res, made')
        /\ Len(line) = Len(q) + 1
        /\ \A i \in 1..Len(q) : line[i + 1] = q[i]
    BY RestIsOK DEF IInv
  <1>2. RunCommands(q, res, on, g)
    BY DEF WakeCommand
  <1>3. ask \in [Req -> Asks] /\ made' \subseteq Req /\ q \in Seq(Req) /\ line \in Seq(Req)
    BY LineProperties DEF IInv, TypeOK
  <1>4. RunInv' /\ \E n \in 0..Len(q) : line' = SubSeq(q, n + 1, Len(q))
    <2> HIDE DEF q, res
    <2> QED BY <1>1, <1>2, <1>3, RunKeeps DEF RunInv
  <1>5. PICK n \in 0..Len(q) : line' = SubSeq(q, n + 1, Len(q))
    BY <1>4
  <1>6. Len(q) \in Nat /\ n \in Nat /\ n <= Len(q)
    BY <1>3, LenProperties
  <1>7. SubSeq(q, n + 1, Len(q)) = SubSeq(line, n + 2, Len(line))
    <2> DEFINE s == SubSeq(q, n + 1, Len(q))
               t == SubSeq(line, n + 2, Len(line))
    <2>1. /\ s \in Seq(Req)
          /\ Len(s) = IF n + 1 <= Len(q) THEN Len(q) - (n + 1) + 1 ELSE 0
          /\ \A i \in 1..(Len(q) - (n + 1) + 1) : s[i] = q[n + 1 + i - 1]
      <3>1. \A i \in (n + 1)..Len(q) : q[i] \in Req
        BY <1>3, <1>6, ElementOfSeq
      <3> QED BY <1>6, <3>1, SubSeqProperties
    <2>2. /\ t \in Seq(Req)
          /\ Len(t) = IF n + 2 <= Len(line) THEN Len(line) - (n + 2) + 1 ELSE 0
          /\ \A i \in 1..(Len(line) - (n + 2) + 1) : t[i] = line[n + 2 + i - 1]
      <3>1. \A i \in (n + 2)..Len(line) : line[i] \in Req
        BY <1>1, <1>3, <1>6, ElementOfSeq
      <3> QED BY <1>1, <1>6, <3>1, SubSeqProperties
    <2>3. Len(s) = Len(q) - n /\ Len(t) = Len(q) - n
      BY <1>1, <1>6, <2>1, <2>2
    <2>4. ASSUME NEW i \in 1..(Len(q) - n)
          PROVE  s[i] = t[i]
      <3>1. /\ i \in 1..(Len(q) - (n + 1) + 1) /\ n + 1 + i - 1 = n + i
            /\ i \in 1..(Len(line) - (n + 2) + 1) /\ n + 2 + i - 1 = (n + i) + 1
            /\ n + i \in 1..Len(q)
        BY <1>1, <1>6
      <3>2. s[i] = q[n + i] /\ t[i] = line[(n + i) + 1]
        BY <2>1, <2>2, <3>1
      <3> QED BY <1>1, <3>1, <3>2
    <2> HIDE DEF s, t
    <2>5. s = t
      BY <2>1, <2>2, <2>3, <2>4, SeqEqual
    <2> QED BY <2>5 DEF s, t
  <1>8. n + 1 \in 1..Len(line) /\ (n + 1) + 1 = n + 2
    BY <1>1, <1>6
  <1>9. line' = SubSeq(line, (n + 1) + 1, Len(line))
    BY <1>5, <1>7, <1>8
  <1> QED BY <1>4, <1>8, <1>9

----------------------------------------------------------------------------
(* The steps. *)

QueueStep == [Queue!Next]_<<line, made>>

\* A line that lost its first commands is a step of CommandQueue.
LEMMA QueueEnds ==
    ASSUME made' = made, \E n \in 1..Len(line) : line' = SubSeq(line, n + 1, Len(line))
    PROVE  QueueStep
BY DEF QueueStep, Queue!Next, Queue!End

\* Nothing is queued, nothing runs, no gatt is open.
LEMMA InvInit == Init => IInv /\ Queue!Init
  <1> SUFFICES ASSUME Init
               PROVE  IInv /\ Queue!Init
    OBVIOUS
  <1>1. TypeOK
    <2>1. commandQueue \in Seq(Req)
      <3>1. commandQueue = <<>>
        BY DEF Init
      <3> QED BY <3>1
    <2>2. result \in [Req -> Result]
      BY DEF Init, Result
    <2>3. late \in 0..MaxLate
      BY DroidAssumption DEF Init
    <2> QED BY <2>1, <2>2, <2>3 DEF Init, TypeOK, Closed
  <1>2. line = <<>> /\ made = {}
    BY DEF Init, line
  <1>3. CallInOnePlace
    <2>1. DOMAIN line = {}
      BY <1>1, <1>2, LineProperties
    <2> QED BY <1>2, <2>1 DEF Init, CallInOnePlace
  <1>4. OutstandingIsRunning /\ ConnectedHasGatt /\ StuckNeedsCause
    BY DEF Init, Closed, OutstandingIsRunning, ConnectedHasGatt, StuckNeedsCause
  <1> QED BY <1>1, <1>2, <1>3, <1>4 DEF IInv, Queue!Init

\* A command that comes while nothing runs is the whole line.
LEMMA CallsKeeps ==
    ASSUME IInv, NEW r \in Req, Calls(r)
    PROVE  IInv' /\ QueueStep
  <1>1. /\ r \notin made /\ made' = made \cup {r} /\ made' \subseteq Req
        /\ ask \in [Req -> Asks] /\ ask' = ask /\ connected' = connected /\ connected \in BOOLEAN
        /\ UNCHANGED reportVars
    BY DEF Calls, IInv, TypeOK
  <1>2. r # NoReq
    BY DroidAssumption
  <1>3. CASE executingCommand
    <2> DEFINE c == commandCallback
    <2>1. /\ commandQueue' = Append(commandQueue, r)
          /\ UNCHANGED <<result, executingCommand, commandCallback, gatt>>
      BY <1>3 DEF Calls, QueueCommand, Add
    <2>2. /\ c \in Req /\ c # NoReq /\ commandQueue \in Seq(Req) /\ commandQueue' \in Seq(Req)
          /\ line \in Seq(Req) /\ Len(line) \in Nat /\ DOMAIN line = 1..Len(line)
      <3>1. c \in Req /\ c # NoReq /\ commandQueue \in Seq(Req)
        BY <1>3 DEF IInv, TypeOK, CallInOnePlace
      <3> QED BY <2>1, <3>1, AppendProperties, LineProperties, LenProperties DEF IInv
    <2>3. line' = Append(line, r)
      <3>1. line = <<c>> \o commandQueue /\ line' = <<c>> \o Append(commandQueue, r)
        BY <2>1, <2>2 DEF line
      <3>2. Append(commandQueue, r) = commandQueue \o <<r>> /\ Append(line, r) = line \o <<r>>
        BY <2>2, AppendIsConcat
      <3>3. <<c>> \in Seq(Req) /\ <<r>> \in Seq(Req)
        BY <2>2
      <3> QED BY <2>2, <3>1, <3>2, <3>3, ConcatAssociative
    <2>4. QueueStep
      <3>1. Queue!Queue(r)
        BY <1>1, <2>3 DEF Queue!Queue
      <3> QED BY <3>1 DEF QueueStep, Queue!Next
    <2>5. /\ line' \in Seq(Req) /\ Len(line') = Len(line) + 1
          /\ \A i \in 1..Len(line) : line'[i] = line[i]
          /\ line'[Len(line) + 1] = r
      BY <2>2, <2>3, AppendProperties
    <2>6. DOMAIN line' = 1..(Len(line) + 1)
      BY <2>5, LenProperties
    <2>7. \A i \in 1..Len(line) : line[i] # r
      BY <1>1, <2>2 DEF IInv, CallInOnePlace
    <2>8. result[r] = "none"
      BY <1>1 DEF IInv, CallInOnePlace
    <2>9. CallInOnePlace'
      <3>1. \A i, j \in DOMAIN line' : line'[i] = line'[j] => i = j
        BY <2>2, <2>5, <2>6, <2>7 DEF IInv, CallInOnePlace
      <3>2. ASSUME NEW s \in Req
            PROVE  (\E i \in DOMAIN line' : line'[i] = s) <=> s \in made' /\ result'[s] = "none"
        <4>1. CASE s = r
          <5>1. Len(line) + 1 \in DOMAIN line'
            BY <2>2, <2>6
          <5> QED BY <1>1, <2>1, <2>5, <2>8, <4>1, <5>1
        <4>2. CASE s # r
          <5>1. (\E i \in DOMAIN line' : line'[i] = s) <=> \E i \in DOMAIN line : line[i] = s
            <6>1. \A i \in 1..(Len(line) + 1) : i \in 1..Len(line) \/ i = Len(line) + 1
              BY <2>2
            <6>2. 1..Len(line) \subseteq 1..(Len(line) + 1)
              BY <2>2
            <6> QED BY <2>2, <2>5, <2>6, <4>2, <6>1, <6>2
          <5> QED BY <1>1, <2>1, <4>2, <5>1 DEF IInv, CallInOnePlace
        <4> QED BY <4>1, <4>2
      <3>3. \A s \in Req \ made' : result'[s] = "none"
        BY <1>1, <2>1 DEF IInv, CallInOnePlace
      <3>4. executingCommand' /\ commandCallback' # NoReq
        BY <1>3, <2>1, <2>2
      <3> QED BY <3>1, <3>2, <3>3, <3>4 DEF CallInOnePlace
    <2> QED BY <1>1, <2>1, <2>2, <2>4, <2>9
            DEF IInv, TypeOK, OutstandingIsRunning, ConnectedHasGatt, StuckNeedsCause, reportVars
  <1>4. CASE ~ executingCommand
    <2> DEFINE q == <<r>> \o commandQueue
    <2>1. commandCallback = NoReq /\ commandQueue = <<>> /\ line = <<>>
      BY <1>4 DEF IInv, CallInOnePlace, line
    <2>2. q = <<r>>
      BY <2>1
    <2>3. RunCommands(<<r>>, result, connected, gatt)
      BY <1>4, <2>2 DEF Calls, QueueCommand
    <2>4. GattOK(connected, gatt)
      BY <2>1 DEF GattOK, GattType, IInv, TypeOK, OutstandingIsRunning, ConnectedHasGatt
    <2>5. QueueOK(<<r>>, result, made')
      <3>1. DOMAIN line = {}
        BY <2>1
      <3>2. result[r] = "none" /\ \A s \in Req \ {r} : ~ (s \in made' /\ result[s] = "none")
        BY <1>1, <3>1 DEF IInv, CallInOnePlace
      <3>3. <<r>> \in Seq(Req) /\ Len(<<r>>) = 1 /\ <<r>>[1] = r
        OBVIOUS
      <3>4. \A s \in Req : (\E i \in 1..Len(<<r>>) : <<r>>[i] = s) <=> s = r
        BY <3>3
      <3>5. r \in made' /\ \A s \in Req \ made' : result[s] = "none"
        BY <1>1 DEF IInv, CallInOnePlace
      <3>6. \A s \in Req : s = r <=> s \in made' /\ result[s] = "none"
        BY <3>2, <3>5
      <3>7. \A i, j \in 1..Len(<<r>>) : <<r>>[i] = <<r>>[j] => i = j
        BY <3>3
      <3>8. result \in [Req -> Result]
        BY DEF IInv, TypeOK
      <3> QED BY <3>3, <3>4, <3>5, <3>6, <3>7, <3>8 DEF QueueOK
    <2>6. RunInv' /\ \E n \in 0..Len(<<r>>) : line' = SubSeq(<<r>>, n + 1, Len(<<r>>))
      BY <1>1, <2>3, <2>4, <2>5, RunKeeps DEF RunInv
    <2>7. line' = <<r>> \/ line' = <<>>
      <3>1. PICK n \in 0..1 : line' = SubSeq(<<r>>, n + 1, 1)
        BY <2>6
      <3>2. SubSeq(<<r>>, 1, 1) = <<r>>
        <4>1. <<r>> \in Seq(Req) /\ Len(<<r>>) = 1
          OBVIOUS
        <4> QED BY <4>1, SubSeqFull
      <3>3. SubSeq(<<r>>, 2, 1) = <<>>
        BY SubSeqEmpty
      <3>4. n + 1 = 1 \/ n + 1 = 2
        OBVIOUS
      <3> QED BY <3>1, <3>2, <3>3, <3>4
    <2>8. QueueStep
      <3>1. Append(<<>>, r) = <<r>>
        OBVIOUS
      <3>2. Queue!Queue(r)
        BY <1>1, <2>1, <2>7, <3>1 DEF Queue!Queue
      <3> QED BY <3>2 DEF QueueStep, Queue!Next
    <2> QED BY <1>1, <2>6, <2>8 DEF IInv, TypeOK, RunInv, GattType, reportVars
  <1> QED BY <1>3, <1>4

\* A callback that ends no command leaves the line as it is.
LEMMA WaitKeeps ==
    ASSUME IInv, NEW g \in GattType, ask' = ask, made' = made, KeepWaiting(g)
    PROVE  /\ CallInOnePlace' /\ QueueStep /\ gatt' = g
           /\ UNCHANGED <<result, executingCommand, commandQueue, commandCallback>>
  <1>1. UNCHANGED <<result, executingCommand, commandQueue, commandCallback>> /\ gatt' = g
    BY DEF KeepWaiting
  <1>2. line' = line
    BY <1>1 DEF line
  <1>3. QueueStep
    BY <1>2 DEF QueueStep
  <1>4. CallInOnePlace'
    BY <1>1, <1>2 DEF IInv, CallInOnePlace
  <1> QED BY <1>1, <1>3, <1>4

\* A device that answers ends the connect() that runs, and no other command.
LEMMA ConnectedKeeps ==
    ASSUME IInv, Connected
    PROVE  IInv' /\ QueueStep
  <1> DEFINE g == [gatt EXCEPT !.link = "up"]
  <1>1. /\ gatt.link = "dialling" /\ gatt.open /\ gatt \in GattType
        /\ commandCallback # NoReq /\ ask[commandCallback].op = "connect"
        /\ gatt.op = NoReq
    BY DEF Connected, OnConnectionStateChange, ThreadIsFree, IInv, TypeOK, GattType,
           ConnectedHasGatt, OutstandingIsRunning
  <1>2. GattOK(TRUE, g)
    BY <1>1 DEF GattOK, GattType
  <1>3. /\ WakeCommand("ok", TRUE, g)
        /\ connected' = TRUE /\ ask' = ask /\ made' = made
        /\ reporting' = "up" /\ UNCHANGED <<late, told, overtaken>>
    BY <1>1 DEF Connected, OnConnectionStateChange, NewState, Tell, DescOp
  <1>4. RunInv' /\ \E n \in 1..Len(line) : line' = SubSeq(line, n + 1, Len(line))
    <2>1. "ok" \in Result \ {"none"}
      BY DEF Result
    <2> HIDE DEF g
    <2> QED BY <1>1, <1>2, <1>3, <2>1, WakeKeeps
  <1>5. QueueStep
    BY <1>3, <1>4, QueueEnds
  <1> QED BY <1>3, <1>4, <1>5 DEF IInv, TypeOK, RunInv, GattType

\* A link that goes down finds the command that runs: it ends it, or leaves it blocked for a cause.
LEMMA DisconnectedKeeps ==
    ASSUME IInv, Disconnected
    PROVE  IInv' /\ QueueStep
  <1> DEFINE g == [gatt EXCEPT !.link = "down", !.op = NoReq]
             op == ask[commandCallback].op
  <1>1. PICK success \in BOOLEAN : OnConnectionStateChange(FALSE, success, g)
    BY DEF Disconnected
  <1>2. /\ connected' = FALSE /\ ask' = ask /\ made' = made /\ UNCHANGED <<told, overtaken>>
        /\ late \in 0..MaxLate /\ late < MaxLate
        /\ reporting' \in {"none", "up", "down"} /\ late' \in {late, late + 1}
    BY <1>1 DEF OnConnectionStateChange, NewState, Tell, IInv, TypeOK
  <1>3. late' \in 0..MaxLate
    BY <1>2, DroidAssumption
  <1>4. /\ GattOK(FALSE, g) /\ GattOK(FALSE, Closed)
        /\ g \in GattType /\ g.op = NoReq /\ g.link = "down"
    BY DEF GattOK, GattType, Closed, IInv, TypeOK
  <1>5. ASSUME NEW with \in Result \ {"none"}, NEW h, GattOK(FALSE, h),
               WakeCommand(with, FALSE, h), commandCallback # NoReq
        PROVE  IInv' /\ QueueStep
    <2>1. RunInv' /\ \E n \in 1..Len(line) : line' = SubSeq(line, n + 1, Len(line))
      BY <1>2, <1>5, WakeKeeps
    <2>2. QueueStep
      BY <1>2, <2>1, QueueEnds
    <2> QED BY <1>2, <1>3, <2>1, <2>2 DEF IInv, TypeOK, RunInv, GattType
  <1>6. ASSUME KeepWaiting(g), commandCallback # NoReq => op \in {"connect"} \cup DescOp
        PROVE  IInv' /\ QueueStep
    <2> HIDE DEF g
    <2>1. /\ CallInOnePlace' /\ QueueStep /\ gatt' = g
          /\ UNCHANGED <<result, executingCommand, commandQueue, commandCallback>>
      BY <1>2, <1>4, <1>6, WaitKeeps
    <2>2. OutstandingIsRunning' /\ ConnectedHasGatt'
      BY <1>2, <1>4, <2>1 DEF OutstandingIsRunning, ConnectedHasGatt
    <2>3. StuckNeedsCause'
      BY <1>2, <1>6, <2>1 DEF StuckNeedsCause, DescOp
    <2> QED BY <1>2, <1>3, <1>4, <2>1, <2>2, <2>3 DEF IInv, TypeOK, GattType
  <1>7. \/ commandCallback = NoReq /\ KeepWaiting(g)
        \/ commandCallback # NoReq /\ op \in DescOp /\ KeepWaiting(g)
        \/ commandCallback # NoReq /\ op = "connect" /\ KeepWaiting(g)
        \/ commandCallback # NoReq /\ WakeCommand("error", FALSE, g)
        \/ commandCallback # NoReq /\ WakeCommand("ok", FALSE, Closed)
        \/ commandCallback # NoReq /\ WakeCommand("null", FALSE, Closed)
    <2> HIDE DEF g
    <2> QED BY <1>1 DEF OnConnectionStateChange
  <1>8. {"error", "ok", "null"} \subseteq Result \ {"none"}
    BY DEF Result
  <1> HIDE DEF g
  <1> QED BY <1>4, <1>5, <1>6, <1>7, <1>8

\* A completed operation is that of the command that runs.
LEMMA CompletedKeeps ==
    ASSUME IInv, Completed
    PROVE  IInv' /\ QueueStep
  <1> DEFINE op == ask[commandCallback].op
  <1>1. /\ connected' = connected /\ ask' = ask /\ made' = made
        /\ UNCHANGED <<reporting, late, told, overtaken>>
    BY DEF Completed, reportVars
  <1>2. gatt.op # NoReq
    BY DEF Completed, OnCharacteristicRead, OnCharacteristicWrite, OnServicesDiscovered,
           OnDescriptorWrite, OnDescriptorRead, Completes
  <1>3. /\ gatt.op = commandCallback /\ commandCallback # NoReq /\ gatt.link = "up"
        /\ connected = TRUE /\ gatt.open /\ gatt \in GattType /\ op \notin LinkOp
    BY <1>2 DEF IInv, TypeOK, OutstandingIsRunning, ConnectedHasGatt, GattType
  <1>4. /\ GattOK(TRUE, Idle)
        /\ Idle \in GattType /\ Idle.op = NoReq /\ Idle.link = "up" /\ Idle.open
    BY <1>3 DEF GattOK, GattType, Idle
  <1>5. ASSUME NEW with \in Result \ {"none"}, WakeCommand(with, connected, Idle)
        PROVE  IInv' /\ QueueStep
    <2>1. RunInv' /\ \E n \in 1..Len(line) : line' = SubSeq(line, n + 1, Len(line))
      BY <1>1, <1>3, <1>4, <1>5, WakeKeeps
    <2>2. QueueStep
      BY <1>1, <2>1, QueueEnds
    <2> QED BY <1>1, <2>1, <2>2 DEF IInv, TypeOK, RunInv, GattType
  <1>6. ASSUME KeepWaiting(Idle), op = "read_descriptor" \/ (op = "discover" /\ op \in MayFail)
        PROVE  IInv' /\ QueueStep
    <2>1. /\ CallInOnePlace' /\ QueueStep /\ gatt' = Idle
          /\ UNCHANGED <<result, executingCommand, commandQueue, commandCallback>>
      BY <1>1, <1>4, <1>6, WaitKeeps
    <2>2. OutstandingIsRunning' /\ ConnectedHasGatt'
      BY <1>1, <1>3, <1>4, <2>1 DEF OutstandingIsRunning, ConnectedHasGatt, LinkOp
    <2>3. StuckNeedsCause'
      BY <1>1, <1>6, <2>1 DEF StuckNeedsCause
    <2> QED BY <1>1, <1>4, <2>1, <2>2, <2>3 DEF IInv, TypeOK, GattType
  <1>7. \/ WakeCommand("ok", connected, Idle)
        \/ WakeCommand("error", connected, Idle)
        \/ KeepWaiting(Idle) /\ (op = "read_descriptor" \/ (op = "discover" /\ op \in MayFail))
    BY <1>3 DEF Completed, OnCharacteristicRead, OnCharacteristicWrite, OnServicesDiscovered,
                OnDescriptorWrite, OnDescriptorRead, Completes, Handled, WakeIfExpected
  <1>8. {"error", "ok"} \subseteq Result \ {"none"}
    BY DEF Result
  <1> QED BY <1>5, <1>6, <1>7, <1>8

\* The reports to the adapter disturb no command.
LEMMA ReportsKeep ==
    ASSUME IInv, Report \/ ReportLate
    PROVE  IInv' /\ QueueStep
  <1>0. /\ late \in 0..MaxLate /\ MaxLate \in Nat /\ overtaken \in BOOLEAN
        /\ reporting \in {"none", "up", "down"} /\ told \in {"up", "down"}
    BY DroidAssumption DEF IInv, TypeOK
  <1>1. /\ UNCHANGED <<ask, made, connected, result, executingCommand, commandQueue,
                       commandCallback, gatt>>
        /\ reporting' \in {"none", "up", "down"} /\ told' \in {"up", "down"}
        /\ late' \in 0..MaxLate /\ overtaken' \in BOOLEAN
    <2>1. CASE Report
      <3>1. overtaken' = (late > 0)
        BY <2>1 DEF Report
      <3>2. overtaken' \in BOOLEAN
        BY <3>1
      <3> QED BY <1>0, <2>1, <3>2 DEF Report, javaVars
    <2>2. CASE ReportLate
      <3>1. late > 0 /\ late' = late - 1
        BY <2>2 DEF ReportLate
      <3>2. late' \in 0..MaxLate
        BY <1>0, <3>1
      <3> QED BY <1>0, <2>2, <3>2 DEF ReportLate, javaVars
    <2> QED BY <2>1, <2>2
  <1>2. line' = line
    BY <1>1 DEF line
  <1>3. QueueStep
    BY <1>1, <1>2 DEF QueueStep
  <1>4. TypeOK'
    BY <1>1 DEF IInv, TypeOK
  <1>5. CallInOnePlace'
    BY <1>1, <1>2 DEF IInv, CallInOnePlace
  <1>6. OutstandingIsRunning' /\ ConnectedHasGatt' /\ StuckNeedsCause'
    BY <1>1 DEF IInv, OutstandingIsRunning, ConnectedHasGatt, StuckNeedsCause
  <1> QED BY <1>3, <1>4, <1>5, <1>6 DEF IInv

\* Every step keeps the invariant and is a step of CommandQueue.
LEMMA StepKeeps == IInv /\ [Next]_vars => IInv' /\ QueueStep
  <1> SUFFICES ASSUME IInv, [Next]_vars
               PROVE  IInv' /\ QueueStep
    OBVIOUS
  <1>1. CASE UNCHANGED vars
    <2>1. UNCHANGED <<ask, made, connected, result, executingCommand, commandQueue,
                      commandCallback, gatt, reporting, late, told, overtaken>>
      BY <1>1 DEF vars, javaVars, reportVars
    <2>2. line' = line
      BY <2>1 DEF line
    <2>3. QueueStep
      BY <2>1, <2>2 DEF QueueStep
    <2> QED BY ZenonT(60), <2>1, <2>2, <2>3 DEF IInv, TypeOK, CallInOnePlace, OutstandingIsRunning,
                                    ConnectedHasGatt, StuckNeedsCause
  <1> QED BY <1>1, CallsKeeps, ConnectedKeeps, DisconnectedKeeps, CompletedKeeps, ReportsKeep
          DEF Next

----------------------------------------------------------------------------
(* Theorems. *)

\* What a command finds when its turn comes, and what it leaves, in every reachable state.
THEOREM Invariance == Spec => []IInv
  <1>1. Init => IInv
    BY InvInit
  <1>2. IInv /\ [Next]_vars => IInv'
    BY StepKeeps
  <1> QED BY <1>1, <1>2, PTL DEF Spec

\* A command of the Android backend that was queued and has not ended is in line once, and
\* while there is one, one of them runs and has the callback that will end it.
THEOREM EveryCallInOnePlace == Spec => []CallInOnePlace
  <1>1. IInv => CallInOnePlace
    BY DEF IInv
  <1> QED BY <1>1, Invariance, PTL

\* No completion reaches a command other than the one that asked for it.
THEOREM CompletionsFindTheirCommand == Spec => []OutstandingIsRunning
  <1>1. IInv => OutstandingIsRunning
    BY DEF IInv
  <1> QED BY <1>1, Invariance, PTL

\* No command that finds `connected` set meets a null gatt.
THEOREM NoNullGatt == Spec => []ConnectedHasGatt
  <1>1. IInv => ConnectedHasGatt
    BY DEF IInv
  <1> QED BY <1>1, Invariance, PTL

\* The queue stops moving for the named reasons only.
THEOREM StuckOnlyForCause == Spec => []StuckNeedsCause
  <1>1. IInv => StuckNeedsCause
    BY DEF IInv
  <1> QED BY <1>1, Invariance, PTL

\* The queue of Peripheral.java implements CommandQueue.
THEOREM CommandsKeepOrder == Spec => KeepsOrder
  <1>1. Init => Queue!Init
    BY InvInit
  <1>2. IInv /\ [Next]_vars => [Queue!Next]_<<line, made>>
    BY StepKeeps DEF QueueStep
  <1> QED BY <1>1, <1>2, Invariance, PTL DEF Spec, KeepsOrder, Queue!Spec

----------------------------------------------------------------------------
(* What the adapter was told. *)

\* A command on a descriptor kept the loss of the link from the adapter.
Swallowed ==
    commandCallback # NoReq /\ ask[commandCallback].op \in DescOp /\ ~ connected

\* The report that is about to be made is true.  When none is, what the adapter knows is
\* true, or the reports of closed BluetoothGatts on their way will make it true.
ToldInv ==
    /\ reporting # "none" => ((reporting = "up") <=> connected)
    /\ reporting = "none" =>
          \/ Swallowed
          \/ overtaken
          \/ late = 0 /\ ((told = "up") <=> connected)
          \/ late # 0 /\ ~ connected

\* The types that ToldInv is stated with.
LEMMA ToldType ==
  ASSUME IInv
  PROVE  connected \in BOOLEAN /\ late \in Nat
  <1>1. TypeOK
    BY DEF IInv
  <1>2. connected \in BOOLEAN
    BY <1>1, Zenon DEF TypeOK
  <1>3. late \in 0..MaxLate
    BY <1>1, Zenon DEF TypeOK
  <1> QED BY <1>2, <1>3, DroidAssumption

\* A call waits behind the command that runs, or finds none.
LEMMA CallsTell ==
  ASSUME IInv, ToldInv, NEW r \in Req, Calls(r)
  PROVE  ToldInv'
  <1>1. UNCHANGED <<ask, connected, reporting, late, told, overtaken>>
    BY DEF Calls, reportVars
  <1>2. Swallowed => commandCallback' = commandCallback
    <2>1. Swallowed => executingCommand
      BY DEF Swallowed, IInv, CallInOnePlace
    <2> QED BY <2>1 DEF Calls, QueueCommand
  <1>3. Swallowed => Swallowed'
    BY <1>1, <1>2 DEF Swallowed
  <1> QED BY <1>1, <1>3 DEF ToldInv

\* The thread that changes `connected` has its report to make, or leaves it to a late one.
LEMMA StateChangeTells ==
  ASSUME IInv, ToldInv, NEW on \in BOOLEAN, NEW success, NEW g, OnConnectionStateChange(on, success, g),
         on => commandCallback = NoReq \/ ask[commandCallback].op = "connect"
  PROVE  ToldInv'
  <1>1. /\ reporting = "none" /\ connected' = on /\ UNCHANGED <<ask, told, overtaken>>
        /\ late \in Nat
    BY ToldType DEF OnConnectionStateChange, ThreadIsFree, NewState
  <1>2. CASE reporting' = Tell(on)
    BY <1>1, <1>2 DEF ToldInv, Tell
  <1>3. CASE /\ UNCHANGED <<reporting, late, commandCallback>>
             /\ commandCallback # NoReq /\ ask[commandCallback].op \in DescOp
    <2>1. ~ on
      BY <1>3 DEF DescOp
    <2> QED BY <1>1, <1>3, <2>1 DEF ToldInv, Swallowed
  <1>4. CASE ~ on /\ late' = late + 1 /\ UNCHANGED reporting
    BY <1>1, <1>4 DEF ToldInv
  <1> QED BY <1>2, <1>3, <1>4 DEF OnConnectionStateChange, KeepWaiting

\* An operation completes while the link is up.
LEMMA CompletedTells ==
  ASSUME IInv, ToldInv, Completed
  PROVE  ToldInv'
  <1>1. UNCHANGED <<connected, reporting, late, told, overtaken>>
    BY DEF Completed, reportVars
  <1>2. gatt.op # NoReq
    BY DEF Completed, OnCharacteristicRead, OnCharacteristicWrite, OnServicesDiscovered,
           OnDescriptorWrite, OnDescriptorRead, Completes
  <1>3. gatt.link = "up"
    BY <1>2 DEF IInv, OutstandingIsRunning
  <1>4. connected
    BY <1>3 DEF IInv, ConnectedHasGatt
  <1> QED BY <1>1, <1>4 DEF ToldInv, Swallowed

\* A report that is made tells the adapter what is so.
LEMMA ReportsTell ==
  ASSUME IInv, ToldInv, Report \/ ReportLate
  PROVE  ToldInv'
  <1>1. /\ UNCHANGED <<ask, connected, commandCallback>> /\ Swallowed' = Swallowed
    BY DEF Report, ReportLate, javaVars, Swallowed
  <1>2. late \in Nat /\ connected \in BOOLEAN
    BY ToldType
  <1>3. CASE Report
    <2>1. /\ reporting # "none" /\ reporting' = "none" /\ told' = reporting
          /\ overtaken' = (late > 0) /\ late' = late
      BY <1>3 DEF Report
    <2>2. late' = 0 \/ late > 0
      BY <1>2, <2>1
    <2>3. (told' = "up") <=> connected'
      BY <1>1, <2>1 DEF ToldInv
    <2>4. overtaken' \/ late' = 0
      BY <2>1, <2>2, Zenon
    <2> QED BY <2>1, <2>3, <2>4 DEF ToldInv
  <1>4. CASE ReportLate
    <2>1. /\ late > 0 /\ late' = late - 1 /\ told' = "down" /\ UNCHANGED <<reporting, overtaken>>
      BY <1>4 DEF ReportLate
    <2> QED BY <1>1, <1>2, <2>1 DEF ToldInv
  <1> QED BY <1>3, <1>4

\* Every step keeps the invariant.
LEMMA StepTells == IInv /\ ToldInv /\ [Next]_vars => ToldInv'
  <1> SUFFICES ASSUME IInv, ToldInv, [Next]_vars
               PROVE  ToldInv'
    OBVIOUS
  <1>1. CASE \E r \in Req : Calls(r)
    BY <1>1, CallsTell
  <1>2. CASE Connected
    <2>1. commandCallback = NoReq \/ ask[commandCallback].op = "connect"
      BY <1>2 DEF Connected, IInv, ConnectedHasGatt
    <2> QED BY <1>2, <2>1, StateChangeTells DEF Connected
  <1>3. CASE Disconnected
    <2>1. PICK success \in BOOLEAN :
            OnConnectionStateChange(FALSE, success, [gatt EXCEPT !.link = "down", !.op = NoReq])
      BY <1>3 DEF Disconnected
    <2> QED BY <2>1, StateChangeTells
  <1>4. CASE Completed
    BY <1>4, CompletedTells
  <1>5. CASE Report \/ ReportLate
    BY <1>5, ReportsTell
  <1>6. CASE UNCHANGED vars
    BY <1>6 DEF vars, javaVars, reportVars, ToldInv, Swallowed
  <1> QED BY <1>1, <1>2, <1>3, <1>4, <1>5, <1>6 DEF Next

\* When all reports are made, the adapter of the Android backend knows whether the device is
\* connected, but for a descriptor's command that hid a loss and a report that overtook others.
THEOREM AdapterIsTold == Spec => []ToldTruth
  <1>1. Init => ToldInv
    BY DEF Init, ToldInv
  <1>2. IInv /\ ToldInv => ToldTruth
    BY ToldType DEF ToldInv, ToldTruth, Swallowed
  <1> QED BY <1>1, <1>2, StepTells, Invariance, PTL DEF Spec


----------------------------------------------------------------------------
(* What is discovered. *)

\* A call that has returned was made, and those that had returned when another began have
\* returned.
ReturnedInv ==
    /\ returned \in [Req -> {"none", "ok", "err", "dropped"}]
    /\ ended \in [Req -> SUBSET Req]
    /\ \A r \in Req : returned[r] # "none" => r \in made
    /\ \A r \in Req : \A q \in ended[r] : returned[q] # "none"

FreshInv == ReturnedInv /\ DroidServicesFresh

\* Every step of the calls is one of the Java peripheral, or leaves it alone.
LEMMA CallsAreSteps == [DroidCallsNext]_droidCallsVars => [Next]_vars
  BY DEF DroidCallsNext, droidCallsVars, Begins, Completion, Returns, DropsTask, Next

\* So what is proved of the Java peripheral holds under the calls.
LEMMA BelowHolds == DroidCallsSpec => []IInv
  <1>1. DroidCallsInit => IInv
    BY InvInit DEF DroidCallsInit
  <1>2. IInv /\ [DroidCallsNext]_droidCallsVars => IInv'
    BY CallsAreSteps, StepKeeps
  <1> QED BY <1>1, <1>2, PTL DEF DroidCallsSpec

\* Nothing has been discovered.
LEMMA FreshInit == DroidCallsInit => FreshInv
  BY DEF DroidCallsInit, FreshInv, ReturnedInv, DroidServicesFresh

\* The steps of the peripheral under its calls.
LEMMA BelowKeepsCalls ==
    DroidCallsNext => \/ \E r \in Req : Begins(r) \/ Returns(r) \/ DropsTask(r)
                      \/ UNCHANGED <<ask, made, returned, stored, ended>>
  BY DEF DroidCallsNext, Completion, Completed, Connected, Disconnected, OnConnectionStateChange,
         Report, ReportLate, callVars

\* A list is stored by a call that has not returned, so no call began after its return.
LEMMA FreshKeeps == IInv /\ FreshInv /\ [DroidCallsNext]_droidCallsVars => FreshInv'
  <1> SUFFICES ASSUME IInv, FreshInv, [DroidCallsNext]_droidCallsVars
               PROVE  FreshInv'
    OBVIOUS
  <1> USE DEF FreshInv, ReturnedInv, DroidServicesFresh
  <1>1. ASSUME NEW r \in Req, Begins(r)
        PROVE  FreshInv'
    <2>1. /\ r \notin made /\ made' = made \cup {r} /\ ask' = ask
          /\ ended' = [ended EXCEPT ![r] = {q \in Req : returned[q] # "none"}]
          /\ UNCHANGED <<returned, stored>>
      BY <1>1 DEF Begins, Calls
    <2> QED BY <2>1
  <1>2. ASSUME NEW r \in Req, Returns(r)
        PROVE  FreshInv'
    <2>1. /\ returned[r] = "none" /\ result[r] # "none"
          /\ returned' = [returned EXCEPT ![r] = IF IsOk(r) THEN "ok" ELSE "err"]
          /\ UNCHANGED <<ask, made, ended>>
      BY <1>2 DEF Returns, vars
    <2>2. /\ ask[r].op = "discover" /\ IsOk(r) => stored' = r
          /\ ~ (ask[r].op = "discover" /\ IsOk(r)) => stored' = stored
      BY <1>2 DEF Returns, StoresServices
    <2>3. r \in made
      BY <2>1 DEF IInv, CallInOnePlace
    <2>4. r # NoReq
      BY DroidAssumption
    <2>5. \A q \in Req : r \notin ended[q]
      BY <2>1
    <2>6. ReturnedInv'
      BY <2>1, <2>3
    <2>7. DroidServicesFresh'
      BY <2>1, <2>2, <2>4, <2>5
    <2> QED BY <2>6, <2>7
  <1>3. ASSUME NEW r \in Req, DropsTask(r)
        PROVE  FreshInv'
    BY <1>3 DEF DropsTask, vars
  <1>4. CASE UNCHANGED <<ask, made, returned, stored, ended>>
    BY <1>4
  <1> QED BY <1>1, <1>2, <1>3, <1>4, BelowKeepsCalls DEF droidCallsVars, callVars, vars

\* No discovery of the Android backend is undone by one that had returned before it began.
THEOREM LaterDiscoveryStays == DroidCallsSpec => []DroidServicesFresh
  <1>1. FreshInv => DroidServicesFresh
    BY DEF FreshInv
  <1> QED BY <1>1, FreshInit, FreshKeeps, BelowHolds, PTL DEF DroidCallsSpec

----------------------------------------------------------------------------
(* What a future is woken with. *)

\* A command that ends when its turn comes, without the framework.
EndsUnasked(r) ==
    \/ result'[r] = result[r]
    \/ result[r] = "none" /\ result'[r] = "error"
    \/ result[r] = "none" /\ result'[r] = "ok" /\ ask[r].op \in LinkOp

\* A future was woken as Ok by the framework's answer, unless its call concerns the link; with
\* null by the end of the link; and a subscription that was refused is not Ok.
ResultAt(r) ==
    /\ result[r] = "ok" /\ ask[r].op \notin LinkOp
         => \/ answer[r] = "ok"
            \/ answer[r] = "failed" /\ ask[r].op \in {"read", "write", "write_descriptor"}
    /\ result[r] = "null" => ask[r].op \notin LinkOp \cup DescOp
    /\ ask[r].op = "notify" /\ answer[r] = "failed" => result[r] \in {"ok", "error"}
    /\ returned[r] = "ok" => result[r] # "none" /\ IsOk(r)

AnswerInv ==
    /\ answer \in [Req -> {"none", "ok", "failed"}]
    /\ returned \in [Req -> {"none", "ok", "err", "dropped"}]
    /\ \A r \in Req : ResultAt(r)

\* The commands that run one after the other end with an error, or concern the link.
LEMMA RunEnds ==
    ASSUME NEW q \in Seq(Req), NEW res \in [Req -> Result], NEW on, NEW g,
           RunCommands(q, res, on, g), NEW r \in Req
    PROVE  \/ result'[r] = res[r]
           \/ /\ \E i \in 1..Len(q) : q[i] = r
              /\ result'[r] = "error" \/ (result'[r] = "ok" /\ ask[r].op \in LinkOp)
  <1>1. PICK n \in 0..Len(q) :
            result' = [x \in Req |-> IF \E i \in 1..n : q[i] = x THEN AtOnce(x, on) ELSE res[x]]
    BY DEF RunCommands
  <1>2. n \in Nat /\ Len(q) \in Nat /\ n <= Len(q)
    BY LenProperties
  <1>3. AtOnce(r, on) = "error" \/ (AtOnce(r, on) = "ok" /\ ask[r].op \in LinkOp)
    BY DEF AtOnce
  <1> QED BY <1>1, <1>2, <1>3

\* The command that runs gets what it is woken with; those behind it end unasked.
LEMMA WakeEnds ==
    ASSUME IInv, commandCallback # NoReq, NEW with \in Result \ {"none"}, NEW on, NEW g,
           WakeCommand(with, on, g)
    PROVE  /\ commandCallback \in Req /\ result[commandCallback] = "none"
           /\ result'[commandCallback] = with
           /\ \A r \in Req \ {commandCallback} : EndsUnasked(r)
  <1> DEFINE c == commandCallback
             q == commandQueue
             res == [result EXCEPT ![c] = with]
  <1>1. c \in Req /\ q \in Seq(Req) /\ result \in [Req -> Result]
    BY DEF IInv, TypeOK
  <1>2. QueueOK(q, res, made)
    BY RestIsOK DEF IInv
  <1>3. result[c] = "none"
    <2>1. line = <<c>> \o q /\ <<c>> \in Seq(Req) /\ Len(<<c>>) = 1 /\ <<c>>[1] = c
      BY <1>1 DEF line
    <2>2. line[1] = c /\ 1 \in DOMAIN line
      BY <1>1, <2>1, ConcatProperties, LenProperties
    <2> QED BY <1>1, <2>2 DEF IInv, CallInOnePlace
  <1>4. res \in [Req -> Result] /\ res[c] = with /\ \A r \in Req \ {c} : res[r] = result[r]
    BY <1>1
  <1>5. \A r \in Req : (\E i \in 1..Len(q) : q[i] = r) => res[r] = "none"
    BY <1>2 DEF QueueOK
  <1>6. RunCommands(q, res, on, g)
    BY DEF WakeCommand
  <1> HIDE DEF c, q, res
  <1>7. \A r \in Req : \/ result'[r] = res[r]
                       \/ /\ \E i \in 1..Len(q) : q[i] = r
                          /\ result'[r] = "error" \/ (result'[r] = "ok" /\ ask[r].op \in LinkOp)
    BY <1>1, <1>4, <1>6, RunEnds
  <1>8. with # "none"
    OBVIOUS
  <1>9. result'[c] = with
    BY <1>1, <1>4, <1>5, <1>7, <1>8
  <1>10. \A r \in Req \ {c} : EndsUnasked(r)
    BY <1>4, <1>5, <1>7 DEF EndsUnasked
  <1> QED BY <1>1, <1>3, <1>9, <1>10 DEF c

\* A call that finds nothing running is alone in line.
LEMMA CallEnds ==
    ASSUME IInv, NEW c \in Req, Calls(c), NEW r \in Req
    PROVE  EndsUnasked(r)
  <1>1. CASE executingCommand
    BY <1>1 DEF Calls, QueueCommand, EndsUnasked
  <1>2. CASE ~ executingCommand
    <2>1. commandQueue = <<>> /\ result[c] = "none" /\ result \in [Req -> Result]
      BY <1>2 DEF Calls, IInv, TypeOK, CallInOnePlace
    <2>2. /\ RunCommands(<<c>> \o commandQueue, result, connected, gatt)
          /\ <<c>> \o commandQueue = <<c>> /\ <<c>> \in Seq(Req) /\ Len(<<c>>) = 1 /\ <<c>>[1] = c
      BY <1>2, <2>1 DEF Calls, QueueCommand
    <2>3. RunCommands(<<c>>, result, connected, gatt)
      BY <2>2
    <2>4. \/ result'[r] = result[r]
          \/ /\ \E i \in 1..Len(<<c>>) : <<c>>[i] = r
             /\ result'[r] = "error" \/ (result'[r] = "ok" /\ ask[r].op \in LinkOp)
      BY <2>1, <2>2, <2>3, RunEnds
    <2> QED BY <2>1, <2>2, <2>4 DEF EndsUnasked
  <1> QED BY <1>1, <1>2

\* What a change of the link makes of a result.
EndsByLink(r) ==
    \/ EndsUnasked(r)
    \/ result[r] = "none" /\ result'[r] = "null" /\ ask[r].op \notin LinkOp \cup DescOp

\* The callback for the link wakes the command that runs, or nobody; those behind it end unasked.
LEMMA LinkEnds ==
    ASSUME IInv, NEW on \in BOOLEAN, NEW success \in BOOLEAN, NEW g,
           OnConnectionStateChange(on, success, g), NEW r \in Req
    PROVE  EndsByLink(r)
  <1> DEFINE c == commandCallback
             op == ask[c].op
  <1>1. {"error", "ok", "null"} \subseteq Result \ {"none"}
    BY DEF Result
  <1>2. CASE UNCHANGED result
    BY <1>2 DEF EndsByLink, EndsUnasked
  <1>3. CASE c # NoReq /\ WakeCommand("error", on, g)
    <2>1. result[c] = "none" /\ result'[c] = "error" /\ \A x \in Req \ {c} : EndsUnasked(x)
      BY <1>1, <1>3, WakeEnds
    <2> QED BY <2>1 DEF EndsByLink, EndsUnasked
  <1>4. CASE c # NoReq /\ op \in LinkOp /\ \E h : WakeCommand("ok", on, h)
    <2>1. result[c] = "none" /\ result'[c] = "ok" /\ \A x \in Req \ {c} : EndsUnasked(x)
      BY <1>1, <1>4, WakeEnds
    <2> QED BY <1>4, <2>1 DEF EndsByLink, EndsUnasked
  <1>5. CASE c # NoReq /\ op \notin LinkOp \cup DescOp /\ WakeCommand("null", on, Closed)
    <2>1. result[c] = "none" /\ result'[c] = "null" /\ \A x \in Req \ {c} : EndsUnasked(x)
      BY <1>1, <1>5, WakeEnds
    <2> QED BY <1>5, <2>1 DEF EndsByLink
  <1>6. \/ UNCHANGED result
        \/ c # NoReq /\ WakeCommand("error", on, g)
        \/ c # NoReq /\ op \in LinkOp /\ \E h : WakeCommand("ok", on, h)
        \/ c # NoReq /\ op \notin LinkOp \cup DescOp /\ WakeCommand("null", on, Closed)
    BY DEF OnConnectionStateChange, KeepWaiting, LinkOp
  <1> QED BY <1>2, <1>3, <1>4, <1>5, <1>6

\* What the framework completes is the command that runs, and its future is woken, unless a
\* descriptor was read or a discovery has failed.
LEMMA CompletionEnds ==
    ASSUME IInv, Completed
    PROVE  /\ gatt.op = commandCallback /\ commandCallback \in Req
           /\ result[commandCallback] = "none"
           /\ \/ result'[commandCallback] = "error"
              \/ result'[commandCallback] = "ok" /\ ask[commandCallback].op # "read_descriptor"
              \/ /\ result'[commandCallback] = "none"
                 /\ ask[commandCallback].op \in {"read_descriptor", "discover"}
           /\ \A r \in Req \ {commandCallback} : EndsUnasked(r)
  <1> DEFINE c == commandCallback
             op == ask[c].op
  <1>1. gatt.op # NoReq
    BY DEF Completed, OnCharacteristicRead, OnCharacteristicWrite, OnServicesDiscovered,
           OnDescriptorWrite, OnDescriptorRead, Completes
  <1>2. gatt.op = c /\ c # NoReq /\ c \in Req
    BY <1>1 DEF IInv, TypeOK, OutstandingIsRunning
  <1>3. result[c] = "none"
    <2>0. line = <<c>> \o commandQueue /\ commandQueue \in Seq(Req)
      BY <1>2 DEF line, IInv, TypeOK
    <2>1. <<c>> \in Seq(Req) /\ Len(<<c>>) = 1 /\ <<c>>[1] = c
      BY <1>2
    <2>2. line[1] = c /\ 1 \in DOMAIN line
      BY <2>0, <2>1, ConcatProperties, LenProperties
    <2> QED BY <1>2, <2>2 DEF IInv, CallInOnePlace
  <1>4. \/ WakeCommand("ok", connected, Idle) /\ op # "read_descriptor"
        \/ WakeCommand("error", connected, Idle)
        \/ KeepWaiting(Idle) /\ op \in {"read_descriptor", "discover"}
    BY <1>2 DEF Completed, OnCharacteristicRead, OnCharacteristicWrite, OnServicesDiscovered,
                OnDescriptorWrite, OnDescriptorRead, Completes, Handled, WakeIfExpected
  <1>5. {"error", "ok"} \subseteq Result \ {"none"}
    BY DEF Result
  <1>6. CASE WakeCommand("ok", connected, Idle) /\ op # "read_descriptor"
    <2>1. result'[c] = "ok" /\ \A r \in Req \ {c} : EndsUnasked(r)
      BY <1>2, <1>5, <1>6, WakeEnds
    <2> QED BY <1>2, <1>3, <1>6, <2>1
  <1>7. CASE WakeCommand("error", connected, Idle)
    <2>1. result'[c] = "error" /\ \A r \in Req \ {c} : EndsUnasked(r)
      BY <1>2, <1>5, <1>7, WakeEnds
    <2> QED BY <1>2, <1>3, <2>1
  <1>8. CASE KeepWaiting(Idle) /\ op \in {"read_descriptor", "discover"}
    BY <1>2, <1>3, <1>8 DEF KeepWaiting, EndsUnasked
  <1> QED BY <1>4, <1>6, <1>7, <1>8

----------------------------------------------------------------------------
(* What a call returns. *)

\* A call is of one of the operations.
LEMMA OpType ==
    ASSUME IInv, NEW r \in Req
    PROVE  ask[r].op \in Op
  <1>1. ask[r] \in Call
    BY DroidAssumption DEF IInv, TypeOK
  <1>2. ASSUME ask[r] \in [op : LinkOp \cup {"discover"}, attr : {NoAttr}]
        PROVE  ask[r].op \in LinkOp \cup {"discover"}
    BY <1>2
  <1>3. ASSUME ask[r] \in [op : AttrOp, attr : Attr]
        PROVE  ask[r].op \in AttrOp
    BY <1>3
  <1> QED BY <1>1, <1>2, <1>3 DEF Call, Op

\* No call has begun.
LEMMA AnswerInit == DroidCallsInit => AnswerInv
  BY DEF DroidCallsInit, Init, AnswerInv, ResultAt

\* A result that changes without an answer keeps what ResultAt says of it.
LEMMA UnaskedKeeps ==
    ASSUME NEW r \in Req, ResultAt(r), EndsByLink(r),
           ask' = ask, answer'[r] = answer[r], returned'[r] = returned[r]
    PROVE  ResultAt(r)'
  BY DEF ResultAt, EndsByLink, EndsUnasked, IsOk, LinkOp

\* Every step of the calls keeps the invariant.
LEMMA AnswerKeeps == IInv /\ AnswerInv /\ [DroidCallsNext]_droidCallsVars => AnswerInv'
  <1> SUFFICES ASSUME IInv, AnswerInv, [DroidCallsNext]_droidCallsVars
               PROVE  AnswerInv'
    OBVIOUS
  <1>1. ASSUME UNCHANGED <<ask, answer, returned>>, \A r \in Req : EndsByLink(r)
        PROVE  AnswerInv'
    BY <1>1, UnaskedKeeps DEF AnswerInv
  <1>2. ASSUME NEW c \in Req, Begins(c)
        PROVE  AnswerInv'
    <2>1. Calls(c) /\ UNCHANGED <<ask, answer, returned>>
      BY <1>2 DEF Begins, Calls
    <2>2. \A r \in Req : EndsByLink(r)
      BY <2>1, CallEnds DEF EndsByLink
    <2> QED BY <1>1, <2>1, <2>2
  <1>3. ASSUME NEW c \in Req, Returns(c)
        PROVE  AnswerInv'
    <2>1. /\ returned' = [returned EXCEPT ![c] = IF IsOk(c) THEN "ok" ELSE "err"]
          /\ result[c] # "none" /\ UNCHANGED <<ask, result, answer>>
      BY <1>3 DEF Returns, vars, javaVars
    <2>2. \A r \in Req : ResultAt(r)'
      BY <2>1 DEF AnswerInv, ResultAt, IsOk
    <2> QED BY <2>1, <2>2 DEF AnswerInv
  <1>4. ASSUME NEW c \in Req, DropsTask(c)
        PROVE  AnswerInv'
    <2>1. returned' = [returned EXCEPT ![c] = "dropped"] /\ UNCHANGED <<ask, result, answer>>
      BY <1>4 DEF DropsTask, vars, javaVars
    <2>2. \A r \in Req : ResultAt(r)'
      BY <2>1 DEF AnswerInv, ResultAt, IsOk
    <2> QED BY <2>1, <2>2 DEF AnswerInv
  <1>5. ASSUME Completion
        PROVE  AnswerInv'
    <2>0. PICK c \in Req : c = commandCallback
      BY <1>5, CompletionEnds DEF Completion
    <2>1. Completed /\ UNCHANGED <<ask, returned>>
      BY <1>5 DEF Completion, Completed
    <2>2. /\ gatt.op = c /\ c \in Req /\ result[c] = "none"
          /\ \/ result'[c] = "error"
             \/ result'[c] = "ok" /\ ask[c].op # "read_descriptor"
             \/ result'[c] = "none" /\ ask[c].op \in {"read_descriptor", "discover"}
          /\ \A r \in Req \ {c} : EndsUnasked(r)
      BY <2>0, <2>1, CompletionEnds
    <2>3. PICK status \in {"ok", "failed"} :
              /\ ask[c].op \in {"notify", "discover"} => (status = "ok" <=> result'[c] = "ok")
              /\ answer' = [answer EXCEPT ![c] = status]
      BY <1>5, <2>2 DEF Completion
    <2>4. ask[c].op \in Op
      BY <2>2, OpType
    <2>5. returned[c] # "ok"
      BY <2>2 DEF AnswerInv, ResultAt
    <2>6. answer'[c] = status
      BY <2>2, <2>3 DEF AnswerInv
    <2>7. ResultAt(c)'
      <3>1. /\ ask'[c] = ask[c] /\ returned'[c] = returned[c] /\ answer'[c] \in {"ok", "failed"}
            /\ result'[c] # "null"
        BY <2>1, <2>2, <2>3, <2>6
      <3>2. /\ ask[c].op = "notify" /\ answer'[c] = "failed" => result'[c] = "error"
            /\ ask[c].op \in {"notify", "discover"} /\ result'[c] = "ok" => answer'[c] = "ok"
        BY <2>2, <2>3, <2>6
      <3>3. /\ result'[c] = "ok" /\ ask[c].op \notin LinkOp
              => ask[c].op \in {"notify", "discover", "read", "write", "write_descriptor"}
        BY <2>2, <2>4 DEF Op, AttrOp, DescOp
      <3> QED BY <2>5, <3>1, <3>2, <3>3 DEF ResultAt
    <2>8. \A r \in Req \ {c} : ResultAt(r)'
      BY <2>1, <2>2, <2>3, UnaskedKeeps DEF AnswerInv, EndsByLink
    <2>9. answer' \in [Req -> {"none", "ok", "failed"}] /\ returned' = returned
      BY <2>1, <2>3 DEF AnswerInv
    <2>10. \A r \in Req : ResultAt(r)'
      BY <2>7, <2>8
    <2> QED BY <2>9, <2>10 DEF AnswerInv
  <1>6. ASSUME Connected \/ Disconnected, UNCHANGED callVars
        PROVE  AnswerInv'
    <2>1. PICK on \in BOOLEAN, success \in BOOLEAN, link \in {"up", "down"}, op \in Req \cup {NoReq} :
              OnConnectionStateChange(on, success, [gatt EXCEPT !.link = link, !.op = op])
      <3>1. CASE Connected
        <4>1. [gatt EXCEPT !.link = "up"] = [gatt EXCEPT !.link = "up", !.op = gatt.op]
              /\ gatt.op \in Req \cup {NoReq}
          BY DEF IInv, TypeOK
        <4> QED BY <3>1, <4>1 DEF Connected
      <3>2. CASE Disconnected
        BY <3>2 DEF Disconnected
      <3> QED BY <1>6, <3>1, <3>2
    <2>2. UNCHANGED <<ask, answer, returned>>
      BY <1>6, <2>1 DEF OnConnectionStateChange, callVars
    <2> QED BY <1>1, <2>1, <2>2, LinkEnds
  <1>7. ASSUME UNCHANGED <<ask, result, answer, returned>>
        PROVE  AnswerInv'
    BY <1>1, <1>7 DEF EndsByLink, EndsUnasked
  <1>8. Report \/ ReportLate => UNCHANGED <<ask, result>>
    BY DEF Report, ReportLate, javaVars
  <1> QED BY <1>2, <1>3, <1>4, <1>5, <1>6, <1>7, <1>8
          DEF DroidCallsNext, droidCallsVars, callVars, vars, javaVars

\* A call on an attribute that is Ok was answered, for itself and with success, apart from the
\* two exceptions that OkMeansAnswered names.
THEOREM OkIsAnswered == DroidCallsSpec => []OkMeansAnswered
  <1>1. IInv /\ AnswerInv => OkMeansAnswered
    <2> SUFFICES ASSUME IInv, AnswerInv, NEW r \in Req,
                        returned[r] = "ok", ask[r].op \notin LinkOp
                 PROVE  \/ answer[r] = "ok"
                        \/ answer[r] = "failed" /\ ask[r].op \in {"read", "write", "write_descriptor"}
                        \/ answer[r] = "none" /\ ask[r].op \in {"write", "notify"}
      BY DEF OkMeansAnswered
    <2>1. ask[r].op \in Op
      BY OpType
    <2>2. ResultAt(r) /\ answer[r] \in {"none", "ok", "failed"}
      BY DEF AnswerInv
    <2>3. result[r] \in Result
      BY DEF IInv, TypeOK
    <2> QED BY <2>1, <2>2, <2>3 DEF ResultAt, IsOk, Op, AttrOp, DescOp, Result
  <1> QED BY <1>1, AnswerInit, AnswerKeeps, BelowHolds, PTL DEF DroidCallsSpec

=============================================================================
