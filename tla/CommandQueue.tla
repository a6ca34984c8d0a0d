---------------------------- MODULE CommandQueue ----------------------------
(***************************************************************************)
(* What the command queue of the Android backend promises: commands end in *)
(* the order they were queued, one at a time.  A command may end as soon   *)
(* as its turn comes, so one step may end several.                         *)
(***************************************************************************)
EXTENDS Naturals, Sequences

CONSTANT Req

VARIABLES line, made     \* the commands that have not ended; those ever queued

Init == line = <<>> /\ made = {}

Queue(r) ==
    /\ r \notin made
    /\ made' = made \cup {r}
    /\ \/ line' = Append(line, r)
       \/ line = <<>> /\ line' = <<>>

End == \E n \in 1..Len(line) : line' = SubSeq(line, n + 1, Len(line)) /\ UNCHANGED made

Next == End \/ \E r \in Req : Queue(r)

Spec == Init /\ [][Next]_<<line, made>>
=============================================================================
