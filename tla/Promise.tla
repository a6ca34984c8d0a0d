------------------------------ MODULE Promise ------------------------------
(***************************************************************************)
(* What a BtlePlugFuture promises to the two threads that share it: one    *)
(* reply is put in, it is taken out once, and it does not stay there.      *)
(***************************************************************************)
CONSTANT Future

VARIABLE state

Init == state = [f \in Future |-> "waiting"]

Put(f)  == state[f] = "waiting" /\ state' = [state EXCEPT ![f] = "replied"]
Take(f) == state[f] = "replied" /\ state' = [state EXCEPT ![f] = "returned"]

Next == \E f \in Future : Put(f) \/ Take(f)

Safety == Init /\ [][Next]_state

Spec == Safety /\ \A f \in Future : WF_state(Take(f))
=============================================================================
