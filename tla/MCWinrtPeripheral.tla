------------------------- MODULE MCWinrtPeripheral -------------------------
(***************************************************************************)
(* An instance of WinrtPeripheral for TLC: a device with one service.      *)
(***************************************************************************)
EXTENDS WinrtPeripheral, TLC

CONSTANT s1

OneService == <<s1>>
NothingAsked == [op |-> "none", svc |-> s1]
AnyAsk     == [op : Op, svc : Service]

Symmetry == Permutations(Req)
=============================================================================
