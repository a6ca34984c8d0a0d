----------------------- MODULE MCCoreBluetoothAdapter -----------------------
(***************************************************************************)
(* An instance of CoreBluetoothAdapter for TLC: a device with one service  *)
(* that has no characteristics, calls of connect() and disconnect().       *)
(***************************************************************************)
EXTENDS CoreBluetoothAdapter, TLC

CONSTANT s1

OneService  == [d \in Device |-> <<s1>>]
NoneBelow   == [s \in Service |-> <<>>]
Nothing     == [x \in {} |-> s1]
LinkAsks    == [dev : Device, op : {"connect", "disconnect"}, attr : {NoAttr}]

Symmetry == Permutations(Req)
=============================================================================
