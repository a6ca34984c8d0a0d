------------------------- MODULE MCDroidPeripheral -------------------------
(***************************************************************************)
(* Instances of DroidPeripheral for TLC: one characteristic with one       *)
(* descriptor, and every operation.                                        *)
(***************************************************************************)
EXTENDS DroidPeripheral

CONSTANTS c1, x1

CharAsks == [op : {"read", "write", "notify"}, attr : {c1}]
DescAsks == [op : DescOp, attr : {x1}]
LinkAsks == [op : LinkOp \cup {"discover"}, attr : {NoAttr}]

AllAsks  == LinkAsks \cup CharAsks \cup DescAsks
ReadAsks == [op : {"connect"}, attr : {NoAttr}] \cup [op : {"read_descriptor"}, attr : {x1}]
=============================================================================
