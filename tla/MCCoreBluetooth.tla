-------------------------- MODULE MCCoreBluetooth --------------------------
(***************************************************************************)
(* Instances of CoreBluetoothInternal for TLC.                             *)
(* Gatt: one service with one characteristic that has one descriptor, and  *)
(* the requests on them.                                                   *)
(* Connect: a service that includes another one, and the link operations.  *)
(* Early: the same the other way round, with a third service whose results *)
(* come last: the second result of the included one, which is complete by  *)
(* then, finds the connect() still waiting.                                *)
(* Read, Write: the calls of the runs that contradict a comment.           *)
(***************************************************************************)
EXTENDS CoreBluetoothInternal, TLC

CONSTANTS d1, s1, s2, s3, c1, c2, x1

Calls(ops, a) == [dev : Device, op : ops, attr : {a}]

GattServices == [d \in Device |-> <<s1>>]
GattIncludes == [s \in Service |-> <<>>]
GattChars    == [s \in Service |-> <<c1>>]
GattDescs    == [c \in Char |-> <<x1>>]
GattServiceOf == [c \in Char |-> s1]
GattCharOf   == [x \in Desc |-> c1]
GattAsks     == Calls({"connect"}, NoAttr) \cup Calls({"read", "write", "subscribe"}, c1)
                    \cup Calls(DescOp, x1)

ConnectServices == [d \in Device |-> <<s1, s2>>]
ConnectIncludes == [s \in Service |-> IF s = s1 THEN <<s2>> ELSE <<>>]
ConnectChars    == [s \in Service |-> IF s = s1 THEN <<c1>> ELSE <<>>]
EarlyServices == [d \in Device |-> <<s1, s2, s3>>]
EarlyIncludes == [s \in Service |-> IF s = s2 THEN <<s1>> ELSE <<>>]
EarlyChars    == [s \in Service |-> CASE s = s1 -> <<c1>> [] s = s2 -> <<>> [] s = s3 -> <<c2>>]
EarlyDescs    == [c \in Char |-> IF c = c1 THEN <<x1>> ELSE <<>>]
EarlyServiceOf == [c \in Char |-> IF c = c1 THEN s1 ELSE s3]

ConnectAsks     == Calls(LinkOp, NoAttr) \cup Calls({"write_without_response", "unsubscribe"}, c1)

WriteAsks == Calls({"connect"}, NoAttr) \cup Calls({"write_without_response"}, c1)
ReadAsks  == Calls({"connect"}, NoAttr) \cup Calls({"read"}, c1) \cup Calls({"read_descriptor"}, x1)
LiveAsks  == GattAsks \cup Calls(LinkOp, NoAttr)
AllAsks   == LiveAsks \cup ConnectAsks

Symmetry == Permutations(Req)
=============================================================================
