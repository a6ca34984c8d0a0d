------------------------------ MODULE BleUuid ------------------------------
(***************************************************************************)
(* The short forms of Bluetooth UUIDs (src/src/api/bleuuid.rs).  A Uuid is *)
(* its two highest groups of 16 bits, and whether the other 96 bits are    *)
(* those of BLUETOOTH_BASE_UUID.                                           *)
(***************************************************************************)
EXTENDS Integers, Sequences

Half == 0..65535

\* The highest 32 bits of BLUETOOTH_BASE_UUID are 0.
UuidFromU32(hi, lo) == [hi |-> hi, lo |-> lo, base |-> TRUE]
UuidFromU16(lo)     == UuidFromU32(0, lo)

\* to_ble_u32 and to_ble_u16 return <<hi, lo>> and <<lo>>, or <<>> for None.
ToBleU32(u) == IF u.base THEN <<u.hi, u.lo>> ELSE <<>>
ToBleU16(u) == IF u.base /\ u.hi = 0 THEN <<u.lo>> ELSE <<>>

HexLength(n) == CHOOSE k \in 1..4 : n < 16^k /\ (k > 1 => n >= 16^(k - 1))

AtLeast(k, n) == IF n < k THEN k ELSE n

\* {:#04x} and {:#06x}: the number, and the number of its digits.  The 128-bit form has hyphens.
ToShortString(u) ==
    IF ToBleU16(u) # <<>>
    THEN [digits |-> AtLeast(2, HexLength(u.lo)), hi |-> 0, lo |-> u.lo, hyphens |-> FALSE]
    ELSE IF ToBleU32(u) # <<>>
    THEN [digits |-> AtLeast(4, 4 + HexLength(u.hi)), hi |-> u.hi, lo |-> u.lo, hyphens |-> FALSE]
    ELSE [digits |-> 32, hi |-> u.hi, lo |-> u.lo, hyphens |-> TRUE]
=============================================================================
