----------------------------- MODULE MCBackends -----------------------------
(***************************************************************************)
(* Backends for TLC: the databases of BlueZ and the calls, and the         *)
(* conversions of addresses and UUIDs.                                     *)
(***************************************************************************)
EXTENDS Backends, BDAddr, BleUuid, TLC

CONSTANTS k1, k2, k3, c1

\* A service with a characteristic and a descriptor, and a second one with a characteristic of
\* the same uuid.
DbA == ("s1" :> [uuids |-> <<"S">>, parent |-> "dev"])
    @@ ("c1" :> [uuids |-> <<"S", "C">>, parent |-> "s1"])
    @@ ("d1" :> [uuids |-> <<"S", "C", "D">>, parent |-> "c1"])
    @@ ("s2" :> [uuids |-> <<"T">>, parent |-> "dev"])
    @@ ("c2" :> [uuids |-> <<"T", "C">>, parent |-> "s2"])

\* The same paths with other attributes, and two services of one uuid.
DbB == ("s1" :> [uuids |-> <<"T">>, parent |-> "dev"])
    @@ ("c1" :> [uuids |-> <<"T", "C">>, parent |-> "s1"])
    @@ ("s2" :> [uuids |-> <<"T">>, parent |-> "dev"])
    @@ ("c2" :> [uuids |-> <<"T", "E">>, parent |-> "s2"])

BothDatabases == {DbA, DbB}

DroidAsks == [op : {"connect", "disconnect", "discover"}, attr : {NoAttr}]
             \cup [op : {"read", "write", "notify"}, attr : {c1}]

AnAsk == [op |-> "connect", attr |-> NoAttr]

\* BOUND: a backend that does not run starts in one state only.
MCInit ==
    /\ BackendsInit
    /\ backend # "bluez peripheral" => database = DbA
    /\ backend # "bluez adapter" => \A d \in Device : known[d] = "absent"
    /\ backend # "droid calls" => \A r \in Req : ask[r] = AnAsk
    /\ backend # "web adapter" => ~ tauri

MCSpec == MCInit /\ [][BackendsNext]_allVars

----------------------------------------------------------------------------
(* Addresses and UUIDs, over bounded inputs. *)

\* Numbers and addresses are converted to each other without loss, and only numbers of more
\* than six digits are refused.
ASSUME NumbersRoundTrip ==
    /\ \A a \in Address(3) : FromNumber(Value(a, 3), 3) = Ok(a)
    /\ \A n \in 0..1000 : LET r == FromNumber(n, 3)
                          IN  /\ r.ok <=> n < 729
                              /\ r.ok => Value(r.address, 3) = n

Samples == [1..6 -> {0, 10, 255}]

\* The two texts of an address are read as the address.
ASSUME TextsRoundTrip ==
    \A a \in Samples : FromStr(ToText(a)) = Ok(a) /\ FromStr(WriteNoDelim(a)) = Ok(a)

PartTexts == UNION {[1..n -> {0, 1, 15, Plus, OtherChar}] : n \in 0..4}

\* A part is a number of at most 255 in any number of digits, also with a plus before it.
ASSUME PartsAreBytes ==
    \A p \in PartTexts :
        LET ds == IF Len(p) > 1 /\ Head(p) = Plus THEN Tail(p) ELSE p
            v[i \in 0..Len(ds)] == IF i = 0 THEN 0 ELSE 16 * v[i - 1] + ds[i]
            n == v[Len(ds)]
        IN  FromStrRadix(p) =
                IF ds # <<>> /\ (\A i \in DOMAIN ds : ds[i] < 16) /\ n < 256 THEN n ELSE -1

Uuids == [hi : {0, 1, 15, 16, 4096, 65535}, lo : {0, 1, 15, 16, 255, 256, 4096, 65535},
          base : BOOLEAN]

\* A short form stands for one UUID, and no two have the same short text.
ASSUME ShortFormsStandForOne ==
    /\ \A u \in Uuids : /\ ToBleU16(u) # <<>> => UuidFromU16(ToBleU16(u)[1]) = u
                        /\ ToBleU32(u) # <<>> => UuidFromU32(ToBleU32(u)[1], ToBleU32(u)[2]) = u
    /\ \A u, v \in Uuids : ToShortString(u) = ToShortString(v) => u = v

----------------------------------------------------------------------------
\* Calls are interchangeable.
Symmetries == Permutations({k1, k2, k3})
=============================================================================
