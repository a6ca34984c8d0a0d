---------------------------- MODULE BDAddrProofs ----------------------------
(***************************************************************************)
(* Theorems about BDAddr, in base 256, where TLC's integers do not reach.  *)
(***************************************************************************)
EXTENDS BDAddr, TLAPS

Bytes == 0..255

\* The number n, and d after it.
Join(n, d) == n * 256 + d

\* A number is made of its last digit and the others.
LEMMA Split ==
    ASSUME NEW n \in Nat
    PROVE  /\ n \div 256 \in Nat /\ n % 256 \in Bytes
           /\ Join(n \div 256, n % 256) = n
  BY SMT DEF Bytes, Join

\* BDAddr -> u64 -> BDAddr gives the address again.
THEOREM AddressOfItsNumber ==
    \A a \in Address(256) : FromNumber(Value(a, 256), 256) = Ok(a)
<1> SUFFICES ASSUME NEW a \in Address(256)
             PROVE  FromNumber(Value(a, 256), 256) = Ok(a)
  OBVIOUS
<1> DEFINE d1 == a[1]  d2 == a[2]  d3 == a[3]  d4 == a[4]  d5 == a[5]  d6 == a[6]
           n2 == Join(d1, d2)  n3 == Join(n2, d3)  n4 == Join(n3, d4)
           n5 == Join(n4, d5)  n6 == Join(n5, d6)
<1>1. /\ d1 \in Bytes /\ d2 \in Bytes /\ d3 \in Bytes
      /\ d4 \in Bytes /\ d5 \in Bytes /\ d6 \in Bytes
  BY DEF Address, Bytes
<1>2. Value(a, 256) = n6
  BY DEF Value, Join
<1>3. <<d1, d2, d3, d4, d5, d6>> = a
  BY SMT DEF Address
<1> HIDE DEF d1, d2, d3, d4, d5, d6
<1>4. /\ n2 = Join(d1, d2) /\ n3 = Join(n2, d3) /\ n4 = Join(n3, d4)
      /\ n5 = Join(n4, d5) /\ n6 = Join(n5, d6)
  OBVIOUS
<1> HIDE DEF n2, n3, n4, n5, n6
<1>5. d1 \in Nat /\ d1 % 256 = d1 /\ d1 < 256
  BY <1>1, SMT DEF Bytes
<1>6. n2 \in Nat /\ n2 \div 256 = d1 /\ n2 % 256 = d2 /\ n2 < 65536
  BY <1>1, <1>4, <1>5, SMT DEF Join, Bytes
<1>7. n3 \in Nat /\ n3 \div 256 = n2 /\ n3 % 256 = d3 /\ n3 < 16777216
  BY <1>1, <1>4, <1>6, SMT DEF Join, Bytes
<1>8. n4 \in Nat /\ n4 \div 256 = n3 /\ n4 % 256 = d4 /\ n4 < 4294967296
  BY <1>1, <1>4, <1>7, SMT DEF Join, Bytes
<1>9. n5 \in Nat /\ n5 \div 256 = n4 /\ n5 % 256 = d5 /\ n5 < 1099511627776
  BY <1>1, <1>4, <1>8, SMT DEF Join, Bytes
<1>10. n6 \in Nat /\ n6 \div 256 = n5 /\ n6 % 256 = d6 /\ n6 < 281474976710656
  BY <1>1, <1>4, <1>9, SMT DEF Join, Bytes
<1>11. LastBytes(n6, 256) = <<d1, d2, d3, d4, d5, d6>>
  BY <1>5, <1>6, <1>7, <1>8, <1>9, <1>10 DEF LastBytes
<1>12. Rest(n6, 256) = 0
  BY <1>10, SMT DEF Rest
<1> QED
  BY <1>2, <1>3, <1>11, <1>12 DEF FromNumber

\* u64 -> BDAddr -> u64 gives the number again, and a number is refused only when it
\* does not fit.
THEOREM NumberOfItsAddress ==
    \A n \in Nat :
        LET r == FromNumber(n, 256)
        IN  /\ r.ok => r.address \in Address(256) /\ Value(r.address, 256) = n
            /\ r.ok <=> n < 256 * 256 * 256 * 256 * 256 * 256
<1> SUFFICES ASSUME NEW n \in Nat
             PROVE  LET r == FromNumber(n, 256)
                    IN  /\ r.ok => r.address \in Address(256) /\ Value(r.address, 256) = n
                        /\ r.ok <=> n < 256 * 256 * 256 * 256 * 256 * 256
  OBVIOUS
<1> DEFINE n5 == n \div 256  n4 == n5 \div 256  n3 == n4 \div 256  n2 == n3 \div 256
           n1 == n2 \div 256  a == LastBytes(n, 256)
<1>1. Rest(n, 256) = 0 <=> n < 256 * 256 * 256 * 256 * 256 * 256
  BY SMT DEF Rest
<1>2. FromNumber(n, 256).ok <=> Rest(n, 256) = 0
  BY DEF FromNumber, Ok, Err
<1>3. ASSUME Rest(n, 256) = 0
      PROVE  a \in Address(256) /\ Value(a, 256) = n
  <2>1. a = <<n1 % 256, n2 % 256, n3 % 256, n4 % 256, n5 % 256, n % 256>>
    BY Zenon DEF LastBytes
  <2> HIDE DEF a
  <2>2. n5 \in Nat /\ n4 \in Nat /\ n3 \in Nat /\ n2 \in Nat /\ n1 \in Nat
    BY SMT
  <2>3. n1 < 256
    BY <1>1, <1>3, SMT
  <2>4. n5 = n \div 256 /\ n4 = n5 \div 256 /\ n3 = n4 \div 256 /\ n2 = n3 \div 256
        /\ n1 = n2 \div 256
    OBVIOUS
  <2> HIDE DEF n1, n2, n3, n4, n5
  <2>5. n1 % 256 = n1
    BY <2>2, <2>3, SMT
  <2>6. /\ Join(n1, n2 % 256) = n2 /\ Join(n2, n3 % 256) = n3 /\ Join(n3, n4 % 256) = n4
        /\ Join(n4, n5 % 256) = n5 /\ Join(n5, n % 256) = n
    <3>1. Join(n1, n2 % 256) = n2
      BY <2>2, <2>4, Split
    <3>2. Join(n2, n3 % 256) = n3
      BY <2>2, <2>4, Split
    <3>3. Join(n3, n4 % 256) = n4
      BY <2>2, <2>4, Split
    <3>4. Join(n4, n5 % 256) = n5
      BY <2>2, <2>4, Split
    <3>5. Join(n5, n % 256) = n
      BY <2>4, Split
    <3> QED
      BY <3>1, <3>2, <3>3, <3>4, <3>5
  <2>7. a \in Address(256)
    <3>1. /\ n1 % 256 \in Bytes /\ n2 % 256 \in Bytes /\ n3 % 256 \in Bytes
          /\ n4 % 256 \in Bytes /\ n5 % 256 \in Bytes /\ n % 256 \in Bytes
      BY <2>2, Split
    <3>2. \A i \in 1..6 : a[i] \in Bytes
      BY <2>1, <3>1
    <3>3. a = [i \in 1..6 |-> a[i]]
      BY <2>1
    <3> QED
      BY <3>2, <3>3 DEF Address, Bytes
  <2>8. Value(a, 256) = Join(Join(Join(Join(Join(n1 % 256, n2 % 256), n3 % 256), n4 % 256),
                                  n5 % 256), n % 256)
    BY <2>1 DEF Value, Join
  <2> QED
    BY <2>5, <2>6, <2>7, <2>8
<1> QED
  BY <1>1, <1>2, <1>3 DEF FromNumber, Ok

\* What is written of a byte is read as that byte.
LEMMA ParsesHex ==
    ASSUME NEW n \in Bytes
    PROVE  /\ FromStrRadix(Hex(n)) = n
           /\ Hex(n)[1] \in 0..15 /\ Hex(n)[2] \in 0..15 /\ Hex(n) = <<Hex(n)[1], Hex(n)[2]>>
<1>1. n \div 16 \in 0..15 /\ n % 16 \in 0..15 /\ 16 * (n \div 16) + (n % 16) = n
  BY SMT DEF Bytes
<1>2. Hex(n) = <<n \div 16, n % 16>> /\ Len(Hex(n)) = 2
  BY DEF Hex
<1>3. Hex(n)[1] # Plus
  BY <1>1, <1>2, SMT DEF Plus
<1>4. FromStrRadix(Hex(n)) = 16 * Hex(n)[1] + Hex(n)[2]
  BY <1>1, <1>2, <1>3, SMT DEF FromStrRadix
<1> QED
  BY <1>1, <1>2, <1>4

\* The text of an address, with colons or without, is read as the address.
THEOREM AddressOfItsText ==
    \A a \in Address(256) : FromStr(ToText(a)) = Ok(a) /\ FromStr(WriteNoDelim(a)) = Ok(a)
<1> SUFFICES ASSUME NEW a \in Address(256)
             PROVE  FromStr(ToText(a)) = Ok(a) /\ FromStr(WriteNoDelim(a)) = Ok(a)
  OBVIOUS
<1>1. /\ \A i \in 1..6 : a[i] \in Bytes
      /\ a = [i \in 1..6 |-> a[i]]
  BY DEF Address, Bytes
<1>2. ASSUME NEW parts, Len(parts) = 6, \A i \in 1..6 : parts[i] = Hex(a[i])
      PROVE  FromStrDelim(parts) = Ok(a)
  <2>1. \A i \in 1..6 : FromStrRadix(parts[i]) = a[i] /\ FromStrRadix(parts[i]) # -1
    <3> SUFFICES ASSUME NEW i \in 1..6
                 PROVE  FromStrRadix(parts[i]) = a[i] /\ FromStrRadix(parts[i]) # -1
      OBVIOUS
    <3>1. FromStrRadix(Hex(a[i])) = a[i] /\ a[i] \in Bytes
      BY <1>1, ParsesHex
    <3> QED
      BY <1>2, <3>1 DEF Bytes
  <2>2. [i \in 1..6 |-> FromStrRadix(parts[i])] = a
    BY <1>1, <2>1
  <2> QED
    BY <1>2, <2>1, <2>2 DEF FromStrDelim
<1>3. FromStr(ToText(a)) = Ok(a)
  <2>1. Len(ToText(a)) = 6 /\ \A i \in 1..6 : ToText(a)[i] = Hex(a[i])
    BY DEF ToText
  <2> QED
    BY <1>2, <2>1 DEF FromStr
<1>4. FromStr(WriteNoDelim(a)) = Ok(a)
  <2> DEFINE p == WriteNoDelim(a)[1]
             parts == [i \in 1..6 |-> Pair(p, i)]
  <2>1. p = [i \in 1..12 |-> Hex(a[(i + 1) \div 2])[2 - (i % 2)]] /\ Len(WriteNoDelim(a)) = 1
    BY DEF WriteNoDelim
  <2> HIDE DEF p
  <2>2. Len(p) = 12
    BY <2>1
  <2>3. \A i \in 1..6 : p[2 * i - 1] = Hex(a[i])[1] /\ p[2 * i] = Hex(a[i])[2]
    <3> SUFFICES ASSUME NEW i \in 1..6
                 PROVE  p[2 * i - 1] = Hex(a[i])[1] /\ p[2 * i] = Hex(a[i])[2]
      OBVIOUS
    <3>1. /\ (2 * i - 1 + 1) \div 2 = i /\ 2 - ((2 * i - 1) % 2) = 1 /\ 2 * i - 1 \in 1..12
          /\ (2 * i + 1) \div 2 = i /\ 2 - ((2 * i) % 2) = 2 /\ 2 * i \in 1..12
      BY SMT
    <3> QED
      BY <2>1, <3>1, Zenon
  <2>4. \A i \in 1..6 : parts[i] = Hex(a[i])
    <3> SUFFICES ASSUME NEW i \in 1..6
                 PROVE  Pair(p, i) = Hex(a[i])
      OBVIOUS
    <3>1. Hex(a[i]) = <<Hex(a[i])[1], Hex(a[i])[2]>>
      BY <1>1, ParsesHex
    <3> QED
      BY <2>3, <3>1 DEF Pair
  <2>5. ~ SplitPanics(p)
    <3> SUFFICES ASSUME NEW i \in 1..5
                 PROVE  p[2 * i + 1] # Continuation
      BY DEF SplitPanics
    <3>1. i + 1 \in 1..6 /\ 2 * i + 1 = 2 * (i + 1) - 1
      BY SMT
    <3>2. p[2 * i + 1] = Hex(a[i + 1])[1]
      BY <2>3, <3>1
    <3>3. Hex(a[i + 1])[1] \in 0..15
      BY <1>1, <3>1, ParsesHex
    <3> QED
      BY <3>2, <3>3, SMT DEF Continuation
  <2>6. FromStrDelim(parts) = Ok(a)
    <3>1. Len(parts) = 6
      OBVIOUS
    <3> QED
      BY <1>2, <2>4, <3>1
  <2> QED
    BY <2>1, <2>2, <2>5, <2>6 DEF FromStr, FromStrNoDelim, p
<1> QED
  BY <1>3, <1>4
=============================================================================
