------------------------------- MODULE BDAddr -------------------------------
(***************************************************************************)
(* Bluetooth addresses, their numbers and their texts                      *)
(* (src/src/api/bdaddr.rs).                                                *)
(*                                                                         *)
(* Numbers are written in base b: 256 in the code, so that six digits are  *)
(* the 48 bits of an address and eight those of a u64; less where the      *)
(* operators are evaluated.  A text is the sequence of its parts between   *)
(* colons, a part the sequence of its bytes: 0..15 is a hexadecimal digit. *)
(***************************************************************************)
EXTENDS Integers, Sequences

Address(b) == [1..6 -> 0..b - 1]

\* What the operators return.
Err   == [ok |-> FALSE, address |-> <<>>]
Panic == [ok |-> FALSE, address |-> <<-1>>]
Ok(a) == [ok |-> TRUE, address |-> a]

----------------------------------------------------------------------------
(* Numbers *)

\* u64::from_be_bytes, of six bytes after two that are 0
Value(a, b) == ((((a[1] * b + a[2]) * b + a[3]) * b + a[4]) * b + a[5]) * b + a[6]

\* u64::to_be_bytes: the six last bytes, and the number of the two first
Rest(n, b)     == n \div (b * b * b * b * b * b)
LastBytes(n, b) ==
    LET n5 == n \div b  n4 == n5 \div b  n3 == n4 \div b  n2 == n3 \div b  n1 == n2 \div b
    IN  <<n1 % b, n2 % b, n3 % b, n4 % b, n5 % b, n % b>>

\* impl TryFrom<u64> for BDAddr
FromNumber(n, b) == IF Rest(n, b) = 0 THEN Ok(LastBytes(n, b)) ELSE Err

\* impl TryFrom<&[u8]> for BDAddr
FromSlice(s) == IF Len(s) = 6 THEN Ok(s) ELSE Err

\* is_random_static: the two lowest bits of the last byte
IsRandomStatic(a) == a[6] % 4 = 3

----------------------------------------------------------------------------
(* Texts *)

Plus         == 16   \* '+', which from_str_radix takes before a number
OtherChar    == 17   \* any other byte that begins a character
Continuation == 18   \* a byte inside a character

\* u8::from_str_radix(part, 16): the number, or -1.  Zeros may come before the last two digits.
FromStrRadix(p) ==
    LET ds == IF Len(p) > 1 /\ p[1] = Plus THEN Tail(p) ELSE p
        n  == Len(ds)
    IN  IF \/ n = 0
           \/ \E i \in 1..n : ds[i] \notin 0..15
           \/ \E i \in 1..n - 2 : ds[i] # 0
        THEN -1
        ELSE IF n = 1 THEN ds[1] ELSE 16 * ds[n - 1] + ds[n]

\* from_str_delim: six parts, each a number
FromStrDelim(parts) ==
    IF Len(parts) # 6 \/ \E i \in 1..Len(parts) : FromStrRadix(parts[i]) = -1 THEN Err
    ELSE Ok([i \in 1..6 |-> FromStrRadix(parts[i])])

Pair(p, i) == <<p[2 * i - 1], p[2 * i]>>

\* split_at(2), for one pair after the other, panics inside a character.
SplitPanics(p) == \E i \in 1..5 : /\ p[2 * i + 1] = Continuation
                                 /\ \A j \in 1..i - 1 : FromStrRadix(Pair(p, j)) # -1

\* from_str_no_delim, which counts bytes
FromStrNoDelim(p) ==
    IF Len(p) # 12 THEN Err
    ELSE IF SplitPanics(p) THEN Panic
    ELSE FromStrDelim([i \in 1..6 |-> Pair(p, i)])

\* impl FromStr for BDAddr
FromStr(text) == IF Len(text) > 1 THEN FromStrDelim(text) ELSE FromStrNoDelim(text[1])

\* {:02x} of a byte
Hex(n) == <<n \div 16, n % 16>>

\* impl UpperHex, LowerHex and Display for BDAddr
ToText(a) == [i \in 1..6 |-> Hex(a[i])]

\* write_no_delim
WriteNoDelim(a) == <<[i \in 1..12 |-> Hex(a[(i + 1) \div 2])[2 - (i % 2)]]>>
=============================================================================
