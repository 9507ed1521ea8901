-------------------------------- MODULE Bits --------------------------------
(***************************************************************************)
(* 32-bit words as functions from the bit's number to 0 or 1, and what the *)
(* operators of C++ do with unsigned words and their two's complement.     *)
(***************************************************************************)
EXTENDS Integers

Width == 32
BitNumbers == 0 .. Width - 1
BitVectors == [BitNumbers -> {0, 1}]

(* The word of an int: floor division is what two's complement needs.      *)
FromInt(n) ==
  [i \in BitNumbers |-> IF i = Width - 1 THEN (IF n < 0 THEN 1 ELSE 0)
                        ELSE (n \div 2 ^ i) % 2]

Zero == FromInt(0)
Bool(condition) == FromInt(IF condition THEN 1 ELSE 0)

(* n bits of w from bit lo on, moved to bit at of an empty word.           *)
Slice(w, lo, n, at) ==
  [i \in BitNumbers |-> IF i \in at .. at + n - 1 THEN w[i - at + lo] ELSE 0]

(* The number that n bits of w from lo on stand for (n is small).          *)
Num(w, lo, n) ==
  CHOOSE x \in 0 .. 2 ^ n - 1 : \A i \in 0 .. n - 1 : (x \div 2 ^ i) % 2 = w[lo + i]

And(a, b) == [i \in BitNumbers |-> a[i] * b[i]]
Or(a, b) == [i \in BitNumbers |-> IF a[i] + b[i] > 0 THEN 1 ELSE 0]
Xor(a, b) == [i \in BitNumbers |-> (a[i] + b[i]) % 2]
Complement(a) == [i \in BitNumbers |-> 1 - a[i]]

(* A carry reaches bit i if some lower place, or the first carry, starts it*)
(* and no place between stops it.                                          *)
Carried(a, b, first, i) ==
  \E j \in 0 .. i :
    /\ IF j = 0 THEN first = 1 ELSE a[j - 1] + b[j - 1] = 2
    /\ \A k \in j .. i - 1 : a[k] + b[k] > 0

PlusCarry(a, b, first) ==
  [i \in BitNumbers |->
     (a[i] + b[i] + (IF Carried(a, b, first, i) THEN 1 ELSE 0)) % 2]

Plus(a, b) == PlusCarry(a, b, 0)
Minus(a, b) == PlusCarry(a, Complement(b), 1)

Sign(a) == a[Width - 1]

Less(a, b) ==
  \E i \in BitNumbers :
    a[i] < b[i] /\ \A j \in i + 1 .. Width - 1 : a[j] = b[j]

SignedLess(a, b) == IF Sign(a) # Sign(b) THEN Sign(a) = 1 ELSE Less(a, b)

ShiftLeft(a, n) == [i \in BitNumbers |-> IF i >= n THEN a[i - n] ELSE 0]
ShiftRight(a, n) == [i \in BitNumbers |-> IF i + n < Width THEN a[i + n] ELSE 0]

(* Ones from bit k on, if bit is 1.                                        *)
Upper(bit, k) == [i \in BitNumbers |-> IF i >= k THEN bit ELSE 0]
=============================================================================
