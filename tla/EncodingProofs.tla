--------------------------- MODULE EncodingProofs ---------------------------
(***************************************************************************)
(* Facts about 32-bit words and about the words that instructions are      *)
(* assembled to, for every immediate and every operand.                    *)
(***************************************************************************)
EXTENDS RiscV, TLAPS

(* The place values of the bits, and how large they get: the provers know  *)
(* 2 ^ i for a number i, and this is what is needed of it for a variable.  *)
LEMMA PowersOfTwo ==
  ASSUME NEW i \in 0 .. 30
  PROVE  /\ 2 ^ i \in Nat /\ 2 ^ i > 0 /\ (i >= 1 => 2 ^ i >= 2)
         /\ (i >= 3 => 2 ^ i >= 2 ^ 3) /\ (i >= 5 => 2 ^ i >= 2 ^ 5)
         /\ (i >= 7 => 2 ^ i >= 2 ^ 7) /\ (i >= 11 => 2 ^ i >= 2 ^ 11)
         /\ (i >= 12 => 2 ^ i >= 2 ^ 12) /\ (i >= 20 => 2 ^ i >= 2 ^ 20)
<1>1. /\ (i = 0 => 2 ^ i = 2 ^ 0) /\ (i = 1 => 2 ^ i = 2 ^ 1)
      /\ (i = 2 => 2 ^ i = 2 ^ 2) /\ (i = 3 => 2 ^ i = 2 ^ 3)
      /\ (i = 4 => 2 ^ i = 2 ^ 4) /\ (i = 5 => 2 ^ i = 2 ^ 5)
      /\ (i = 6 => 2 ^ i = 2 ^ 6) /\ (i = 7 => 2 ^ i = 2 ^ 7)
      /\ (i = 8 => 2 ^ i = 2 ^ 8) /\ (i = 9 => 2 ^ i = 2 ^ 9)
      /\ (i = 10 => 2 ^ i = 2 ^ 10) /\ (i = 11 => 2 ^ i = 2 ^ 11)
      /\ (i = 12 => 2 ^ i = 2 ^ 12) /\ (i = 13 => 2 ^ i = 2 ^ 13)
      /\ (i = 14 => 2 ^ i = 2 ^ 14) /\ (i = 15 => 2 ^ i = 2 ^ 15)
      /\ (i = 16 => 2 ^ i = 2 ^ 16) /\ (i = 17 => 2 ^ i = 2 ^ 17)
      /\ (i = 18 => 2 ^ i = 2 ^ 18) /\ (i = 19 => 2 ^ i = 2 ^ 19)
      /\ (i = 20 => 2 ^ i = 2 ^ 20) /\ (i = 21 => 2 ^ i = 2 ^ 21)
      /\ (i = 22 => 2 ^ i = 2 ^ 22) /\ (i = 23 => 2 ^ i = 2 ^ 23)
      /\ (i = 24 => 2 ^ i = 2 ^ 24) /\ (i = 25 => 2 ^ i = 2 ^ 25)
      /\ (i = 26 => 2 ^ i = 2 ^ 26) /\ (i = 27 => 2 ^ i = 2 ^ 27)
      /\ (i = 28 => 2 ^ i = 2 ^ 28) /\ (i = 29 => 2 ^ i = 2 ^ 29)
      /\ i = 30 => 2 ^ i = 2 ^ 30
  BY Zenon
<1>2. CASE i \in 0 .. 9
  BY <1>1, <1>2
<1>3. CASE i \in 10 .. 19
  BY <1>1, <1>3
<1>4. CASE i \in 20 .. 30
  BY <1>1, <1>4
<1> QED BY <1>2, <1>3, <1>4

(* A bit of a word is a bit.                                               *)
LEMMA FromIntType ==
  ASSUME NEW n \in Int
  PROVE  FromInt(n) \in BitVectors
<1>1. ASSUME NEW i \in 0 .. 30
      PROVE  (n \div 2 ^ i) % 2 \in {0, 1}
  <2> DEFINE x == 2 ^ i
  <2>1. x \in Nat /\ x > 0
    BY PowersOfTwo
  <2> HIDE DEF x
  <2>2. n \div x \in Int
    BY <2>1
  <2>3. (n \div x) % 2 \in {0, 1}
    BY <2>2
  <2> QED BY <2>3 DEF x
<1> QED BY <1>1 DEF FromInt, BitVectors, BitNumbers, Width

(* The bits in front of a number are its sign.                             *)
LEMMA SignBits ==
  ASSUME NEW n \in Int, NEW b \in Nat, -b <= n, n < b,
         NEW i \in BitNumbers, i < 31 => 2 ^ i >= b
  PROVE  FromInt(n)[i] = IF n < 0 THEN 1 ELSE 0
<1>1. CASE i = 31
  BY <1>1 DEF FromInt, BitNumbers, Width
<1>2. CASE i # 31
  <2> DEFINE x == 2 ^ i
  <2>1. i \in 0 .. 30 /\ x \in Nat /\ x > 0 /\ x >= b
    BY <1>2, PowersOfTwo DEF BitNumbers, Width
  <2>2. FromInt(n)[i] = (n \div x) % 2
    BY <2>1 DEF FromInt, BitNumbers, Width
  <2> HIDE DEF x
  <2>3. n \div x = IF n < 0 THEN -1 ELSE 0
    BY <2>1
  <2> QED BY <2>2, <2>3
<1> QED BY <1>1, <1>2

(* A bit that is not the sign.                                             *)
Bit(n, i) == (n \div 2 ^ i) % 2

(* Every bit but the sign is the number's binary digit.                    *)
LEMMA PlainBits ==
  ASSUME NEW n \in Int
  PROVE  \A i \in 0 .. 30 : FromInt(n)[i] = Bit(n, i)
BY DEF Bit, FromInt, BitNumbers, Width

(* n bits of w from at on are those of v from lo on.                       *)
Holds(w, at, n, v, lo) == \A i \in 0 .. n - 1 : w[at + i] = v[lo + i]

(* Numbers of seven, five or three bits that agree on them are the same.   *)
LEMMA Same7 ==
  ASSUME NEW x \in 0 .. 127, NEW y \in 0 .. 127,
         \A i \in 0 .. 6 : (x \div 2 ^ i) % 2 = (y \div 2 ^ i) % 2
  PROVE  x = y
<1>1. /\ (x \div 2 ^ 0) % 2 = (y \div 2 ^ 0) % 2
      /\ (x \div 2 ^ 1) % 2 = (y \div 2 ^ 1) % 2
      /\ (x \div 2 ^ 2) % 2 = (y \div 2 ^ 2) % 2
      /\ (x \div 2 ^ 3) % 2 = (y \div 2 ^ 3) % 2
      /\ (x \div 2 ^ 4) % 2 = (y \div 2 ^ 4) % 2
      /\ (x \div 2 ^ 5) % 2 = (y \div 2 ^ 5) % 2
      /\ (x \div 2 ^ 6) % 2 = (y \div 2 ^ 6) % 2
  OBVIOUS
<1>2. /\ (x \div 1) % 2 = (y \div 1) % 2
      /\ (x \div 2) % 2 = (y \div 2) % 2
      /\ (x \div 4) % 2 = (y \div 4) % 2
      /\ (x \div 8) % 2 = (y \div 8) % 2
      /\ (x \div 16) % 2 = (y \div 16) % 2
      /\ (x \div 32) % 2 = (y \div 32) % 2
      /\ (x \div 64) % 2 = (y \div 64) % 2
  BY <1>1
<1>3. x \div 64 = y \div 64
  BY <1>2
<1>4. x \div 32 = y \div 32
  BY <1>2, <1>3
<1>5. x \div 16 = y \div 16
  BY <1>2, <1>4
<1>6. x \div 8 = y \div 8
  BY <1>2, <1>5
<1>7. x \div 4 = y \div 4
  BY <1>2, <1>6
<1>8. x \div 2 = y \div 2
  BY <1>2, <1>7
<1> QED BY <1>2, <1>8

LEMMA Same5 ==
  ASSUME NEW x \in 0 .. 31, NEW y \in 0 .. 31,
         \A i \in 0 .. 4 : (x \div 2 ^ i) % 2 = (y \div 2 ^ i) % 2
  PROVE  x = y
<1>1. /\ (x \div 2 ^ 0) % 2 = (y \div 2 ^ 0) % 2
      /\ (x \div 2 ^ 1) % 2 = (y \div 2 ^ 1) % 2
      /\ (x \div 2 ^ 2) % 2 = (y \div 2 ^ 2) % 2
      /\ (x \div 2 ^ 3) % 2 = (y \div 2 ^ 3) % 2
      /\ (x \div 2 ^ 4) % 2 = (y \div 2 ^ 4) % 2
  OBVIOUS
<1>2. /\ (x \div 1) % 2 = (y \div 1) % 2
      /\ (x \div 2) % 2 = (y \div 2) % 2
      /\ (x \div 4) % 2 = (y \div 4) % 2
      /\ (x \div 8) % 2 = (y \div 8) % 2
      /\ (x \div 16) % 2 = (y \div 16) % 2
  BY <1>1
<1>3. x \div 16 = y \div 16
  BY <1>2
<1>4. x \div 8 = y \div 8
  BY <1>2, <1>3
<1>5. x \div 4 = y \div 4
  BY <1>2, <1>4
<1>6. x \div 2 = y \div 2
  BY <1>2, <1>5
<1> QED BY <1>2, <1>6

LEMMA Same3 ==
  ASSUME NEW x \in 0 .. 7, NEW y \in 0 .. 7,
         \A i \in 0 .. 2 : (x \div 2 ^ i) % 2 = (y \div 2 ^ i) % 2
  PROVE  x = y
<1>1. /\ (x \div 2 ^ 0) % 2 = (y \div 2 ^ 0) % 2
      /\ (x \div 2 ^ 1) % 2 = (y \div 2 ^ 1) % 2
      /\ (x \div 2 ^ 2) % 2 = (y \div 2 ^ 2) % 2
  OBVIOUS
<1>2. /\ (x \div 1) % 2 = (y \div 1) % 2
      /\ (x \div 2) % 2 = (y \div 2) % 2
      /\ (x \div 4) % 2 = (y \div 4) % 2
  BY <1>1
<1>3. x \div 4 = y \div 4
  BY <1>2
<1>4. x \div 2 = y \div 2
  BY <1>2, <1>3
<1> QED BY <1>2, <1>4

(* So Num finds the number whose bits are in the word.                     *)
LEMMA SevenBits ==
  ASSUME NEW w, NEW lo \in BitNumbers, NEW n \in 0 .. 127,
         Holds(w, lo, 7, FromInt(n), 0)
  PROVE  Num(w, lo, 7) = n
<1>1. \A i \in 0 .. 6 : w[lo + i] = Bit(n, i)
  BY PlainBits DEF Holds, BitNumbers, Width
<1> DEFINE Is(x) == \A i \in 0 .. 7 - 1 : Bit(x, i) = w[lo + i]
<1>2. n \in 0 .. 2 ^ 7 - 1 /\ Is(n)
  BY <1>1
<1>3. ASSUME NEW x \in 0 .. 2 ^ 7 - 1, Is(x)
      PROVE  x = n
  <2>1. x \in 0 .. 127 /\ \A i \in 0 .. 6 : Bit(x, i) = Bit(n, i)
    BY <1>1, <1>3
  <2> QED BY <2>1, Same7 DEF Bit
<1> QED BY <1>2, <1>3 DEF Num, Bit

LEMMA FiveBits ==
  ASSUME NEW w, NEW lo \in BitNumbers, NEW n \in 0 .. 31,
         Holds(w, lo, 5, FromInt(n), 0)
  PROVE  Num(w, lo, 5) = n
<1>1. \A i \in 0 .. 4 : w[lo + i] = Bit(n, i)
  BY PlainBits DEF Holds, BitNumbers, Width
<1> DEFINE Is(x) == \A i \in 0 .. 5 - 1 : Bit(x, i) = w[lo + i]
<1>2. n \in 0 .. 2 ^ 5 - 1 /\ Is(n)
  BY <1>1
<1>3. ASSUME NEW x \in 0 .. 2 ^ 5 - 1, Is(x)
      PROVE  x = n
  <2>1. x \in 0 .. 31 /\ \A i \in 0 .. 4 : Bit(x, i) = Bit(n, i)
    BY <1>1, <1>3
  <2> QED BY <2>1, Same5 DEF Bit
<1> QED BY <1>2, <1>3 DEF Num, Bit

LEMMA ThreeBits ==
  ASSUME NEW w, NEW lo \in BitNumbers, NEW n \in 0 .. 7,
         Holds(w, lo, 3, FromInt(n), 0)
  PROVE  Num(w, lo, 3) = n
<1>1. \A i \in 0 .. 2 : w[lo + i] = Bit(n, i)
  BY PlainBits DEF Holds, BitNumbers, Width
<1> DEFINE Is(x) == \A i \in 0 .. 3 - 1 : Bit(x, i) = w[lo + i]
<1>2. n \in 0 .. 2 ^ 3 - 1 /\ Is(n)
  BY <1>1
<1>3. ASSUME NEW x \in 0 .. 2 ^ 3 - 1, Is(x)
      PROVE  x = n
  <2>1. x \in 0 .. 7 /\ \A i \in 0 .. 2 : Bit(x, i) = Bit(n, i)
    BY <1>1, <1>3
  <2> QED BY <2>1, Same3 DEF Bit
<1> QED BY <1>2, <1>3 DEF Num, Bit

(* The word that a set of fields adds up to.                               *)
Overlay(P) == [i \in BitNumbers |-> IF \E p \in P : p[i] = 1 THEN 1 ELSE 0]

(* The field at a place is one of them, and no other reaches into it.       *)
Placed(P, v, lo, n, at) ==
  /\ v \in BitVectors /\ lo \in BitNumbers /\ at \in BitNumbers /\ n \in 1 .. 32
  /\ lo + n <= 32 /\ at + n <= 32
  /\ Slice(v, lo, n, at) \in P
  /\ \A q \in P : \/ q = Slice(v, lo, n, at)
                 \/ \A i \in at .. at + n - 1 : q[i] = 0

(* A field that no other reaches into is found where it was put.           *)
LEMMA FieldKept ==
  ASSUME NEW P, NEW v, NEW lo, NEW n, NEW at, Placed(P, v, lo, n, at)
  PROVE  Holds(Overlay(P), at, n, v, lo)
<1> USE DEF Placed, Holds
<1> TAKE i \in 0 .. n - 1
<1> DEFINE f == Slice(v, lo, n, at)
           b == at + i
<1>1. b \in BitNumbers /\ b \in at .. at + n - 1 /\ lo + i \in BitNumbers
  BY DEF BitNumbers, Width
<1>2. f[b] = v[b - at + lo]
  BY <1>1 DEF Slice
<1>3. b - at + lo = lo + i
  BY DEF BitNumbers, Width
<1>4. v[lo + i] \in {0, 1}
  BY <1>1 DEF BitVectors
<1> HIDE DEF f, b
<1>5. \A q \in P : q[b] = f[b] \/ q[b] = 0
  BY <1>1 DEF f
<1>6. f \in P
  BY DEF f
<1>7. Overlay(P)[b] = f[b]
  BY <1>1, <1>2, <1>4, <1>5, <1>6, <1>3 DEF Overlay
<1> QED BY <1>2, <1>7, <1>3 DEF b

(* A field is empty elsewhere.                                             *)
LEMMA FieldElsewhere ==
  ASSUME NEW v, NEW lo, NEW n \in Nat, NEW at \in Nat, NEW i \in BitNumbers,
         i < at \/ i >= at + n
  PROVE  Slice(v, lo, n, at)[i] = 0
BY DEF Slice, BitNumbers, Width

(* The opcode has no more bits than its field.                             *)
LEMMA OpcodeField ==
  ASSUME NEW c \in 0 .. 127
  PROVE  FromInt(c) = Slice(FromInt(c), 0, 7, 0)
<1>1. ASSUME NEW i \in BitNumbers, i >= 7
      PROVE  FromInt(c)[i] = 0
  <2>1. i < 31 => 2 ^ i >= 128
    <3>1. i < 31 => i \in 0 .. 30
      BY DEF BitNumbers, Width
    <3>2. CASE i < 31
      <4>1. 2 ^ i >= 2 ^ 7
        BY <1>1, <3>1, <3>2, PowersOfTwo
      <4> QED BY <4>1
    <3> QED BY <3>2
  <2> QED BY <2>1, SignBits
<1>2. ASSUME NEW i \in BitNumbers
      PROVE  FromInt(c)[i] = Slice(FromInt(c), 0, 7, 0)[i]
  <2>1. CASE i < 7
    BY <2>1 DEF Slice, BitNumbers, Width
  <2>2. CASE i >= 7
    BY <1>1, <2>2 DEF Slice, BitNumbers, Width
  <2> QED BY <2>1, <2>2 DEF BitNumbers, Width
<1> QED BY <1>2 DEF FromInt, Slice

-----------------------------------------------------------------------------
(* The 37 instructions, and the ranges of their codes.                     *)
LEMMA InstructionNames ==
  Instructions =
    {"lui", "auipc", "jal", "jalr", "beq", "bne", "blt", "bge", "bltu", "bgeu",
     "lb", "lh", "lw", "lbu", "lhu", "sb", "sh", "sw", "addi", "slti", "sltiu",
     "xori", "ori", "andi", "slli", "srli", "srai", "add", "sub", "sll", "slt",
     "sltu", "xor", "srl", "sra", "or", "and"}
BY DEF Instructions, Encoding

LEMMA EncodingType ==
  ASSUME NEW op \in Instructions
  PROVE  /\ Encoding[op].opcode \in 0 .. 127 /\ Encoding[op].funct3 \in 0 .. 7
         /\ Encoding[op].funct7 \in {0, 32}
         /\ Format(op) \in {"U", "J", "I", "B", "S", "R"}
         /\ op \in ImmediateShifts => Format(op) = "R"
BY InstructionNames DEF Encoding, Code, Format, ImmediateShifts

(* The fields of an assembled word, format by format: each is found where  *)
(* the format puts it, because no other reaches into its place.            *)
LEMMA RFields ==
  ASSUME NEW op \in Instructions, Format(op) = "R",
         NEW n \in 0 .. 31, NEW m \in Int
  PROVE  LET w == Assembled(op, 1, 2, n, m)
         IN  /\ Holds(w, 0, 7, FromInt(Encoding[op].opcode), 0)
             /\ Holds(w, 12, 3, FromInt(Encoding[op].funct3), 0)
             /\ Holds(w, 20, 5, FromInt(n), 0)
             /\ Holds(w, 25, 7, FromInt(Encoding[op].funct7), 0)
<1> DEFINE e == Encoding[op]
           w == Assembled(op, 1, 2, n, m)
           o == Slice(FromInt(e.opcode), 0, 7, 0)
           d == Slice(FromInt(1), 0, 5, 7)
           f == Slice(FromInt(e.funct3), 0, 3, 12)
           r == Slice(FromInt(2), 0, 5, 15)
           t == Slice(FromInt(n), 0, 5, 20)
           g == Slice(FromInt(e.funct7), 0, 7, 25)
           P == {o, d, f, r, t, g}
<1>1. /\ e.opcode \in 0 .. 127 /\ e.funct3 \in 0 .. 7 /\ e.funct7 \in {0, 32}
      /\ e.format = "R"
  BY EncodingType DEF Format
<1>2. FromInt(e.opcode) = o
  BY <1>1, OpcodeField
<1>3. w = Overlay(P)
  BY <1>1, <1>2 DEF Assembled, Overlay, ImmediateSlices
<1>4. /\ \A i \in BitNumbers : i < 0 \/ i >= 7 => o[i] = 0
      /\ \A i \in BitNumbers : i < 7 \/ i >= 12 => d[i] = 0
      /\ \A i \in BitNumbers : i < 12 \/ i >= 15 => f[i] = 0
      /\ \A i \in BitNumbers : i < 15 \/ i >= 20 => r[i] = 0
      /\ \A i \in BitNumbers : i < 20 \/ i >= 25 => t[i] = 0
      /\ \A i \in BitNumbers : i < 25 \/ i >= 32 => g[i] = 0
  BY FieldElsewhere
<1>5. /\ FromInt(1) \in BitVectors
      /\ FromInt(2) \in BitVectors
      /\ FromInt(e.funct3) \in BitVectors
      /\ FromInt(e.funct7) \in BitVectors
      /\ FromInt(e.opcode) \in BitVectors
      /\ FromInt(n) \in BitVectors
  BY <1>1, FromIntType
<1> HIDE DEF e, w, o, d, f, r, t, g
<1>6. Placed(P, FromInt(e.opcode), 0, 7, 0)
  BY <1>4, <1>5 DEF o, Placed, BitNumbers, Width
<1>7. Placed(P, FromInt(e.funct3), 0, 3, 12)
  BY <1>4, <1>5 DEF f, Placed, BitNumbers, Width
<1>8. Placed(P, FromInt(n), 0, 5, 20)
  BY <1>4, <1>5 DEF t, Placed, BitNumbers, Width
<1>9. Placed(P, FromInt(e.funct7), 0, 7, 25)
  BY <1>4, <1>5 DEF g, Placed, BitNumbers, Width
<1> QED BY <1>3, <1>6, <1>7, <1>8, <1>9, FieldKept DEF e, w

LEMMA IFields ==
  ASSUME NEW op \in Instructions, Format(op) = "I",
         NEW n \in 0 .. 31, NEW m \in Int
  PROVE  LET w == Assembled(op, 1, 2, n, m)
         IN  /\ Holds(w, 0, 7, FromInt(Encoding[op].opcode), 0)
             /\ Holds(w, 12, 3, FromInt(Encoding[op].funct3), 0)
             /\ Holds(w, 20, 12, FromInt(m), 0)
<1> DEFINE e == Encoding[op]
           w == Assembled(op, 1, 2, n, m)
           o == Slice(FromInt(e.opcode), 0, 7, 0)
           d == Slice(FromInt(1), 0, 5, 7)
           f == Slice(FromInt(e.funct3), 0, 3, 12)
           r == Slice(FromInt(2), 0, 5, 15)
           k == Slice(FromInt(m), 0, 12, 20)
           P == {o, d, f, r, k}
<1>1. /\ e.opcode \in 0 .. 127 /\ e.funct3 \in 0 .. 7 /\ e.funct7 \in {0, 32}
      /\ e.format = "I"
  BY EncodingType DEF Format
<1>2. FromInt(e.opcode) = o
  BY <1>1, OpcodeField
<1>3. w = Overlay(P)
  BY <1>1, <1>2 DEF Assembled, Overlay, ImmediateSlices
<1>4. /\ \A i \in BitNumbers : i < 0 \/ i >= 7 => o[i] = 0
      /\ \A i \in BitNumbers : i < 7 \/ i >= 12 => d[i] = 0
      /\ \A i \in BitNumbers : i < 12 \/ i >= 15 => f[i] = 0
      /\ \A i \in BitNumbers : i < 15 \/ i >= 20 => r[i] = 0
      /\ \A i \in BitNumbers : i < 20 \/ i >= 32 => k[i] = 0
  BY FieldElsewhere
<1>5. /\ FromInt(1) \in BitVectors
      /\ FromInt(2) \in BitVectors
      /\ FromInt(e.funct3) \in BitVectors
      /\ FromInt(e.opcode) \in BitVectors
      /\ FromInt(m) \in BitVectors
  BY <1>1, FromIntType
<1> HIDE DEF e, w, o, d, f, r, k
<1>6. Placed(P, FromInt(e.opcode), 0, 7, 0)
  BY <1>4, <1>5 DEF o, Placed, BitNumbers, Width
<1>7. Placed(P, FromInt(e.funct3), 0, 3, 12)
  BY <1>4, <1>5 DEF f, Placed, BitNumbers, Width
<1>8. Placed(P, FromInt(m), 0, 12, 20)
  BY <1>4, <1>5 DEF k, Placed, BitNumbers, Width
<1> QED BY <1>3, <1>6, <1>7, <1>8, FieldKept DEF e, w

LEMMA SFields ==
  ASSUME NEW op \in Instructions, Format(op) = "S",
         NEW n \in 0 .. 31, NEW m \in Int
  PROVE  LET w == Assembled(op, 1, 2, n, m)
         IN  /\ Holds(w, 0, 7, FromInt(Encoding[op].opcode), 0)
             /\ Holds(w, 12, 3, FromInt(Encoding[op].funct3), 0)
             /\ Holds(w, 7, 5, FromInt(m), 0)
             /\ Holds(w, 25, 7, FromInt(m), 5)
<1> DEFINE e == Encoding[op]
           w == Assembled(op, 1, 2, n, m)
           o == Slice(FromInt(e.opcode), 0, 7, 0)
           f == Slice(FromInt(e.funct3), 0, 3, 12)
           r == Slice(FromInt(2), 0, 5, 15)
           t == Slice(FromInt(n), 0, 5, 20)
           m1 == Slice(FromInt(m), 0, 5, 7)
           m2 == Slice(FromInt(m), 5, 7, 25)
           P == {o, f, r, t, m1, m2}
<1>1. /\ e.opcode \in 0 .. 127 /\ e.funct3 \in 0 .. 7 /\ e.funct7 \in {0, 32}
      /\ e.format = "S"
  BY EncodingType DEF Format
<1>2. FromInt(e.opcode) = o
  BY <1>1, OpcodeField
<1>3. w = Overlay(P)
  BY <1>1, <1>2 DEF Assembled, Overlay, ImmediateSlices
<1>4. /\ \A i \in BitNumbers : i < 0 \/ i >= 7 => o[i] = 0
      /\ \A i \in BitNumbers : i < 12 \/ i >= 15 => f[i] = 0
      /\ \A i \in BitNumbers : i < 15 \/ i >= 20 => r[i] = 0
      /\ \A i \in BitNumbers : i < 20 \/ i >= 25 => t[i] = 0
      /\ \A i \in BitNumbers : i < 7 \/ i >= 12 => m1[i] = 0
      /\ \A i \in BitNumbers : i < 25 \/ i >= 32 => m2[i] = 0
  BY FieldElsewhere
<1>5. /\ FromInt(2) \in BitVectors
      /\ FromInt(e.funct3) \in BitVectors
      /\ FromInt(e.opcode) \in BitVectors
      /\ FromInt(m) \in BitVectors
      /\ FromInt(n) \in BitVectors
  BY <1>1, FromIntType
<1> HIDE DEF e, w, o, f, r, t, m1, m2
<1>6. Placed(P, FromInt(e.opcode), 0, 7, 0)
  BY <1>4, <1>5 DEF o, Placed, BitNumbers, Width
<1>7. Placed(P, FromInt(e.funct3), 0, 3, 12)
  BY <1>4, <1>5 DEF f, Placed, BitNumbers, Width
<1>8. Placed(P, FromInt(m), 0, 5, 7)
  BY <1>4, <1>5 DEF m1, Placed, BitNumbers, Width
<1>9. Placed(P, FromInt(m), 5, 7, 25)
  BY <1>4, <1>5 DEF m2, Placed, BitNumbers, Width
<1> QED BY <1>3, <1>6, <1>7, <1>8, <1>9, FieldKept DEF e, w

LEMMA BFields ==
  ASSUME NEW op \in Instructions, Format(op) = "B",
         NEW n \in 0 .. 31, NEW m \in Int
  PROVE  LET w == Assembled(op, 1, 2, n, m)
         IN  /\ Holds(w, 0, 7, FromInt(Encoding[op].opcode), 0)
             /\ Holds(w, 12, 3, FromInt(Encoding[op].funct3), 0)
             /\ Holds(w, 7, 1, FromInt(m), 11)
             /\ Holds(w, 8, 4, FromInt(m), 1)
             /\ Holds(w, 25, 6, FromInt(m), 5)
             /\ Holds(w, 31, 1, FromInt(m), 12)
<1> DEFINE e == Encoding[op]
           w == Assembled(op, 1, 2, n, m)
           o == Slice(FromInt(e.opcode), 0, 7, 0)
           f == Slice(FromInt(e.funct3), 0, 3, 12)
           r == Slice(FromInt(2), 0, 5, 15)
           t == Slice(FromInt(n), 0, 5, 20)
           m1 == Slice(FromInt(m), 11, 1, 7)
           m2 == Slice(FromInt(m), 1, 4, 8)
           m3 == Slice(FromInt(m), 5, 6, 25)
           m4 == Slice(FromInt(m), 12, 1, 31)
           P == {o, f, r, t, m1, m2, m3, m4}
<1>1. /\ e.opcode \in 0 .. 127 /\ e.funct3 \in 0 .. 7 /\ e.funct7 \in {0, 32}
      /\ e.format = "B"
  BY EncodingType DEF Format
<1>2. FromInt(e.opcode) = o
  BY <1>1, OpcodeField
<1>3. w = Overlay(P)
  BY <1>1, <1>2 DEF Assembled, Overlay, ImmediateSlices
<1>4. /\ \A i \in BitNumbers : i < 0 \/ i >= 7 => o[i] = 0
      /\ \A i \in BitNumbers : i < 12 \/ i >= 15 => f[i] = 0
      /\ \A i \in BitNumbers : i < 15 \/ i >= 20 => r[i] = 0
      /\ \A i \in BitNumbers : i < 20 \/ i >= 25 => t[i] = 0
      /\ \A i \in BitNumbers : i < 7 \/ i >= 8 => m1[i] = 0
      /\ \A i \in BitNumbers : i < 8 \/ i >= 12 => m2[i] = 0
      /\ \A i \in BitNumbers : i < 25 \/ i >= 31 => m3[i] = 0
      /\ \A i \in BitNumbers : i < 31 \/ i >= 32 => m4[i] = 0
  BY FieldElsewhere
<1>5. /\ FromInt(2) \in BitVectors
      /\ FromInt(e.funct3) \in BitVectors
      /\ FromInt(e.opcode) \in BitVectors
      /\ FromInt(m) \in BitVectors
      /\ FromInt(n) \in BitVectors
  BY <1>1, FromIntType
<1> HIDE DEF e, w, o, f, r, t, m1, m2, m3, m4
<1>6. Placed(P, FromInt(e.opcode), 0, 7, 0)
  BY <1>4, <1>5 DEF o, Placed, BitNumbers, Width
<1>7. Placed(P, FromInt(e.funct3), 0, 3, 12)
  BY <1>4, <1>5 DEF f, Placed, BitNumbers, Width
<1>8. Placed(P, FromInt(m), 11, 1, 7)
  BY <1>4, <1>5 DEF m1, Placed, BitNumbers, Width
<1>9. Placed(P, FromInt(m), 1, 4, 8)
  BY <1>4, <1>5 DEF m2, Placed, BitNumbers, Width
<1>10. Placed(P, FromInt(m), 5, 6, 25)
  BY <1>4, <1>5 DEF m3, Placed, BitNumbers, Width
<1>11. Placed(P, FromInt(m), 12, 1, 31)
  BY <1>4, <1>5 DEF m4, Placed, BitNumbers, Width
<1> QED BY <1>3, <1>6, <1>7, <1>8, <1>9, <1>10, <1>11, FieldKept DEF e, w

LEMMA UFields ==
  ASSUME NEW op \in Instructions, Format(op) = "U",
         NEW n \in 0 .. 31, NEW m \in Int
  PROVE  LET w == Assembled(op, 1, 2, n, m)
         IN  /\ Holds(w, 0, 7, FromInt(Encoding[op].opcode), 0)
             /\ Holds(w, 12, 20, FromInt(m), 0)
<1> DEFINE e == Encoding[op]
           w == Assembled(op, 1, 2, n, m)
           o == Slice(FromInt(e.opcode), 0, 7, 0)
           d == Slice(FromInt(1), 0, 5, 7)
           k == Slice(FromInt(m), 0, 20, 12)
           P == {o, d, k}
<1>1. /\ e.opcode \in 0 .. 127 /\ e.funct3 \in 0 .. 7 /\ e.funct7 \in {0, 32}
      /\ e.format = "U"
  BY EncodingType DEF Format
<1>2. FromInt(e.opcode) = o
  BY <1>1, OpcodeField
<1>3. w = Overlay(P)
  BY <1>1, <1>2 DEF Assembled, Overlay, ImmediateSlices
<1>4. /\ \A i \in BitNumbers : i < 0 \/ i >= 7 => o[i] = 0
      /\ \A i \in BitNumbers : i < 7 \/ i >= 12 => d[i] = 0
      /\ \A i \in BitNumbers : i < 12 \/ i >= 32 => k[i] = 0
  BY FieldElsewhere
<1>5. /\ FromInt(1) \in BitVectors
      /\ FromInt(e.opcode) \in BitVectors
      /\ FromInt(m) \in BitVectors
  BY <1>1, FromIntType
<1> HIDE DEF e, w, o, d, k
<1>6. Placed(P, FromInt(e.opcode), 0, 7, 0)
  BY <1>4, <1>5 DEF o, Placed, BitNumbers, Width
<1>7. Placed(P, FromInt(m), 0, 20, 12)
  BY <1>4, <1>5 DEF k, Placed, BitNumbers, Width
<1> QED BY <1>3, <1>6, <1>7, FieldKept DEF e, w

LEMMA JFields ==
  ASSUME NEW op \in Instructions, Format(op) = "J",
         NEW n \in 0 .. 31, NEW m \in Int
  PROVE  LET w == Assembled(op, 1, 2, n, m)
         IN  /\ Holds(w, 0, 7, FromInt(Encoding[op].opcode), 0)
             /\ Holds(w, 12, 8, FromInt(m), 12)
             /\ Holds(w, 20, 1, FromInt(m), 11)
             /\ Holds(w, 21, 10, FromInt(m), 1)
             /\ Holds(w, 31, 1, FromInt(m), 20)
<1> DEFINE e == Encoding[op]
           w == Assembled(op, 1, 2, n, m)
           o == Slice(FromInt(e.opcode), 0, 7, 0)
           d == Slice(FromInt(1), 0, 5, 7)
           m1 == Slice(FromInt(m), 12, 8, 12)
           m2 == Slice(FromInt(m), 11, 1, 20)
           m3 == Slice(FromInt(m), 1, 10, 21)
           m4 == Slice(FromInt(m), 20, 1, 31)
           P == {o, d, m1, m2, m3, m4}
<1>1. /\ e.opcode \in 0 .. 127 /\ e.funct3 \in 0 .. 7 /\ e.funct7 \in {0, 32}
      /\ e.format = "J"
  BY EncodingType DEF Format
<1>2. FromInt(e.opcode) = o
  BY <1>1, OpcodeField
<1>3. w = Overlay(P)
  BY <1>1, <1>2 DEF Assembled, Overlay, ImmediateSlices
<1>4. /\ \A i \in BitNumbers : i < 0 \/ i >= 7 => o[i] = 0
      /\ \A i \in BitNumbers : i < 7 \/ i >= 12 => d[i] = 0
      /\ \A i \in BitNumbers : i < 12 \/ i >= 20 => m1[i] = 0
      /\ \A i \in BitNumbers : i < 20 \/ i >= 21 => m2[i] = 0
      /\ \A i \in BitNumbers : i < 21 \/ i >= 31 => m3[i] = 0
      /\ \A i \in BitNumbers : i < 31 \/ i >= 32 => m4[i] = 0
  BY FieldElsewhere
<1>5. /\ FromInt(1) \in BitVectors
      /\ FromInt(e.opcode) \in BitVectors
      /\ FromInt(m) \in BitVectors
  BY <1>1, FromIntType
<1> HIDE DEF e, w, o, d, m1, m2, m3, m4
<1>6. Placed(P, FromInt(e.opcode), 0, 7, 0)
  BY <1>4, <1>5 DEF o, Placed, BitNumbers, Width
<1>7. Placed(P, FromInt(m), 12, 8, 12)
  BY <1>4, <1>5 DEF m1, Placed, BitNumbers, Width
<1>8. Placed(P, FromInt(m), 11, 1, 20)
  BY <1>4, <1>5 DEF m2, Placed, BitNumbers, Width
<1>9. Placed(P, FromInt(m), 1, 10, 21)
  BY <1>4, <1>5 DEF m3, Placed, BitNumbers, Width
<1>10. Placed(P, FromInt(m), 20, 1, 31)
  BY <1>4, <1>5 DEF m4, Placed, BitNumbers, Width
<1> QED BY <1>3, <1>6, <1>7, <1>8, <1>9, <1>10, FieldKept DEF e, w

(* An assembled word is a word.                                            *)
LEMMA AssembledType ==
  ASSUME NEW op, NEW n, NEW m
  PROVE  Assembled(op, 1, 2, n, m) \in BitVectors
BY DEF Assembled, BitVectors

-----------------------------------------------------------------------------
(* The sign of an immediate that fits its format.                          *)
LEMMA ShortSigns ==
  ASSUME NEW m \in Int
  PROVE  /\ m \in -(2 ^ 11) .. 2 ^ 11 - 1 =>
              \A i \in 11 .. 31 : FromInt(m)[i] = IF m < 0 THEN 1 ELSE 0
         /\ m \in -(2 ^ 12) .. 2 ^ 12 - 1 =>
              \A i \in 12 .. 31 : FromInt(m)[i] = IF m < 0 THEN 1 ELSE 0
         /\ m \in -(2 ^ 20) .. 2 ^ 20 - 1 =>
              \A i \in 20 .. 31 : FromInt(m)[i] = IF m < 0 THEN 1 ELSE 0
<1>1. ASSUME m \in -(2 ^ 11) .. 2 ^ 11 - 1, NEW i \in BitNumbers, i >= 11
      PROVE  FromInt(m)[i] = IF m < 0 THEN 1 ELSE 0
  <2>1. i \in BitNumbers /\ (i < 31 => i \in 0 .. 30)
    BY DEF BitNumbers, Width
  <2>2. ASSUME i < 31
        PROVE  2 ^ i >= 2 ^ 11
    BY <1>1, <2>1, <2>2, PowersOfTwo
  <2>3. 2 ^ 11 \in Nat /\ -(2 ^ 11) <= m /\ m < 2 ^ 11
    BY <1>1
  <2> QED BY <2>1, <2>2, <2>3, SignBits
<1>2. ASSUME m \in -(2 ^ 12) .. 2 ^ 12 - 1, NEW i \in BitNumbers, i >= 12
      PROVE  FromInt(m)[i] = IF m < 0 THEN 1 ELSE 0
  <2>1. i \in BitNumbers /\ (i < 31 => i \in 0 .. 30)
    BY DEF BitNumbers, Width
  <2>2. ASSUME i < 31
        PROVE  2 ^ i >= 2 ^ 12
    BY <1>2, <2>1, <2>2, PowersOfTwo
  <2>3. 2 ^ 12 \in Nat /\ -(2 ^ 12) <= m /\ m < 2 ^ 12
    BY <1>2
  <2> QED BY <2>1, <2>2, <2>3, SignBits
<1>3. ASSUME m \in -(2 ^ 20) .. 2 ^ 20 - 1, NEW i \in BitNumbers, i >= 20
      PROVE  FromInt(m)[i] = IF m < 0 THEN 1 ELSE 0
  <2>1. i \in BitNumbers /\ (i < 31 => i \in 0 .. 30)
    BY DEF BitNumbers, Width
  <2>2. ASSUME i < 31
        PROVE  2 ^ i >= 2 ^ 20
    BY <1>3, <2>1, <2>2, PowersOfTwo
  <2>3. 2 ^ 20 \in Nat /\ -(2 ^ 20) <= m /\ m < 2 ^ 20
    BY <1>3
  <2> QED BY <2>1, <2>2, <2>3, SignBits
<1> QED BY <1>1, <1>2, <1>3 DEF BitNumbers, Width

(* The lowest bit of an even number.                                       *)
LEMMA EvenBit ==
  ASSUME NEW m \in Int, m % 2 = 0
  PROVE  FromInt(m)[0] = 0
<1>1. FromInt(m)[0] = (m \div 2 ^ 0) % 2
  BY DEF FromInt, BitNumbers, Width
<1> QED BY <1>1

(* Five bits are a number below 32.                                        *)
LEMMA FiveBitNumber ==
  ASSUME NEW b \in BitVectors
  PROVE  Num(b, 0, 5) \in 0 .. 31
<1> DEFINE x == b[0] + 2 * b[1] + 4 * b[2] + 8 * b[3] + 16 * b[4]
           Is(y) == \A i \in 0 .. 5 - 1 : (y \div 2 ^ i) % 2 = b[0 + i]
<1>1. /\ b[0] \in {0, 1} /\ b[1] \in {0, 1} /\ b[2] \in {0, 1}
      /\ b[3] \in {0, 1} /\ b[4] \in {0, 1}
  BY DEF BitVectors, BitNumbers, Width
<1>2. /\ (x \div 2 ^ 0) % 2 = b[0] /\ (x \div 2 ^ 1) % 2 = b[1]
      /\ (x \div 2 ^ 2) % 2 = b[2] /\ (x \div 2 ^ 3) % 2 = b[3]
      /\ (x \div 2 ^ 4) % 2 = b[4] /\ x \in 0 .. 31
  BY <1>1
<1> HIDE DEF x
<1>3. ASSUME NEW i \in 0 .. 4
      PROVE  (x \div 2 ^ i) % 2 = b[i]
  <2>1. i = 0 \/ i = 1 \/ i = 2 \/ i = 3 \/ i = 4
    OBVIOUS
  <2> QED BY <1>2, <2>1, Zenon
<1>4. x \in 0 .. 2 ^ 5 - 1 /\ Is(x)
  BY <1>2, <1>3
<1> HIDE DEF Is
<1>5. Num(b, 0, 5) = CHOOSE y \in 0 .. 2 ^ 5 - 1 : Is(y)
  BY DEF Num, Is
<1>6. Num(b, 0, 5) \in 0 .. 2 ^ 5 - 1
  BY <1>4, <1>5
<1> QED BY <1>6

(* What the operators make of words is a word.                             *)
LEMMA OperatorTypes ==
  ASSUME NEW a \in BitVectors, NEW b \in BitVectors
  PROVE  /\ And(a, b) \in BitVectors /\ Or(a, b) \in BitVectors
         /\ Xor(a, b) \in BitVectors /\ Complement(a) \in BitVectors
<1> USE DEF BitVectors, BitNumbers, Width
<1>1. And(a, b) \in BitVectors
  BY DEF And
<1>2. Or(a, b) \in BitVectors
  BY DEF Or
<1>3. Xor(a, b) \in BitVectors
  BY DEF Xor
<1>4. Complement(a) \in BitVectors
  BY DEF Complement
<1> QED BY <1>1, <1>2, <1>3, <1>4

(* A sum is a word, whatever the carries are.                              *)
LEMMA SumTypes ==
  ASSUME NEW a \in BitVectors, NEW b \in BitVectors
  PROVE  Plus(a, b) \in BitVectors /\ Minus(a, b) \in BitVectors
<1>1. ASSUME NEW c \in BitVectors, NEW first
      PROVE  PlusCarry(a, c, first) \in BitVectors
  <2>1. ASSUME NEW i \in BitNumbers, NEW k \in {0, 1}
        PROVE  (a[i] + c[i] + k) % 2 \in {0, 1}
    BY DEF BitVectors
  <2>2. ASSUME NEW i \in BitNumbers
        PROVE  (a[i] + c[i] + (IF Carried(a, c, first, i) THEN 1 ELSE 0)) % 2 \in {0, 1}
    BY <2>1
  <2> QED BY <2>2 DEF PlusCarry, BitVectors
<1> QED BY <1>1, OperatorTypes DEF Plus, Minus

(* So are a shifted word, a mask and the low bits of a word.               *)
LEMMA ShiftTypes ==
  ASSUME NEW a \in BitVectors, NEW n \in 0 .. 32, NEW bit \in {0, 1}
  PROVE  /\ ShiftLeft(a, n) \in BitVectors /\ ShiftRight(a, n) \in BitVectors
         /\ Upper(bit, n) \in BitVectors /\ Slice(a, 0, n, 0) \in BitVectors
<1> USE DEF BitVectors, BitNumbers, Width
<1>1. ShiftLeft(a, n) \in BitVectors
  BY DEF ShiftLeft
<1>2. ShiftRight(a, n) \in BitVectors
  BY DEF ShiftRight
<1>3. Upper(bit, n) \in BitVectors
  BY DEF Upper
<1>4. Slice(a, 0, n, 0) \in BitVectors
  BY DEF Slice
<1> QED BY <1>1, <1>2, <1>3, <1>4

LEMMA ZeroType == Zero \in BitVectors
BY FromIntType DEF Zero

LEMMA BoolType ==
  ASSUME NEW c
  PROVE  Bool(c) \in BitVectors
BY FromIntType DEF Bool

(* Masking with ~1 clears the lowest bit.                                  *)
LEMMA EvenTarget ==
  ASSUME NEW a \in BitVectors
  PROVE  And(a, FromInt(-2)) = [a EXCEPT ![0] = 0]
<1> DEFINE v == FromInt(-2)
<1>1. ASSUME NEW i \in BitNumbers, i >= 1
      PROVE  v[i] = 1
  <2>1. ASSUME i < 31
        PROVE  2 ^ i >= 2
    <3>1. i \in 0 .. 30
      BY <2>1 DEF BitNumbers, Width
    <3> QED BY <1>1, <3>1, PowersOfTwo
  <2> QED BY <1>1, <2>1, SignBits
<1>2. v[0] = 0
  BY EvenBit
<1> HIDE DEF v
<1>3. ASSUME NEW i \in BitNumbers
      PROVE  And(a, v)[i] = [a EXCEPT ![0] = 0][i]
  BY <1>1, <1>2 DEF And, BitVectors, BitNumbers, Width
<1>4. And(a, v) = [a EXCEPT ![0] = 0]
  BY <1>3 DEF And, BitVectors
<1> QED BY <1>4 DEF v

(* A word of 32 bits is itself.                                            *)
LEMMA WholeWord ==
  ASSUME NEW a \in BitVectors
  PROVE  Slice(a, 0, 32, 0) = a
BY DEF Slice, BitVectors, BitNumbers, Width
=============================================================================
