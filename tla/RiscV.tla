------------------------------- MODULE RiscV -------------------------------
(***************************************************************************)
(* The RISC-V base integer instructions as their manual defines them: the  *)
(* words they are assembled to and what they compute.  What a call leaves  *)
(* in rd is the manual's link, the address of the next instruction.  Where *)
(* an instruction goes is in Isa.                                          *)
(***************************************************************************)
EXTENDS Bits

Code(format, opcode, funct3, funct7) ==
  [format |-> format, opcode |-> opcode, funct3 |-> funct3, funct7 |-> funct7]

Encoding ==
  [lui  |-> Code("U", 55, 0, 0),   auipc |-> Code("U", 23, 0, 0),
   jal  |-> Code("J", 111, 0, 0),  jalr  |-> Code("I", 103, 0, 0),
   beq  |-> Code("B", 99, 0, 0),   bne   |-> Code("B", 99, 1, 0),
   blt  |-> Code("B", 99, 4, 0),   bge   |-> Code("B", 99, 5, 0),
   bltu |-> Code("B", 99, 6, 0),   bgeu  |-> Code("B", 99, 7, 0),
   lb   |-> Code("I", 3, 0, 0),    lh    |-> Code("I", 3, 1, 0),
   lw   |-> Code("I", 3, 2, 0),    lbu   |-> Code("I", 3, 4, 0),
   lhu  |-> Code("I", 3, 5, 0),    sb    |-> Code("S", 35, 0, 0),
   sh   |-> Code("S", 35, 1, 0),   sw    |-> Code("S", 35, 2, 0),
   addi |-> Code("I", 19, 0, 0),   slti  |-> Code("I", 19, 2, 0),
   sltiu |-> Code("I", 19, 3, 0),  xori  |-> Code("I", 19, 4, 0),
   ori  |-> Code("I", 19, 6, 0),   andi  |-> Code("I", 19, 7, 0),
   slli |-> Code("R", 19, 1, 0),   srli  |-> Code("R", 19, 5, 0),
   srai |-> Code("R", 19, 5, 32),  add   |-> Code("R", 51, 0, 0),
   sub  |-> Code("R", 51, 0, 32),  sll   |-> Code("R", 51, 1, 0),
   slt  |-> Code("R", 51, 2, 0),   sltu  |-> Code("R", 51, 3, 0),
   xor  |-> Code("R", 51, 4, 0),   srl   |-> Code("R", 51, 5, 0),
   sra  |-> Code("R", 51, 5, 32),  or    |-> Code("R", 51, 6, 0),
   and  |-> Code("R", 51, 7, 0)]

Instructions == DOMAIN Encoding
Format(op) == Encoding[op].format
ImmediateShifts == {"slli", "srli", "srai"}

(* op has room for the immediate m; that of a shift is its amount.         *)
Fits(op, m) ==
  CASE op \in ImmediateShifts    -> m \in 0 .. 31
    [] Format(op) \in {"I", "S"} -> m \in -(2 ^ 11) .. 2 ^ 11 - 1
    [] Format(op) = "B"          -> m \in -(2 ^ 12) .. 2 ^ 12 - 1 /\ m % 2 = 0
    [] Format(op) = "J"          -> m \in -(2 ^ 20) .. 2 ^ 20 - 1 /\ m % 2 = 0
    [] Format(op) = "U"          -> m \in 0 .. 2 ^ 20 - 1
    [] OTHER                     -> m = 0

(* Where each format keeps the bits of its immediate: <<lowest bit, number *)
(* of bits, place in the word>>.                                           *)
ImmediateSlices ==
  [I |-> {<<0, 12, 20>>},
   S |-> {<<0, 5, 7>>, <<5, 7, 25>>},
   B |-> {<<11, 1, 7>>, <<1, 4, 8>>, <<5, 6, 25>>, <<12, 1, 31>>},
   U |-> {<<0, 20, 12>>},
   J |-> {<<12, 8, 12>>, <<11, 1, 20>>, <<1, 10, 21>>, <<20, 1, 31>>},
   R |-> {}]

(* The word for op with the register numbers rd, rs1 and rs2 (or a shift   *)
(* amount in place of rs2) and the immediate imm.                          *)
Assembled(op, rd, rs1, rs2, imm) ==
  LET e == Encoding[op]
      parts == {FromInt(e.opcode)}
        \cup {Slice(FromInt(imm), s[1], s[2], s[3]) : s \in ImmediateSlices[e.format]}
        \cup (IF e.format \in {"S", "B"} THEN {} ELSE {Slice(FromInt(rd), 0, 5, 7)})
        \cup (IF e.format \in {"U", "J"} THEN {}
              ELSE {Slice(FromInt(e.funct3), 0, 3, 12), Slice(FromInt(rs1), 0, 5, 15)})
        \cup (IF e.format \in {"R", "S", "B"} THEN {Slice(FromInt(rs2), 0, 5, 20)} ELSE {})
        \cup (IF e.format = "R" THEN {Slice(FromInt(e.funct7), 0, 7, 25)} ELSE {})
  IN  [i \in BitNumbers |-> IF \E p \in parts : p[i] = 1 THEN 1 ELSE 0]

ShiftArithmetic(a, n) ==
  [i \in BitNumbers |-> IF i + n < Width THEN a[i + n] ELSE Sign(a)]

SignExtended(a, n) == [i \in BitNumbers |-> IF i < n THEN a[i] ELSE a[n - 1]]

(* What op leaves in rd: a and b are the values of rs1 and rs2, m the      *)
(* immediate, n the shift amount of an immediate shift, p the instruction's*)
(* address and cell the memory word it loads from.                         *)
Result(op, a, b, m, n, p, cell) ==
  LET low == Num(b, 0, 5)
  IN  CASE op = "lui"   -> ShiftLeft(m, 12)
        [] op = "auipc" -> Plus(p, ShiftLeft(m, 12))
        [] op \in {"jal", "jalr"} -> Plus(p, FromInt(4))
        [] op = "lb"    -> SignExtended(cell, 8)
        [] op = "lh"    -> SignExtended(cell, 16)
        [] op = "lw"    -> cell
        [] op = "lbu"   -> Slice(cell, 0, 8, 0)
        [] op = "lhu"   -> Slice(cell, 0, 16, 0)
        [] op = "addi"  -> Plus(a, m)
        [] op = "slti"  -> Bool(SignedLess(a, m))
        [] op = "sltiu" -> Bool(Less(a, m))
        [] op = "xori"  -> Xor(a, m)
        [] op = "ori"   -> Or(a, m)
        [] op = "andi"  -> And(a, m)
        [] op = "slli"  -> ShiftLeft(a, n)
        [] op = "srli"  -> ShiftRight(a, n)
        [] op = "srai"  -> ShiftArithmetic(a, n)
        [] op = "add"   -> Plus(a, b)
        [] op = "sub"   -> Minus(a, b)
        [] op = "sll"   -> ShiftLeft(a, low)
        [] op = "slt"   -> Bool(SignedLess(a, b))
        [] op = "sltu"  -> Bool(Less(a, b))
        [] op = "xor"   -> Xor(a, b)
        [] op = "srl"   -> ShiftRight(a, low)
        [] op = "sra"   -> ShiftArithmetic(a, low)
        [] op = "or"    -> Or(a, b)
        [] op = "and"   -> And(a, b)

WritesRd(op) == Format(op) \in {"U", "J", "I", "R"}

Taken(op, a, b) ==
  CASE op = "beq"  -> a = b
    [] op = "bne"  -> a # b
    [] op = "blt"  -> SignedLess(a, b)
    [] op = "bge"  -> ~SignedLess(a, b)
    [] op = "bltu" -> Less(a, b)
    [] op = "bgeu" -> ~Less(a, b)
    [] OTHER       -> FALSE

(* The bytes a store hands to the memory.                                  *)
StoredBytes(op) == CASE op = "sb" -> 1 [] op = "sh" -> 2 [] op = "sw" -> 4
                     [] OTHER -> 0

(* The address of a load or store, and the target of jalr.                 *)
EffectiveAddress(op, a, m) ==
  IF op = "jalr" THEN [Plus(a, m) EXCEPT ![0] = 0] ELSE Plus(a, m)
=============================================================================
