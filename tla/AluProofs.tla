----------------------------- MODULE AluProofs ------------------------------
(***************************************************************************)
(* For every 32-bit operand and every immediate that fits its format, the  *)
(* factory, the decoder and the execution of the simulator do what the     *)
(* RISC-V manual says, but for the rd of the six instructions that do not. *)
(***************************************************************************)
EXTENDS Alu, EncodingProofs

(* The factory's arms: the class that opcode, funct3 and funct7 pick, which*)
(* is srl for sra.                                                         *)
LEMMA CreatedIs ==
  ASSUME NEW w, NEW op \in Instructions,
         Num(w, 0, 7) = Encoding[op].opcode,
         Format(op) \notin {"U", "J"} => Num(w, 12, 3) = Encoding[op].funct3,
         Format(op) = "R" => Num(w, 25, 7) = Encoding[op].funct7
  PROVE  CreatedClass(w) = IF op = "sra" THEN "srl" ELSE op
<1>1. CASE op \in {"lui", "auipc", "jal", "jalr"}
  BY <1>1 DEF CreatedClass, OpCode, Encoding, Code
<1>2. CASE op \in {"lb", "lh", "lw", "lbu", "lhu"}
  BY <1>2 DEF CreatedClass, OpCode, Encoding, Code, Format, Loads
<1>3. CASE op \in {"beq", "bne", "blt", "bge", "bltu", "bgeu"}
  BY <1>3 DEF CreatedClass, OpCode, Encoding, Code, Format, Branches
<1>4. CASE op \in {"sb", "sh", "sw"}
  BY <1>4 DEF CreatedClass, OpCode, Encoding, Code, Format, Stores
<1>5. CASE op \in {"addi", "slti", "sltiu", "xori", "ori", "andi", "slli", "srli", "srai"}
  BY <1>5 DEF CreatedClass, OpCode, Encoding, Code, Format, ITypes, ByFunct7
<1>6. CASE op \in {"add", "sub", "sll", "slt", "sltu", "xor", "srl", "sra", "or", "and"}
  BY <1>6 DEF CreatedClass, OpCode, Encoding, Code, Format, RTypes, ByFunct7
<1> QED BY <1>1, <1>2, <1>3, <1>4, <1>5, <1>6, InstructionNames

(* Two words with the same bits are the same.                              *)
LEMMA SameWord ==
  ASSUME NEW a, NEW b, NEW v \in BitVectors,
         \A i \in 0 .. 31 : Or(a, b)[i] = v[i]
  PROVE  Or(a, b) = v
<1>1. Or(a, b) = [i \in 0 .. 31 |-> Or(a, b)[i]]
  BY DEF Or, BitNumbers, Width
<1>2. v = [i \in 0 .. 31 |-> v[i]]
  BY DEF BitVectors, BitNumbers, Width
<1> QED BY <1>1, <1>2

(* The immediates of the five formats: the fields that the word holds, and *)
(* the sign in front of them.                                              *)
LEMMA IDecoded ==
  ASSUME NEW w, NEW v \in BitVectors, Holds(w, 20, 12, v, 0),
         \A i \in 11 .. 31 : v[i] = v[31]
  PROVE  IImmediate(w) = v
<1> USE DEF BitVectors, BitNumbers, Width
<1>1. ASSUME NEW i \in 0 .. 31
      PROVE  IImmediate(w)[i] = v[i]
  <2>1. w[31] = v[31]
    BY DEF Holds
  <2>2. Upper(w[31], 12)[i] = IF i >= 12 THEN v[31] ELSE 0
    BY <2>1 DEF Upper
  <2>3. Slice(w, 20, 12, 0)[i] = IF i < 12 THEN v[i] ELSE 0
    BY DEF Slice, Holds
  <2> QED BY <2>2, <2>3 DEF IImmediate, Or
<1> QED BY <1>1, SameWord DEF IImmediate

LEMMA SDecoded ==
  ASSUME NEW w, NEW v \in BitVectors, Holds(w, 7, 5, v, 0), Holds(w, 25, 7, v, 5),
         \A i \in 11 .. 31 : v[i] = v[31]
  PROVE  SImmediate(w) = v
<1> USE DEF BitVectors, BitNumbers, Width
<1>1. ASSUME NEW i \in 0 .. 31
      PROVE  SImmediate(w)[i] = v[i]
  <2>1. w[31] = v[31]
    BY DEF Holds
  <2>2. Upper(w[31], 12)[i] = IF i >= 12 THEN v[31] ELSE 0
    BY <2>1 DEF Upper
  <2>3. Slice(w, 25, 7, 5)[i] = IF i \in 5 .. 11 THEN v[i] ELSE 0
    BY DEF Slice, Holds
  <2>4. Slice(w, 7, 5, 0)[i] = IF i < 5 THEN v[i] ELSE 0
    BY DEF Slice, Holds
  <2> QED BY <2>2, <2>3, <2>4 DEF SImmediate, Or
<1> QED BY <1>1, SameWord DEF SImmediate

LEMMA BDecoded ==
  ASSUME NEW w, NEW v \in BitVectors, Holds(w, 7, 1, v, 11), Holds(w, 8, 4, v, 1),
         Holds(w, 25, 6, v, 5), Holds(w, 31, 1, v, 12),
         v[0] = 0, \A i \in 12 .. 31 : v[i] = v[31]
  PROVE  BImmediate(w) = v
<1> USE DEF BitVectors, BitNumbers, Width
<1>1. ASSUME NEW i \in 0 .. 31
      PROVE  BImmediate(w)[i] = v[i]
  <2>1. w[31] = v[31]
    BY DEF Holds
  <2>2. Upper(w[31], 13)[i] = IF i >= 13 THEN v[31] ELSE 0
    BY <2>1 DEF Upper
  <2>3. /\ Slice(w, 31, 1, 12)[i] = IF i = 12 THEN v[i] ELSE 0
        /\ Slice(w, 7, 1, 11)[i] = IF i = 11 THEN v[i] ELSE 0
    BY DEF Slice, Holds
  <2>4. /\ Slice(w, 25, 6, 5)[i] = IF i \in 5 .. 10 THEN v[i] ELSE 0
        /\ Slice(w, 8, 4, 1)[i] = IF i \in 1 .. 4 THEN v[i] ELSE 0
    BY DEF Slice, Holds
  <2> QED BY <2>2, <2>3, <2>4 DEF BImmediate, Or
<1> QED BY <1>1, SameWord DEF BImmediate

LEMMA JDecoded ==
  ASSUME NEW w, NEW v \in BitVectors, Holds(w, 12, 8, v, 12), Holds(w, 20, 1, v, 11),
         Holds(w, 21, 10, v, 1), Holds(w, 31, 1, v, 20),
         v[0] = 0, \A i \in 20 .. 31 : v[i] = v[31]
  PROVE  JImmediate(w) = v
<1> USE DEF BitVectors, BitNumbers, Width
<1>1. ASSUME NEW i \in 0 .. 31
      PROVE  JImmediate(w)[i] = v[i]
  <2>1. w[31] = v[31]
    BY DEF Holds
  <2>2. Upper(w[31], 20)[i] = IF i >= 20 THEN v[31] ELSE 0
    BY <2>1 DEF Upper
  <2>3. /\ Slice(w, 31, 1, 20)[i] = IF i = 20 THEN v[i] ELSE 0
        /\ Slice(w, 12, 8, 12)[i] = IF i \in 12 .. 19 THEN v[i] ELSE 0
    BY DEF Slice, Holds
  <2>4. /\ Slice(w, 20, 1, 11)[i] = IF i = 11 THEN v[i] ELSE 0
        /\ Slice(w, 21, 10, 1)[i] = IF i \in 1 .. 10 THEN v[i] ELSE 0
    BY DEF Slice, Holds
  <2> QED BY <2>2, <2>3, <2>4 DEF JImmediate, Or
<1> QED BY <1>1, SameWord DEF JImmediate

LEMMA UDecoded ==
  ASSUME NEW w, NEW v \in BitVectors, Holds(w, 12, 20, v, 0),
         \A i \in 20 .. 31 : v[i] = 0
  PROVE  UImmediate(w) = v
<1> USE DEF BitVectors, BitNumbers, Width
<1>1. ASSUME NEW i \in 0 .. 31
      PROVE  UImmediate(w)[i] = v[i]
  BY DEF UImmediate, Slice, Holds
<1> QED BY <1>1 DEF UImmediate, Slice

(* The factory names the instruction, but for sra, which it takes for srl. *)
LEMMA CreatedName ==
  ASSUME NEW op \in Instructions, NEW n \in 0 .. 31, NEW m \in Int
  PROVE  CreatedClass(Assembled(op, 1, 2, n, m)) = IF op = "sra" THEN "srl" ELSE op
<1> DEFINE e == Encoding[op]
           w == Assembled(op, 1, 2, n, m)
<1>1. /\ e.opcode \in 0 .. 127 /\ e.funct3 \in 0 .. 7 /\ e.funct7 \in {0, 32}
      /\ Format(op) \in {"U", "J", "I", "B", "S", "R"}
  BY EncodingType
<1>2. /\ Holds(w, 0, 7, FromInt(e.opcode), 0)
      /\ Format(op) \notin {"U", "J"} => Holds(w, 12, 3, FromInt(e.funct3), 0)
      /\ Format(op) = "R" => Holds(w, 25, 7, FromInt(e.funct7), 0)
  BY <1>1, RFields, IFields, SFields, BFields, UFields, JFields
<1> HIDE DEF e, w
<1>3. Num(w, 0, 7) = e.opcode
  <2>1. Holds(w, 0, 7, FromInt(e.opcode), 0) /\ 0 \in BitNumbers /\ e.opcode \in 0 .. 127
    BY <1>1, <1>2 DEF BitNumbers, Width
  <2> QED BY <2>1, SevenBits
<1>4. Format(op) \notin {"U", "J"} => Num(w, 12, 3) = e.funct3
  BY <1>1, <1>2, ThreeBits DEF BitNumbers, Width
<1>5. Format(op) = "R" => Num(w, 25, 7) = e.funct7
  <2>1. 25 \in BitNumbers /\ e.funct7 \in 0 .. 127
    BY <1>1 DEF BitNumbers, Width
  <2> QED BY <1>2, <2>1, SevenBits
<1> QED BY <1>3, <1>4, <1>5, CreatedIs DEF e, w

(* The shift amount is the number that was assembled.                      *)
LEMMA ShiftDecoded ==
  ASSUME NEW op \in ImmediateShifts, NEW n \in 0 .. 31, NEW m \in Int
  PROVE  Shamt(Assembled(op, 1, 2, n, m)) = n
<1> DEFINE w == Assembled(op, 1, 2, n, m)
<1>1. op \in Instructions /\ Format(op) = "R"
  <2>1. op \in Instructions
    BY InstructionNames DEF ImmediateShifts
  <2> QED BY <2>1, EncodingType
<1>2. Holds(w, 20, 5, FromInt(n), 0)
  BY <1>1, RFields
<1> HIDE DEF w
<1>3. Num(w, 20, 5) = n
  BY <1>2, FiveBits DEF BitNumbers, Width
<1> QED BY <1>3 DEF Shamt, w

(* The decoder finds every immediate that fits.                            *)
LEMMA ImmediateDecoded ==
  ASSUME NEW op \in Instructions, Format(op) # "R",
         NEW n \in 0 .. 31, NEW m \in Int, Fits(op, m)
  PROVE  Immediate(op, Assembled(op, 1, 2, n, m)) = FromInt(m)
<1> DEFINE w == Assembled(op, 1, 2, n, m)
           v == FromInt(m)
<1>1. Format(op) \in {"U", "J", "I", "B", "S"} /\ op \notin ImmediateShifts
  BY EncodingType
<1>2. v \in BitVectors
  BY FromIntType
<1>3. CASE Format(op) = "I"
  <2>1. Holds(w, 20, 12, v, 0)
    BY <1>3, IFields
  <2>2. \A i \in 11 .. 31 : v[i] = v[31]
    BY <1>1, <1>3, ShortSigns DEF Fits
  <2> HIDE DEF w, v
  <2>3. IImmediate(w) = v
    BY <1>2, <2>1, <2>2, IDecoded
  <2> QED BY <1>3, <2>3 DEF Immediate, w, v
<1>4. CASE Format(op) = "S"
  <2>1. Holds(w, 7, 5, v, 0) /\ Holds(w, 25, 7, v, 5)
    BY <1>4, SFields
  <2>2. \A i \in 11 .. 31 : v[i] = v[31]
    BY <1>1, <1>4, ShortSigns DEF Fits
  <2> HIDE DEF w, v
  <2>3. SImmediate(w) = v
    BY <1>2, <2>1, <2>2, SDecoded
  <2> QED BY <1>4, <2>3 DEF Immediate, w, v
<1>5. CASE Format(op) = "B"
  <2>1. /\ Holds(w, 7, 1, v, 11) /\ Holds(w, 8, 4, v, 1)
        /\ Holds(w, 25, 6, v, 5) /\ Holds(w, 31, 1, v, 12)
    BY <1>5, BFields
  <2>2. m \in -(2 ^ 12) .. 2 ^ 12 - 1 /\ m % 2 = 0
    BY <1>1, <1>5 DEF Fits
  <2>3. v[0] = 0 /\ \A i \in 12 .. 31 : v[i] = v[31]
    BY <2>2, ShortSigns, EvenBit
  <2> HIDE DEF w, v
  <2>4. BImmediate(w) = v
    BY <1>2, <2>1, <2>3, BDecoded
  <2> QED BY <1>5, <2>4 DEF Immediate, w, v
<1>6. CASE Format(op) = "J"
  <2>1. /\ Holds(w, 12, 8, v, 12) /\ Holds(w, 20, 1, v, 11)
        /\ Holds(w, 21, 10, v, 1) /\ Holds(w, 31, 1, v, 20)
    BY <1>6, JFields
  <2>2. m \in -(2 ^ 20) .. 2 ^ 20 - 1 /\ m % 2 = 0
    BY <1>1, <1>6 DEF Fits
  <2>3. v[0] = 0 /\ \A i \in 20 .. 31 : v[i] = v[31]
    BY <2>2, ShortSigns, EvenBit
  <2> HIDE DEF w, v
  <2>4. JImmediate(w) = v
    BY <1>2, <2>1, <2>3, JDecoded
  <2> QED BY <1>6, <2>4 DEF Immediate, w, v
<1>7. CASE Format(op) = "U"
  <2>1. Holds(w, 12, 20, v, 0)
    BY <1>7, UFields
  <2>2. \A i \in 20 .. 31 : v[i] = 0
    BY <1>1, <1>7, ShortSigns DEF Fits
  <2> HIDE DEF w, v
  <2>3. UImmediate(w) = v
    BY <1>2, <2>1, <2>2, UDecoded
  <2> QED BY <1>7, <2>3 DEF Immediate, w, v
<1> QED BY <1>1, <1>3, <1>4, <1>5, <1>6, <1>7

(* srai's mask makes an arithmetic shift of a logical one.                 *)
LEMMA MaskedShift ==
  ASSUME NEW a \in BitVectors, NEW n \in 0 .. 31
  PROVE  ShiftedWithMask(a, n) = ShiftArithmetic(a, n)
<1> DEFINE ones == And(Upper(Sign(a), 0), Complement(Upper(1, n)))
<1> USE DEF BitVectors, BitNumbers, Width
<1>1. Sign(a) \in {0, 1}
  BY DEF Sign
<1>2. ASSUME NEW i \in 0 .. 31
      PROVE  ones[i] = IF i < n THEN Sign(a) ELSE 0
  BY <1>1 DEF And, Upper, Complement
<1> HIDE DEF ones
<1>3. ASSUME NEW i \in 0 .. 31
      PROVE  ShiftLeft(ones, Width - n)[i] = IF i + n < 32 THEN 0 ELSE Sign(a)
  BY <1>2 DEF ShiftLeft
<1>4. ASSUME NEW i \in 0 .. 31
      PROVE  ShiftRight(a, n)[i] = IF i + n < 32 THEN a[i + n] ELSE 0
  BY DEF ShiftRight
<1>5. ASSUME NEW i \in 0 .. 31
      PROVE  Or(ShiftRight(a, n), ShiftLeft(ones, Width - n))[i]
               = ShiftArithmetic(a, n)[i]
  <2>1. ShiftArithmetic(a, n)[i] = IF i + n < 32 THEN a[i + n] ELSE Sign(a)
    BY DEF ShiftArithmetic
  <2>2. i + n < 32 => a[i + n] \in {0, 1}
    OBVIOUS
  <2> QED BY <1>1, <1>3, <1>4, <2>1, <2>2 DEF Or
<1>6. ShiftArithmetic(a, n) \in BitVectors
  BY <1>1 DEF ShiftArithmetic
<1> QED BY <1>5, <1>6, SameWord DEF ShiftedWithMask, ones

-----------------------------------------------------------------------------
(* What is true of the stages that are over.                               *)
Fetched ==
  /\ case \in Cases
  /\ stage \in StageNames
  /\ instr = Assembled(case.op, 1, 2, ShiftAmount(case), case.imm)
  /\ class = IF stage = "fetched" THEN "none"
             ELSE IF case.op = "sra" THEN "srl" ELSE case.op

Decoded ==
  stage \in {"decoded", "executed", "accessed"} =>
    /\ imm = Immediate(class, instr)
    /\ rs1 = IF Format(class) \in {"I", "S", "B", "R"} THEN case.v1 ELSE Zero
    /\ rs2 = IF Format(class) \in {"S", "B", "R"} THEN case.v2 ELSE Zero
    /\ shamt = IF class \in ImmediateShifts THEN Shamt(instr) ELSE 0

AluInv == AluTypeOK /\ Fetched /\ Decoded

(* An input is an instruction, its operands and an immediate that fits.    *)
LEMMA InputTypes ==
  ASSUME NEW c \in Inputs
  PROVE  /\ c.op \in Instructions /\ c.imm \in Int /\ Fits(c.op, c.imm)
         /\ c.v1 \in BitVectors /\ c.v2 \in BitVectors /\ c.cell \in BitVectors
         /\ ShiftAmount(c) \in 0 .. 31
<1>1. /\ c.op \in Instructions /\ c.imm \in Int /\ Fits(c.op, c.imm)
      /\ c.v1 \in BitVectors /\ c.v2 \in BitVectors /\ c.cell \in BitVectors
  BY DEF Inputs
<1>2. ShiftAmount(c) \in 0 .. 31
  <2>1. CASE c.op \in ImmediateShifts
    <3>1. Format(c.op) = "R"
      BY <1>1, <2>1, EncodingType
    <3>2. c.imm \in 0 .. 31
      BY <1>1, <2>1, <3>1 DEF Fits
    <3> QED BY <2>1, <3>2 DEF ShiftAmount
  <2>2. CASE c.op \notin ImmediateShifts
    BY <2>2 DEF ShiftAmount
  <2> QED BY <2>1, <2>2
<1> QED BY <1>1, <1>2

(* Decode's immediate and shift amount are of their types.                 *)
LEMMA DecodedTypes ==
  ASSUME Fetched, stage # "fetched"
  PROVE  /\ class \in Instructions
         /\ Format(class) = Format(case.op)
         /\ (class \in ImmediateShifts => case.op = class /\ Shamt(instr) = case.imm)
         /\ (class \in ImmediateShifts => Shamt(instr) \in 0 .. 31)
         /\ (Format(class) # "R" => Immediate(class, instr) = FromInt(case.imm))
         /\ Immediate(class, instr) \in BitVectors
<1> DEFINE n == ShiftAmount(case)
<1>1. /\ case.op \in Instructions /\ case.imm \in Int /\ Fits(case.op, case.imm)
      /\ n \in 0 .. 31
  BY InputTypes, CasesAssumption DEF Fetched
<1>2. /\ instr = Assembled(case.op, 1, 2, n, case.imm)
      /\ class = IF case.op = "sra" THEN "srl" ELSE case.op
  BY DEF Fetched
<1>3. class \in Instructions /\ Format(class) = Format(case.op)
  BY <1>1, <1>2, InstructionNames DEF Format, Encoding, Code
<1>4. class \in ImmediateShifts => case.op = class /\ n = case.imm
  BY <1>2 DEF ImmediateShifts, ShiftAmount
<1> HIDE DEF n
<1>5. class \in ImmediateShifts => Shamt(instr) = n
  BY <1>1, <1>2, <1>4, ShiftDecoded
<1>6. Format(class) # "R" => class = case.op
  BY <1>2, <1>3 DEF Format, Encoding, Code
<1>7. Format(class) # "R" => Immediate(class, instr) = FromInt(case.imm)
  BY <1>1, <1>2, <1>6, ImmediateDecoded
<1>8. Format(class) = "R" => Immediate(class, instr) = Zero
  BY DEF Immediate
<1>9. Immediate(class, instr) \in BitVectors
  BY <1>1, <1>7, <1>8, FromIntType, ZeroType
<1> QED BY <1>1, <1>3, <1>4, <1>5, <1>7, <1>9

(* Execute leaves a word in rd.                                            *)
LEMMA ExecutedType ==
  ASSUME rd \in BitVectors, NEW c, NEW a \in BitVectors, NEW b \in BitVectors,
         NEW m \in BitVectors, NEW n \in 0 .. 32
  PROVE  ExecutedRd(c, a, b, m, n) \in BitVectors
<1>1. /\ ShiftLeft(m, 12) \in BitVectors /\ ShiftLeft(a, n) \in BitVectors
      /\ ShiftRight(a, n) \in BitVectors
  BY ShiftTypes
<1>2. ShiftedWithMask(a, n) \in BitVectors
  <2>1. Sign(a) \in {0, 1} /\ 0 \in 0 .. 32 /\ 1 \in {0, 1} /\ Width - n \in 0 .. 32
    BY DEF Sign, BitVectors, BitNumbers, Width
  <2>2. Upper(Sign(a), 0) \in BitVectors /\ Upper(1, n) \in BitVectors
    BY <2>1, ShiftTypes
  <2>3. And(Upper(Sign(a), 0), Complement(Upper(1, n))) \in BitVectors
    BY <2>2, OperatorTypes
  <2>4. ShiftLeft(And(Upper(Sign(a), 0), Complement(Upper(1, n))), Width - n) \in BitVectors
    BY <2>1, <2>3, ShiftTypes
  <2> QED BY <1>1, <2>4, OperatorTypes DEF ShiftedWithMask
<1>3. /\ Plus(a, b) \in BitVectors /\ Plus(a, m) \in BitVectors
      /\ Minus(a, b) \in BitVectors /\ Plus(SeenPc, FromInt(8)) \in BitVectors
  BY SumTypes, FromIntType DEF SeenPc
<1>4. /\ Xor(a, b) \in BitVectors /\ Xor(a, m) \in BitVectors
      /\ And(a, b) \in BitVectors /\ And(a, m) \in BitVectors
      /\ Or(a, b) \in BitVectors /\ Or(a, m) \in BitVectors
  BY OperatorTypes
<1>5. /\ Bool(Below(a, m)) \in BitVectors /\ Bool(Less(a, m)) \in BitVectors
      /\ Bool(SignedLess(a, b)) \in BitVectors /\ Bool(Less(a, b)) \in BitVectors
  BY BoolType
<1> QED BY <1>1, <1>2, <1>3, <1>4, <1>5 DEF ExecutedRd

(* The invariant holds at first, and every stage keeps it.                 *)
LEMMA InitAlu == AluInit => AluInv
<1> SUFFICES ASSUME AluInit PROVE AluInv
  OBVIOUS
<1>1. case \in Inputs
  BY CasesAssumption DEF AluInit
<1>2. instr \in BitVectors
  BY AssembledType DEF AluInit
<1>3. Fetched
  BY DEF AluInit, Fetched, StageNames
<1>4. /\ {rs1, rs2, imm, rd, addr} \subseteq BitVectors
      /\ stored \in [bytes : 0 .. 4, data : BitVectors]
  BY ZeroType DEF AluInit
<1>5. shamt \in BitNumbers /\ stage \in StageNames /\ class = "none"
  BY DEF AluInit, StageNames, BitNumbers, Width
<1>6. branch \in BOOLEAN
  BY DEF AluInit
<1>7. AluTypeOK
  BY <1>1, <1>2, <1>4, <1>5, <1>6 DEF AluTypeOK
<1> QED BY <1>3, <1>7 DEF AluInit, AluInv, Decoded

LEMMA NextAlu == AluInv /\ [AluNext]_aluVars => AluInv'
<1> SUFFICES ASSUME AluInv, [AluNext]_aluVars PROVE AluInv'
  OBVIOUS
<1>1. AluTypeOK /\ Fetched /\ Decoded
  BY DEF AluInv
<1>2. /\ case.op \in Instructions /\ case.imm \in Int /\ ShiftAmount(case) \in 0 .. 31
      /\ case.v1 \in BitVectors /\ case.v2 \in BitVectors /\ case.cell \in BitVectors
  BY <1>1, InputTypes, CasesAssumption DEF Fetched
<1>3. CASE Create
  <2>1. class' = IF case.op = "sra" THEN "srl" ELSE case.op
    BY <1>1, <1>2, <1>3, CreatedName DEF Create, Fetched
  <2>2. class' \in Instructions
    BY <1>2, <2>1, InstructionNames
  <2>3. Fetched'
    BY <1>1, <1>3, <2>1 DEF Create, Fetched, StageNames, ShiftAmount
  <2>4. AluTypeOK'
    BY <1>1, <1>3, <2>2 DEF Create, AluTypeOK, StageNames
  <2> QED BY <1>3, <2>3, <2>4 DEF Create, AluInv, Decoded
<1>4. CASE Decode
  <2>1. /\ (class \in ImmediateShifts => Shamt(instr) \in 0 .. 31)
        /\ Immediate(class, instr) \in BitVectors
    BY <1>1, <1>4, DecodedTypes DEF Decode
  <2>2. Fetched'
    BY <1>1, <1>4 DEF Decode, Fetched, StageNames, ShiftAmount
  <2>3. imm' \in BitVectors /\ rs1' \in BitVectors /\ rs2' \in BitVectors
    BY <1>2, <1>4, <2>1, ZeroType DEF Decode
  <2>4. shamt' \in BitNumbers
    BY <1>4, <2>1 DEF Decode, BitNumbers, Width
  <2>5. AluTypeOK'
    BY <1>1, <1>4, <2>3, <2>4 DEF Decode, AluTypeOK, StageNames
  <2>6. Decoded'
    BY <1>4 DEF Decode, Decoded, Immediate, Shamt
  <2> QED BY <2>2, <2>5, <2>6 DEF AluInv
<1>5. CASE Execute
  <2>1. /\ rs1 \in BitVectors /\ rs2 \in BitVectors /\ imm \in BitVectors
        /\ rd \in BitVectors /\ addr \in BitVectors /\ shamt \in 0 .. 31
    BY <1>1 DEF AluTypeOK, BitNumbers, Width
  <2>2. ShiftOutcomes(rs2) \subseteq 0 .. 32
    BY <2>1, FiveBitNumber DEF ShiftOutcomes, Width
  <2>3. PICK n \in 0 .. 32 : rd' = ExecutedRd(class, rs1, rs2, imm, n)
    BY <1>5, <2>1, <2>2 DEF Execute
  <2>4. rd' \in BitVectors
    BY <2>1, <2>3, ExecutedType
  <2>5. addr' \in BitVectors
    BY <1>5, <2>1, SumTypes, OperatorTypes, FromIntType DEF Execute
  <2>6. branch' \in BOOLEAN
    <3>1. SignedLess(rs1, rs2) \in BOOLEAN /\ Less(rs1, rs2) \in BOOLEAN
      BY DEF SignedLess, Less
    <3>2. WillBranch(class, rs1, rs2) \in BOOLEAN
      BY <3>1 DEF WillBranch
    <3> QED BY <1>5, <3>2 DEF Execute
  <2>7. AluTypeOK'
    BY <1>1, <1>5, <2>4, <2>5, <2>6 DEF Execute, AluTypeOK, StageNames
  <2>8. Fetched'
    BY <1>1, <1>5 DEF Execute, Fetched, StageNames, ShiftAmount
  <2>9. Decoded'
    BY <1>1, <1>5 DEF Execute, Decoded
  <2> QED BY <2>7, <2>8, <2>9 DEF AluInv
<1>6. CASE MemoryAccess
  <2> DEFINE bytes == AccessBytes(class)
  <2>1. bytes \in 0 .. 4 /\ 8 * bytes \in 0 .. 32
    BY DEF AccessBytes
  <2>2. /\ rs2 \in BitVectors /\ rd \in BitVectors
        /\ stored \in [bytes : 0 .. 4, data : BitVectors]
    BY <1>1 DEF AluTypeOK
  <2>3. /\ rd' = IF class \in Loading THEN Slice(case.cell, 0, 8 * bytes, 0) ELSE rd
        /\ stored' = IF class \in Storing
                     THEN [bytes |-> bytes, data |-> Slice(rs2, 0, 8 * bytes, 0)]
                     ELSE stored
    BY <1>6 DEF MemoryAccess
  <2> HIDE DEF bytes
  <2>4. /\ Slice(case.cell, 0, 8 * bytes, 0) \in BitVectors
        /\ Slice(rs2, 0, 8 * bytes, 0) \in BitVectors
    <3>1. 0 \in {0, 1}
      OBVIOUS
    <3> QED BY <1>2, <2>1, <2>2, <3>1, ShiftTypes
  <2>5. rd' \in BitVectors /\ stored' \in [bytes : 0 .. 4, data : BitVectors]
    BY <2>1, <2>2, <2>3, <2>4
  <2>6. AluTypeOK'
    BY <1>1, <1>6, <2>5 DEF MemoryAccess, AluTypeOK, StageNames
  <2>7. Fetched'
    BY <1>1, <1>6 DEF MemoryAccess, Fetched, StageNames, ShiftAmount
  <2>8. Decoded'
    BY <1>1, <1>6 DEF MemoryAccess, Decoded
  <2> QED BY <2>6, <2>7, <2>8 DEF AluInv
<1>7. CASE UNCHANGED aluVars
  BY <1>1, <1>7 DEF aluVars, AluInv, AluTypeOK, Fetched, Decoded
<1> QED BY <1>3, <1>4, <1>5, <1>6, <1>7 DEF AluNext

LEMMA AluInvariant == AluSpec => []AluInv
<1>1. AluInit => AluInv
  BY InitAlu
<1>2. AluInv /\ [AluNext]_aluVars => AluInv'
  BY NextAlu
<1> QED BY <1>1, <1>2, PTL DEF AluSpec

(* Registers, immediate, result, address and stored data are 32-bit words, *)
(* and shift amounts below 32, whatever is decoded and executed.           *)
THEOREM WordsStayWords == AluSpec => []AluTypeOK
<1>1. AluInv => AluTypeOK
  BY DEF AluInv
<1> QED BY <1>1, AluInvariant, PTL

(* Decode takes every immediate that its format can hold out of the word,  *)
(* wherever the format scatters its bits, with its sign.                   *)
THEOREM ImmediatesDecoded == AluSpec => []DecodesImmediate
<1>1. AluInv => DecodesImmediate
  BY DecodedTypes DEF AluInv, Fetched, Decoded, DecodesImmediate
<1> QED BY <1>1, AluInvariant, PTL

(* The factory creates the class of every instruction but sra, whatever its*)
(* immediate.                                                              *)
THEOREM InstructionsNamed ==
  ASSUME \A c \in Cases : c.op # "sra"
  PROVE  AluSpec => []CreatesNamed
<1>1. AluInv => CreatesNamed
  BY DEF AluInv, Fetched, CreatesNamed
<1> QED BY <1>1, AluInvariant, PTL
-----------------------------------------------------------------------------
(* What Execute computes is what the manual defines.                       *)
LEMMA ExecutedAsDefined ==
  ASSUME NEW op \in Instructions \ (Deviating \cup Loading), WritesRd(op),
         NEW a \in BitVectors, NEW b \in BitVectors, NEW m \in BitVectors,
         NEW cell, NEW k, NEW n,
         op \in ImmediateShifts => k \in 0 .. 31 /\ n = k,
         op \in {"sll", "srl"} => n = Num(b, 0, 5)
  PROVE  ExecutedRd(op, a, b, m, n) = Result(op, a, b, m, k, Address, cell)
<1>1. op \in {"lui", "addi", "slti", "sltiu", "xori", "ori", "andi",
              "slli", "srli", "srai", "add", "sub", "sll", "slt", "sltu", "xor",
              "srl", "or", "and"}
  BY InstructionNames DEF Deviating, Loading, WritesRd, Format, Encoding, Code
<1>2. CASE op \in {"lui", "addi", "slti", "sltiu", "xori", "ori", "andi"}
  BY <1>2 DEF ExecutedRd, Result, Below
<1>3. CASE op \in {"slli", "srli"}
  BY <1>3 DEF ExecutedRd, Result, ImmediateShifts
<1>4. CASE op = "srai"
  BY <1>4, MaskedShift DEF ExecutedRd, Result, ImmediateShifts
<1>5. CASE op \in {"sll", "srl"}
  BY <1>5 DEF ExecutedRd, Result
<1>6. CASE op \in {"add", "sub", "slt", "sltu", "xor", "or", "and"}
  BY <1>6 DEF ExecutedRd, Result
<1> QED BY <1>1, <1>2, <1>3, <1>4, <1>5, <1>6

(* What a load gets is what the manual defines.                            *)
LEMMA LoadedAsDefined ==
  ASSUME NEW op \in Loading \ Deviating, NEW cell \in BitVectors,
         NEW a, NEW b, NEW m, NEW k
  PROVE  Slice(cell, 0, 8 * AccessBytes(op), 0) = Result(op, a, b, m, k, Address, cell)
<1>1. CASE op = "lw"
  <2>1. 8 * AccessBytes(op) = 32
    BY <1>1 DEF AccessBytes
  <2> QED BY <1>1, <2>1, WholeWord DEF Result
<1>2. CASE op = "lbu"
  <2>1. 8 * AccessBytes(op) = 8
    BY <1>2 DEF AccessBytes
  <2> QED BY <1>2, <2>1 DEF Result
<1>3. CASE op = "lhu"
  <2>1. 8 * AccessBytes(op) = 16
    BY <1>3 DEF AccessBytes
  <2> QED BY <1>3, <2>1 DEF Result
<1> QED BY <1>1, <1>2, <1>3 DEF Loading, Deviating

(* What the manual says of rd, the branch and the address after Execute.   *)
RdDue(r) ==
  (WritesRd(case.op) /\ case.op \notin Loading \cup Deviating) =>
    r = Result(case.op, case.v1, case.v2, FromInt(case.imm), case.imm, Address, case.cell)

EffectsDue(b, e) ==
  /\ b = Taken(case.op, case.v1, case.v2)
  /\ case.op \in Loading \cup Storing \cup {"jalr"} =>
       e = EffectiveAddress(case.op, case.v1, FromInt(case.imm))

(* The inductive invariant: each stage has done what the manual says.      *)
ExecInv ==
  /\ AluInv
  /\ stage # "accessed" => stored = [bytes |-> 0, data |-> Zero]
  /\ (stage = "executed" /\ Defined) => RdDue(rd) /\ EffectsDue(branch, addr)
  /\ ConformsElsewhere

(* What Decode leaves behind, for the instruction that is meant.           *)
LEMMA OperandsRead ==
  ASSUME AluInv, stage \in {"decoded", "executed"}
  PROVE  /\ case.op \in Instructions /\ case.imm \in Int
         /\ case.v1 \in BitVectors /\ case.v2 \in BitVectors /\ case.cell \in BitVectors
         /\ FromInt(case.imm) \in BitVectors
         /\ rs1 \in BitVectors /\ rs2 \in BitVectors /\ imm \in BitVectors
         /\ class = IF case.op = "sra" THEN "srl" ELSE case.op
         /\ Format(case.op) # "R" => imm = FromInt(case.imm)
         /\ Format(case.op) \in {"I", "S", "B", "R"} => rs1 = case.v1
         /\ Format(case.op) \in {"S", "B", "R"} => rs2 = case.v2
         /\ case.op \in ImmediateShifts => shamt = case.imm /\ case.imm \in 0 .. 31
<1>1. AluTypeOK /\ Fetched /\ Decoded
  BY DEF AluInv
<1>2. class = IF case.op = "sra" THEN "srl" ELSE case.op
  BY <1>1 DEF Fetched
<1>3. /\ case.op \in Instructions /\ case.imm \in Int /\ FromInt(case.imm) \in BitVectors
      /\ case.v1 \in BitVectors /\ case.v2 \in BitVectors /\ case.cell \in BitVectors
  BY <1>1, InputTypes, FromIntType, CasesAssumption DEF Fetched
<1>4. rs1 \in BitVectors /\ rs2 \in BitVectors /\ imm \in BitVectors
  BY <1>1 DEF AluTypeOK
<1>5. /\ Format(class) = Format(case.op)
      /\ class \in ImmediateShifts => Shamt(instr) = case.imm /\ Shamt(instr) \in 0 .. 31
      /\ Format(class) # "R" => Immediate(class, instr) = FromInt(case.imm)
  BY <1>1, DecodedTypes
<1>6. case.op \in ImmediateShifts => class \in ImmediateShifts
  BY <1>2 DEF ImmediateShifts
<1> QED BY <1>1, <1>2, <1>3, <1>4, <1>5, <1>6 DEF Decoded

(* Execute leaves the manual's result in rd.                               *)
LEMMA ExecuteRd ==
  ASSUME AluInv, Execute, Defined, WritesRd(case.op), case.op \notin Loading \cup Deviating
  PROVE  rd' = Result(case.op, case.v1, case.v2, FromInt(case.imm), case.imm, Address,
                      case.cell)
<1> DEFINE op == case.op
           a == case.v1
           b == case.v2
           m == FromInt(case.imm)
<1>1. stage = "decoded" /\ class = op /\ op \in Instructions /\ op \notin Deviating
  BY OperandsRead DEF Execute, Deviating
<1>2. /\ a \in BitVectors /\ b \in BitVectors /\ m \in BitVectors
      /\ rs1 \in BitVectors /\ rs2 \in BitVectors /\ imm \in BitVectors
      /\ Format(op) # "R" => imm = m
      /\ Format(op) \in {"I", "S", "B", "R"} => rs1 = a
      /\ Format(op) \in {"S", "B", "R"} => rs2 = b
      /\ op \in ImmediateShifts => shamt = case.imm /\ case.imm \in 0 .. 31
  BY <1>1, OperandsRead
<1>3. PICK n \in IF class \in {"sll", "srl"} THEN ShiftOutcomes(rs2) ELSE {shamt} :
        rd' = ExecutedRd(class, rs1, rs2, imm, n)
  BY DEF Execute
<1>4. op \in ImmediateShifts => n = case.imm
  BY <1>1, <1>2, <1>3 DEF ImmediateShifts
<1>5. op \in {"sll", "srl"} => n = Num(rs2, 0, 5)
  <2>1. op \in {"sll", "srl"} => \A i \in 5 .. Width - 1 : rs2[i] = 0
    BY <1>2 DEF Defined, Format, Encoding, Code
  <2> QED BY <1>1, <1>3, <2>1 DEF ShiftOutcomes
<1>6. rd' = Result(op, rs1, rs2, imm, case.imm, Address, case.cell)
  BY <1>1, <1>2, <1>3, <1>4, <1>5, ExecutedAsDefined
<1>7. CASE Format(op) = "R"
  <2>1. rs1 = a /\ rs2 = b
    BY <1>2, <1>7
  <2>2. Result(op, a, b, imm, case.imm, Address, case.cell)
          = Result(op, a, b, m, case.imm, Address, case.cell)
    BY <1>1, <1>7, InstructionNames DEF Result, Format, Encoding, Code
  <2> QED BY <1>6, <2>1, <2>2
<1>8. CASE Format(op) = "I"
  <2>1. rs1 = a /\ imm = m
    BY <1>2, <1>8
  <2>2. Result(op, a, rs2, m, case.imm, Address, case.cell)
          = Result(op, a, b, m, case.imm, Address, case.cell)
    BY <1>1, <1>8, InstructionNames DEF Result, Format, Encoding, Code
  <2> QED BY <1>6, <2>1, <2>2
<1>9. CASE Format(op) \in {"U", "J"}
  <2>1. imm = m
    BY <1>2, <1>9
  <2>2. Result(op, rs1, rs2, m, case.imm, Address, case.cell)
          = Result(op, a, b, m, case.imm, Address, case.cell)
    BY <1>1, <1>9, InstructionNames DEF Result, Format, Encoding, Code, Deviating
  <2> QED BY <1>6, <2>1, <2>2
<1> QED BY <1>7, <1>8, <1>9 DEF WritesRd

(* Execute decides the branch and computes the address as the manual says, *)
(* whatever the instruction.                                               *)
LEMMA ExecuteEffects ==
  ASSUME AluInv, Execute
  PROVE  EffectsDue(branch', addr')
<1> DEFINE op == case.op
           a == case.v1
           b == case.v2
           m == FromInt(case.imm)
<1>1. stage = "decoded" /\ class = IF op = "sra" THEN "srl" ELSE op
  BY OperandsRead DEF Execute
<1>2. /\ a \in BitVectors /\ m \in BitVectors
      /\ Format(op) # "R" => imm = m
      /\ Format(op) \in {"I", "S", "B", "R"} => rs1 = a
      /\ Format(op) \in {"S", "B", "R"} => rs2 = b
  BY <1>1, OperandsRead
<1>3. branch' = Taken(op, a, b)
  <2>1. branch' = WillBranch(class, rs1, rs2)
    BY DEF Execute
  <2>2. CASE op \in {"beq", "bne", "blt", "bge", "bltu", "bgeu"}
    <3>1. rs1 = a /\ rs2 = b /\ class = op
      BY <1>1, <1>2, <2>2 DEF Format, Encoding, Code
    <3>2. WillBranch(op, a, b) = Taken(op, a, b)
      BY <2>2 DEF WillBranch, Taken
    <3> QED BY <2>1, <3>1, <3>2
  <2>3. CASE op \notin {"beq", "bne", "blt", "bge", "bltu", "bgeu"}
    BY <1>1, <2>1, <2>3 DEF WillBranch, Taken
  <2> QED BY <2>2, <2>3
<1>4. op \in Loading \cup Storing \cup {"jalr"} => addr' = EffectiveAddress(op, a, m)
  <2> SUFFICES ASSUME op \in Loading \cup Storing \cup {"jalr"}
               PROVE  addr' = EffectiveAddress(op, a, m)
    OBVIOUS
  <2>1. rs1 = a /\ imm = m /\ class = op
    BY <1>1, <1>2 DEF Loading, Storing, Format, Encoding, Code
  <2>2. CASE op \in Loading \cup Storing
    BY <2>1, <2>2 DEF Execute, EffectiveAddress, Loading, Storing
  <2>3. CASE op = "jalr"
    <3>1. Plus(a, m) \in BitVectors
      BY <1>2, SumTypes
    <3>2. addr' = And(Plus(a, m), FromInt(-2))
      BY <2>1, <2>3 DEF Execute, Loading, Storing
    <3> QED BY <2>3, <3>1, <3>2, EvenTarget DEF EffectiveAddress
  <2> QED BY <2>2, <2>3
<1> QED BY <1>3, <1>4 DEF EffectsDue

(* MemoryAccess loads and stores what the manual says.                     *)
LEMMA MemoryAccessConforms ==
  ASSUME ExecInv, MemoryAccess
  PROVE  ConformsElsewhere'
<1> DEFINE op == case.op
           m == FromInt(case.imm)
<1>1. /\ AluInv /\ stage = "executed" /\ stored = [bytes |-> 0, data |-> Zero]
      /\ Defined => RdDue(rd) /\ EffectsDue(branch, addr)
      /\ case' = case /\ branch' = branch /\ addr' = addr
  BY DEF ExecInv, MemoryAccess
<1>2. /\ class = IF op = "sra" THEN "srl" ELSE op
      /\ case.cell \in BitVectors
      /\ Format(op) = "S" => rs2 = case.v2
  BY <1>1, OperandsRead
<1>3. Format(op) = "S" <=> op \in Storing
  BY <1>1, OperandsRead, InstructionNames DEF Storing, Format, Encoding, Code
<1>4. op \in Loading <=> class \in Loading
  BY <1>2 DEF Loading
<1>5. op \in Storing <=> class \in Storing
  BY <1>2 DEF Storing
<1>6. ASSUME Defined, WritesRd(op), op \notin Deviating
      PROVE  rd' = Result(op, case.v1, case.v2, m, case.imm, Address, case.cell)
  <2>1. CASE op \in Loading
    <3>1. class = op
      BY <1>2, <2>1 DEF Loading
    <3>2. rd' = Slice(case.cell, 0, 8 * AccessBytes(op), 0)
      BY <2>1, <3>1 DEF MemoryAccess
    <3> QED BY <1>2, <1>6, <2>1, <3>2, LoadedAsDefined
  <2>2. CASE op \notin Loading
    <3>1. rd' = rd
      BY <1>4, <2>2 DEF MemoryAccess
    <3> QED BY <1>1, <1>6, <2>2, <3>1 DEF RdDue
  <2> QED BY <2>1, <2>2
<1>7. /\ stored'.bytes = StoredBytes(op)
      /\ op \in Storing => stored'.data = Slice(case.v2, 0, 8 * StoredBytes(op), 0)
  <2>1. CASE op \in Storing
    <3>1. rs2 = case.v2 /\ class = op
      BY <1>2, <1>3, <2>1 DEF Storing
    <3>2. AccessBytes(op) = StoredBytes(op)
      BY <2>1 DEF Storing, AccessBytes, StoredBytes
    <3>3. stored' = [bytes |-> AccessBytes(op),
                     data |-> Slice(rs2, 0, 8 * AccessBytes(op), 0)]
      BY <2>1, <3>1 DEF MemoryAccess
    <3> QED BY <2>1, <3>1, <3>2, <3>3
  <2>2. CASE op \notin Storing
    <3>1. stored' = stored
      BY <1>5, <2>2 DEF MemoryAccess
    <3> QED BY <1>1, <2>2, <3>1 DEF Storing, StoredBytes
  <2> QED BY <2>1, <2>2
<1>8. Defined' <=> Defined
  BY <1>1 DEF Defined
<1>9. Defined => EffectsAsDefined'
  BY <1>1, <1>7 DEF EffectsDue, EffectsAsDefined
<1>10. ASSUME Defined, op \notin Deviating
       PROVE  RdAsDefined'
  BY <1>1, <1>6, <1>10 DEF RdAsDefined
<1> QED BY <1>1, <1>8, <1>9, <1>10 DEF ConformsElsewhere

(* Every stage keeps what was computed.                                    *)
LEMMA NextExec == ExecInv /\ [AluNext]_aluVars => ExecInv'
<1> SUFFICES ASSUME ExecInv, [AluNext]_aluVars PROVE ExecInv'
  OBVIOUS
<1>1. AluInv'
  BY NextAlu DEF ExecInv
<1>2. CASE Create
  BY <1>1, <1>2 DEF Create, ExecInv, ConformsElsewhere
<1>3. CASE Decode
  BY <1>1, <1>3 DEF Decode, ExecInv, ConformsElsewhere
<1>4. CASE Execute
  <2>1. Defined' <=> Defined
    BY <1>4 DEF Execute, Defined
  <2>2. Defined => RdDue(rd')
    BY <1>4, ExecuteRd DEF ExecInv, RdDue
  <2>3. EffectsDue(branch', addr')
    BY <1>4, ExecuteEffects DEF ExecInv
  <2>4. Defined' => RdDue(rd)' /\ EffectsDue(branch, addr)'
    BY <1>4, <2>1, <2>2, <2>3 DEF Execute, RdDue, EffectsDue
  <2>5. stage' = "executed" /\ stored' = [bytes |-> 0, data |-> Zero]
    BY <1>4 DEF Execute, ExecInv
  <2> QED BY <1>1, <2>4, <2>5 DEF ExecInv, ConformsElsewhere
<1>5. CASE MemoryAccess
  <2>1. ConformsElsewhere'
    BY <1>5, MemoryAccessConforms
  <2> QED BY <1>1, <1>5, <2>1 DEF MemoryAccess, ExecInv
<1>6. CASE UNCHANGED aluVars
  BY <1>1, <1>6 DEF aluVars, ExecInv, Defined, RdDue, EffectsDue, ConformsElsewhere,
                    RdAsDefined, EffectsAsDefined
<1> QED BY <1>2, <1>3, <1>4, <1>5, <1>6 DEF AluNext

(* Every instruction branches, loads, stores and addresses as the manual   *)
(* says, and all but six leave in rd what it says, for every operand and   *)
(* every immediate; only a shift by a register of more than 31 is left out.*)
THEOREM ExecutesTheManual == AluSpec => []ConformsElsewhere
<1>1. AluInit => ExecInv
  BY InitAlu DEF AluInit, ExecInv, ConformsElsewhere
<1>2. ExecInv /\ [AluNext]_aluVars => ExecInv'
  BY NextExec
<1>3. ExecInv => ConformsElsewhere
  BY DEF ExecInv
<1> QED BY <1>1, <1>2, <1>3, PTL DEF AluSpec
=============================================================================
