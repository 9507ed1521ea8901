-------------------------------- MODULE Alu --------------------------------
(***************************************************************************)
(* One instruction on its way from the 32-bit word to its result, as the   *)
(* factory and the instruction classes do it: Create picks the class,      *)
(* Decode takes the registers and the immediate out of the word, Execute   *)
(* computes, MemoryAccess reads or writes the data memory.  Words have     *)
(* their full width here; what the pipeline does between the stages is in  *)
(* Pipeline, which takes the results for granted.                          *)
(*                                                                         *)
(* case is the input: the instruction meant, its immediate or shift amount *)
(* and the words that its source registers and its memory cell hold.       *)
(***************************************************************************)
EXTENDS RiscV

Inputs ==
  {c \in [op : Instructions, imm : Int, v1 : BitVectors, v2 : BitVectors,
          cell : BitVectors] : Fits(c.op, c.imm)}

CONSTANT Cases   \* the inputs
ASSUME CasesAssumption == Cases \subseteq Inputs

VARIABLES
  case,     \* the input
  instr,    \* instr_: the word the factory gets
  class,    \* the class of the object it creates
  stage,    \* the stages that are over
  rs1,      \* Rs1_->Data()
  rs2,      \* Rs2_->Data()
  shamt,    \* Rs2_->Number()
  imm,      \* imm_
  rd,       \* Rd_->Data()
  addr,     \* load_addr_, store_address_ or target_addr_
  branch,   \* branch_
  stored    \* the bytes that went to the data memory

aluVars == <<case, instr, class, stage, rs1, rs2, shamt, imm, rd, addr, branch, stored>>

StageNames == {"fetched", "created", "decoded", "executed", "accessed"}

AluTypeOK ==
  /\ case \in Inputs
  /\ instr \in BitVectors
  /\ class \in Instructions \cup {"none", "nop", "null"}
  /\ stage \in StageNames
  /\ {rs1, rs2, imm, rd, addr} \subseteq BitVectors
  /\ shamt \in BitNumbers
  /\ branch \in BOOLEAN
  /\ stored \in [bytes : 0 .. 4, data : BitVectors]

ShiftAmount(c) == IF c.op \in ImmediateShifts THEN c.imm ELSE 3

AluInit ==
  /\ case \in Cases
  /\ instr = Assembled(case.op, 1, 2, ShiftAmount(case), case.imm)
  /\ class = "none"
  /\ stage = "fetched"
  /\ rs1 = Zero /\ rs2 = Zero /\ imm = Zero /\ rd = Zero /\ addr = Zero
  /\ shamt = 0
  /\ branch = FALSE
  /\ stored = [bytes |-> 0, data |-> Zero]

(* The instruction's address, and the program counter that Execute reads.  *)
Address == FromInt(64)
SeenPc == FromInt(64 + 12)
-----------------------------------------------------------------------------
(* OpCode, Funct3 and Funct7.                                              *)
OpCode == [LUI |-> 55, AUIPC |-> 23, JAL |-> 111, JALR |-> 103, Bxx |-> 99,
           Lx |-> 3, Sx |-> 35, ITypeArithmeticAndLogical |-> 19,
           RTypeArithmeticAndLogical |-> 51]

(* The classes for funct3 = 0, 1, ..., 7; "null" where the factory returns *)
(* nullptr.                                                                *)
Loads == <<"lb", "lh", "lw", "null", "lbu", "lhu", "null", "null">>
Branches == <<"beq", "bne", "null", "null", "blt", "bge", "bltu", "bgeu">>
Stores == <<"sb", "sh", "sw", "null", "null", "null", "null", "null">>
ITypes == <<"addi", "slli", "slti", "sltiu", "xori", "srli", "ori", "andi">>
RTypes == <<"add", "sll", "slt", "sltu", "xor", "srl", "or", "and">>

(* Fault: the other half of two pairs that share a funct3 is forgotten.    *)
SameFunct3(picked, funct7) == picked

(* funct7 tells SUB from ADD and SRAI from SRLI, and nothing else.         *)
ByFunct7(picked, funct7) ==
  CASE picked = "add" /\ funct7 # 0  -> "sub"
    [] picked = "srli" /\ funct7 # 0 -> "srai"
    [] OTHER                         -> picked

CreatedClass(w) ==
  LET op     == Num(w, 0, 7)
      funct3 == Num(w, 12, 3) + 1
      funct7 == Num(w, 25, 7)
  IN  CASE op = OpCode.LUI   -> "lui"
        [] op = OpCode.AUIPC -> "auipc"
        [] op = OpCode.JAL   -> "jal"
        [] op = OpCode.JALR  -> "jalr"
        [] op = OpCode.Lx    -> Loads[funct3]
        [] op = OpCode.Bxx   -> Branches[funct3]
        [] op = OpCode.Sx    -> Stores[funct3]
        [] op = OpCode.ITypeArithmeticAndLogical -> ByFunct7(ITypes[funct3], funct7)
        [] op = OpCode.RTypeArithmeticAndLogical -> ByFunct7(RTypes[funct3], funct7)
        [] OTHER -> "nop"

Create ==
  /\ stage = "fetched"
  /\ class' = CreatedClass(instr)
  /\ stage' = "created"
  /\ UNCHANGED <<case, instr, rs1, rs2, shamt, imm, rd, addr, branch, stored>>
-----------------------------------------------------------------------------
(* The immediates: a mask for the sign, and the fields of the word.        *)
IImmediate(w) == Or(Upper(w[31], 12), Slice(w, 20, 12, 0))

SImmediate(w) == Or(Upper(w[31], 12), Or(Slice(w, 25, 7, 5), Slice(w, 7, 5, 0)))

(* Fault: the mask of the other formats, without the bits it leaves out.   *)
BImmediateUnsigned(w) ==
  Or(Or(Slice(w, 31, 1, 12), Slice(w, 7, 1, 11)),
     Or(Slice(w, 25, 6, 5), Slice(w, 8, 4, 1)))

BImmediate(w) ==
  Or(Upper(w[31], 13),
     Or(Or(Slice(w, 31, 1, 12), Slice(w, 7, 1, 11)),
        Or(Slice(w, 25, 6, 5), Slice(w, 8, 4, 1))))

JImmediate(w) ==
  Or(Upper(w[31], 20),
     Or(Or(Slice(w, 31, 1, 20), Slice(w, 12, 8, 12)),
        Or(Slice(w, 20, 1, 11), Slice(w, 21, 10, 1))))

UImmediate(w) == Slice(w, 12, 20, 0)

Immediate(c, w) ==
  CASE Format(c) = "I" -> IImmediate(w)
    [] Format(c) = "S" -> SImmediate(w)
    [] Format(c) = "B" -> BImmediate(w)
    [] Format(c) = "J" -> JImmediate(w)
    [] Format(c) = "U" -> UImmediate(w)
    [] Format(c) = "R" -> Zero

(* Fault: the whole field above rs1 is taken for the shift amount.         *)
WideShamt(w) == Num(w, 20, 12)

Shamt(w) == Num(w, 20, 5)

(* The register file holds the case's words in the registers it names.     *)
Decode ==
  /\ stage = "created" /\ class \in Instructions
  /\ imm' = Immediate(class, instr)
  /\ rs1' = IF Format(class) \in {"I", "S", "B", "R"} THEN case.v1 ELSE Zero
  /\ rs2' = IF Format(class) \in {"S", "B", "R"} THEN case.v2 ELSE Zero
  /\ shamt' = IF class \in ImmediateShifts THEN Shamt(instr) ELSE 0
  /\ stage' = "decoded"
  /\ UNCHANGED <<case, instr, class, rd, addr, branch, stored>>
-----------------------------------------------------------------------------
(* SraiInstruction puts the sign's ones behind the logical shift.          *)
ShiftedWithMask(a, n) ==
  LET ones == And(Upper(Sign(a), 0), Complement(Upper(1, n)))
  IN  Or(ShiftRight(a, n), ShiftLeft(ones, Width - n))

(* A shift by 32 or more is undefined; what the processors the simulator is*)
(* built for make of it is a shift by the low bits, or 0.                  *)
ShiftOutcomes(b) ==
  IF \A i \in 5 .. Width - 1 : b[i] = 0 THEN {Num(b, 0, 5)}
  ELSE {Num(b, 0, 5), Width}

(* Fault: the immediate is compared as an unsigned number.                 *)
BelowUnsigned(a, m) == Less(a, m)

(* static_cast<signed_reg_data_t>(Rs1_->Data()) < imm_                     *)
Below(a, m) == SignedLess(a, m)

(* What Execute leaves in rd for the classes that set it; n is the shift   *)
(* amount.  auipc computes a sum that the base class overwrites.           *)
ExecutedRd(c, a, b, m, n) ==
  CASE c \in {"lui", "auipc"} -> ShiftLeft(m, 12)
    [] c \in {"jal", "jalr"}  -> Plus(SeenPc, FromInt(8))
    [] c = "addi"  -> Plus(a, m)
    [] c = "slti"  -> Bool(Below(a, m))
    [] c = "sltiu" -> Bool(Less(a, m))
    [] c = "xori"  -> Xor(a, m)
    [] c = "ori"   -> Or(a, m)
    [] c = "andi"  -> And(a, m)
    [] c \in {"slli", "sll"}  -> ShiftLeft(a, n)
    [] c \in {"srli", "srl"}  -> ShiftRight(a, n)
    [] c = "srai"  -> ShiftedWithMask(a, n)
    [] c = "add"   -> Plus(a, b)
    [] c = "sub"   -> Minus(a, b)
    [] c = "slt"   -> Bool(SignedLess(a, b))
    [] c = "sltu"  -> Bool(Less(a, b))
    [] c = "xor"   -> Xor(a, b)
    [] c = "or"    -> Or(a, b)
    [] c = "and"   -> And(a, b)
    [] OTHER       -> rd

WillBranch(c, a, b) ==
  CASE c = "beq"  -> a = b
    [] c = "bne"  -> a # b
    [] c = "blt"  -> SignedLess(a, b)
    [] c = "bge"  -> ~SignedLess(a, b)
    [] c = "bltu" -> Less(a, b)
    [] c = "bgeu" -> ~Less(a, b)
    [] OTHER      -> FALSE

Loading == {"lb", "lh", "lw", "lbu", "lhu"}
Storing == {"sb", "sh", "sw"}

Execute ==
  /\ stage = "decoded"
  /\ \E n \in IF class \in {"sll", "srl"} THEN ShiftOutcomes(rs2) ELSE {shamt} :
       rd' = ExecutedRd(class, rs1, rs2, imm, n)
  /\ addr' = IF class \in Loading \cup Storing THEN Plus(rs1, imm)
             ELSE IF class = "jalr" THEN And(Plus(rs1, imm), FromInt(-2))
             ELSE addr
  /\ branch' = WillBranch(class, rs1, rs2)
  /\ stage' = "executed"
  /\ UNCHANGED <<case, instr, class, rs1, rs2, shamt, imm, stored>>

(* The bytes of the access; an unsigned byte or halfword that is converted *)
(* to a signed word stays what it is.                                      *)
AccessBytes(c) ==
  CASE c \in {"lb", "lbu", "sb"} -> 1
    [] c \in {"lh", "lhu", "sh"} -> 2
    [] c \in {"lw", "sw"}        -> 4
    [] OTHER                     -> 0

MemoryAccess ==
  LET bytes == AccessBytes(class)
  IN  /\ stage = "executed"
      /\ rd' = IF class \in Loading THEN Slice(case.cell, 0, 8 * bytes, 0) ELSE rd
      /\ stored' = IF class \in Storing
                   THEN [bytes |-> bytes, data |-> Slice(rs2, 0, 8 * bytes, 0)]
                   ELSE stored
      /\ stage' = "accessed"
      /\ UNCHANGED <<case, instr, class, rs1, rs2, shamt, imm, addr, branch>>

AluNext == Create \/ Decode \/ Execute \/ MemoryAccess

AluSpec == AluInit /\ [][AluNext]_aluVars
-----------------------------------------------------------------------------
(* Every instruction of the base set gets the class that is named after it.*)
CreatesNamed == stage # "fetched" => class = case.op

(* Decode finds the immediate that was assembled, with its sign, wherever  *)
(* the format scatters its bits; U-type immediates are shifted later.      *)
DecodesImmediate ==
  (stage = "decoded" /\ Format(class) # "R") => imm = FromInt(case.imm)

(* Shifts by a register that holds more than 31 are undefined in C++.      *)
Defined == case.op \in {"sll", "srl", "sra"} => \A i \in 5 .. Width - 1 : case.v2[i] = 0

(* What the manual says of rd.                                             *)
RdAsDefined ==
  WritesRd(case.op) =>
    rd = Result(case.op, case.v1, case.v2, FromInt(case.imm), case.imm, Address, case.cell)

(* What the manual says of the branch, the stored bytes and the address.   *)
EffectsAsDefined ==
  /\ branch = Taken(case.op, case.v1, case.v2)
  /\ stored.bytes = StoredBytes(case.op)
  /\ case.op \in Storing =>
       stored.data = Slice(case.v2, 0, 8 * StoredBytes(case.op), 0)
  /\ case.op \in Loading \cup Storing \cup {"jalr"} =>
       addr = EffectiveAddress(case.op, case.v1, FromInt(case.imm))

(* The instruction computes, branches, loads, stores and addresses as the  *)
(* manual says ("A RISC-V CPU simulator", README), unless it shifts by a   *)
(* register that holds more than 31.                                       *)
ExecutesRiscV == (stage = "accessed" /\ Defined) => RdAsDefined /\ EffectsAsDefined

(* The instructions whose rd is not what the manual says: the shift puts   *)
(* zeros in, the sum is lost, no sign is extended, the link is 16 too much.*)
Deviating == {"sra", "auipc", "lb", "lh", "jal", "jalr"}

(* But for the rd of these, every instruction does what the manual says.   *)
ConformsElsewhere ==
  (stage = "accessed" /\ Defined) =>
    /\ case.op \notin Deviating => RdAsDefined
    /\ EffectsAsDefined
=============================================================================
