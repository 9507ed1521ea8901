---------------------------- MODULE Instructions ----------------------------
(***************************************************************************)
(* The instruction set of the simulator, as far as the pipeline and the    *)
(* hazard units can tell instructions apart: which registers an instruction*)
(* names, what it computes, and where it sends the program counter.        *)
(*                                                                         *)
(* One opcode stands for each shape the code treats differently: "add" for *)
(* the R-type arithmetic, "slli" for the shifts that keep an immediate in  *)
(* the rs2 field, "addi" for the I-type arithmetic, "lui" for the U-type,  *)
(* "beq" and "bne" for the branches, "lw" and "sw" for the memory accesses.*)
(* "nop" is every word the factory does not recognise, "bad" every word for*)
(* which it returns nullptr.                                               *)
(***************************************************************************)
EXTENDS Integers

CONSTANTS
  NumRegs,    \* registers of the register file (32 in the code)
  WordMod,    \* registers and addresses are unsigned integers modulo WordMod
  DataSize    \* bytes of data memory; addresses at or past it abort

ASSUME NumRegsAssumption == NumRegs \in Nat \ {0}
(* A word holds PipelineOffset as a positive signed number (2^32 does).    *)
ASSUME WordModAssumption == /\ WordMod \in Nat \ {0}
                            /\ WordMod % 8 = 0 /\ WordMod >= 32
ASSUME DataSizeAssumption == DataSize \in Nat /\ DataSize <= WordMod

InstrBytes == 4                    \* sizeof(instr_t)
PipelineOffset == 4 * InstrBytes   \* distance of the pc from the instruction
                                   \* in its memory-access stage
(* Fault: the link counts from the fetch stage.                            *)
LinkOffsetFromFetch == 1 * InstrBytes

LinkOffset == 2 * InstrBytes       \* what jal and jalr add to the pc they see
                                   \* in their execute stage

Regs == 0 .. NumRegs - 1
Words == 0 .. WordMod - 1
DataAddrs == {a \in 0 .. DataSize - 1 : a % InstrBytes = 0}

Ops == {"nop", "bad", "add", "slli", "addi", "lui", "jal", "jalr",
        "beq", "bne", "lw", "sw"}

(* InstructionTypes of every opcode. *)
InstructionType ==
  [op \in Ops |->
    CASE op \in {"nop", "bad"}         -> "NoType"
      [] op \in {"add", "slli"}        -> "RType"
      [] op \in {"addi", "jalr", "lw"} -> "IType"
      [] op = "lui"                    -> "UType"
      [] op = "jal"                    -> "JType"
      [] op \in {"beq", "bne"}         -> "BType"
      [] op = "sw"                     -> "SType"]

(* A decoded instruction.  For "slli" the rs2 field is the shift amount.   *)
Instrs == [op : Ops, rd : Regs, rs1 : Regs, rs2 : Regs, imm : Int]

Nop == [op |-> "nop", rd |-> 0, rs1 |-> 0, rs2 |-> 0, imm |-> 0]

(* A program: instructions at some of the code addresses.                  *)
IsProgram(m) == DOMAIN m \subseteq Words /\ \A a \in DOMAIN m : m[a] \in Instrs

WritesToRd(ins) ==
  InstructionType[ins.op] \in {"IType", "JType", "RType", "UType"}

ReadsFromRs1(ins) ==
  InstructionType[ins.op] \in {"BType", "IType", "RType", "SType"}

ReadsFromRs2(ins) ==
  InstructionType[ins.op] \in {"BType", "RType", "SType"}

Word(x) == x % WordMod

(* static_cast<int> of an unsigned word. *)
Signed(w) == IF 2 * w < WordMod THEN w ELSE w - WordMod

(* Fault: sums wider than a register.                                      *)
ComputedWide(ins, v1, v2, p) ==
  CASE ins.op = "add"             -> v1 + v2
    [] ins.op = "slli"            -> v1 * 2 ^ ins.rs2
    [] ins.op = "addi"            -> Word(v1 + ins.imm)
    [] ins.op = "lui"             -> Word(ins.imm)
    [] ins.op \in {"jal", "jalr"} -> Word(p + LinkOffset)

(* The value of rd after Execute, for the instructions that compute one    *)
(* there; p is the program counter the instruction sees.                   *)
Computed(ins, v1, v2, p) ==
  CASE ins.op = "add"             -> Word(v1 + v2)
    [] ins.op = "slli"            -> Word(v1 * 2 ^ ins.rs2)
    [] ins.op = "addi"            -> Word(v1 + ins.imm)
    [] ins.op = "lui"             -> Word(ins.imm)
    [] ins.op \in {"jal", "jalr"} -> Word(p + LinkOffset)

Computes(ins) == ins.op \in {"add", "slli", "addi", "lui", "jal", "jalr"}

WillBranch(ins, v1, v2) == \/ ins.op = "beq" /\ v1 = v2
                           \/ ins.op = "bne" /\ v1 # v2

(* load_addr_, store_address_ and target_addr_: rs1 + imm, which jalr      *)
(* rounds down to an even address.                                         *)
Address(ins, v1) ==
  LET sum == Word(v1 + ins.imm)
  IN  IF ins.op = "jalr" THEN sum - (sum % 2) ELSE sum

(* ProgramCounter::BranchOffset and ProgramCounter::Jump, which check that *)
(* the signed result is not negative before they store it.                 *)
BranchOffset(p, offset) == Signed(p) + offset - PipelineOffset

Jump(target) == Signed(Word(target - PipelineOffset))

(* RegisterFile::Write: register 0 keeps its value.                        *)
Written(regs, r, data) == IF r = 0 THEN regs ELSE [regs EXCEPT ![r] = data]
=============================================================================
