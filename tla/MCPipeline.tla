----------------------------- MODULE MCPipeline -----------------------------
(***************************************************************************)
(* Programs for the model checker.  Every body is a sequence over a small  *)
(* alphabet; a prologue puts different values in the registers and in the  *)
(* memory, and a run of nops behind the body lets the last instruction     *)
(* leave the pipeline before the fetch runs off the instruction memory.    *)
(***************************************************************************)
EXTENDS Pipeline

Padding == [i \in 1 .. 6 |-> Nop]

I(op, rd, rs1, rs2, imm) ==
  [op |-> op, rd |-> rd, rs1 |-> rs1, rs2 |-> rs2, imm |-> imm]

(* The instruction memory that holds the sequence s from address 0 on.     *)
Image(s) ==
  [a \in {InstrBytes * (i - 1) : i \in 1 .. Len(s)} |-> s[a \div InstrBytes + 1]]

Programs(prologue, alphabet, len) ==
  {Image(prologue \o body \o Padding) : body \in [1 .. len -> alphabet]}

(* Data hazards: loads, stores and arithmetic over two registers and one   *)
(* memory cell.                                                            *)
DataPrologue == <<I("addi", 1, 0, 0, 4), I("addi", 2, 1, 0, 8), I("sw", 0, 0, 2, 8)>>

DataBody == {I("lw", 1, 0, 0, 8), I("lw", 2, 1, 0, 4), I("sw", 0, 1, 2, 4),
             I("add", 1, 1, 2, 0), I("add", 2, 1, 1, 0), I("addi", 1, 1, 0, 4),
             I("slli", 2, 1, 1, 0), I("lui", 0, 0, 0, 4)}

(* Control flow: branches both ways, calls and returns through register 1, *)
(* and, behind them, the instructions that would kill the process if they  *)
(* were reached: a load outside the memory and an undecodable word.        *)
ControlPrologue == <<I("addi", 2, 0, 0, 4)>>

ControlBody == {I("jal", 1, 0, 0, 8), I("jalr", 0, 1, 0, 0), I("beq", 0, 0, 2, 8),
                I("bne", 0, 0, 2, 8), I("bne", 0, 0, 2, -4), I("lw", 2, 0, 0, 8),
                I("lw", 1, 0, 0, 32), I("bad", 0, 0, 0, 0)}

(* Loops that store, load and use what they loaded.                        *)
LoopPrologue == <<I("addi", 1, 0, 0, 4)>>

LoopBody == {I("sw", 0, 0, 1, 4), I("lw", 1, 0, 0, 4), I("addi", 1, 1, 0, 8),
             I("beq", 0, 1, 2, 8), I("jal", 0, 0, 0, -8)}

DataPrograms(len) == Programs(DataPrologue, DataBody, len)

AllPrograms == DataPrograms(4) \cup Programs(ControlPrologue, ControlBody, 4)
                  \cup Programs(LoopPrologue, LoopBody, 3)

SingleUsePrograms == {m \in AllPrograms : SingleUse(m)}

(* Programs that SingleUse leaves out.                                     *)
DoubleUsePrograms == {m \in DataPrograms(3) : ~SingleUse(m)}
=============================================================================
