-------------------------------- MODULE Isa --------------------------------
(***************************************************************************)
(* What the simulated processor promises a program: one instruction at a   *)
(* time, each seeing every effect of the one before it and none of an      *)
(* instruction that was never reached.                                     *)
(*                                                                         *)
(* It keeps the code's own convention for calls: the link register holds   *)
(* the address of the call plus 20 and a jump through a register lands 16  *)
(* bytes before the register's value, because jal and jalr compute the link*)
(* from a program counter that has run ahead and Jump takes the distance   *)
(* back.  A call and its return are consistent with each other.            *)
(***************************************************************************)
EXTENDS Instructions

VARIABLES
  imem,    \* the loaded program
  pc,      \* address of the next instruction to run
  regs,    \* the register file
  dmem     \* the data memory, one word per cell

vars == <<imem, pc, regs, dmem>>

TypeOK ==
  /\ IsProgram(imem)
  /\ pc \in Words
  /\ regs \in [Regs -> Words]
  /\ dmem \in [DataAddrs -> Words]

ZeroRegs == [r \in Regs |-> 0]

Init ==
  /\ IsProgram(imem)
  /\ pc = 0
  /\ regs = ZeroRegs
  /\ dmem = [a \in DataAddrs |-> 0]

(* The address after ins at address a: a branch and jal count from a, jalr *)
(* takes the register and steps back by PipelineOffset.                    *)
Successor(ins, a, v1, v2) ==
  CASE ins.op = "jal" \/ WillBranch(ins, v1, v2) ->
         BranchOffset(Word(a + PipelineOffset), ins.imm)
    [] ins.op = "jalr" -> Jump(Address(ins, v1))
    [] OTHER -> Word(a + InstrBytes)

(* The program can go on at pc: the word there is an instruction, its data *)
(* address is inside the memory and its successor is not negative.         *)
CanStep ==
  /\ pc \in DOMAIN imem
  /\ imem[pc].op # "bad"
  /\ LET ins == imem[pc]
         v1  == regs[ins.rs1]
         v2  == regs[ins.rs2]
     IN  /\ ins.op \in {"lw", "sw"} => Address(ins, v1) \in DataAddrs
         /\ Successor(ins, pc, v1, v2) >= 0

(* The value ins at address a leaves in rd.                                *)
Result(ins, a, v1, v2) ==
  IF ins.op = "lw" THEN dmem[Address(ins, v1)]
  ELSE Computed(ins, v1, v2, Word(a + 3 * InstrBytes))

Step ==
  /\ CanStep
  /\ LET ins == imem[pc]
         v1  == regs[ins.rs1]
         v2  == regs[ins.rs2]
     IN  /\ pc' = Word(Successor(ins, pc, v1, v2))
         /\ regs' = IF WritesToRd(ins)
                    THEN Written(regs, ins.rd, Result(ins, pc, v1, v2))
                    ELSE regs
         /\ dmem' = IF ins.op = "sw"
                    THEN [dmem EXCEPT ![Address(ins, v1)] = v2]
                    ELSE dmem
  /\ UNCHANGED imem

(* The program starts over; the data memory keeps its contents.            *)
Restart ==
  /\ pc' = 0
  /\ regs' = ZeroRegs
  /\ UNCHANGED <<imem, dmem>>

Next == Step \/ Restart

Spec == Init /\ [][Next]_vars
=============================================================================
