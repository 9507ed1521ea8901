----------------------------- MODULE MCSystem -----------------------------
(***************************************************************************)
(* Programs that use more blocks of data than the data cache has lines, and*)
(* more blocks of instructions than the instruction cache has.             *)
(***************************************************************************)
EXTENDS System

I(op, rd, rs1, rs2, imm) ==
  [op |-> op, rd |-> rd, rs1 |-> rs1, rs2 |-> rs2, imm |-> imm]

Image(s) ==
  [a \in {InstrBytes * (i - 1) : i \in 1 .. Len(s)} |-> s[a \div InstrBytes + 1]]

(* Values whose four bytes differ, stored in two blocks.                   *)
Prologue == <<I("addi", 1, 0, 0, 27), I("addi", 2, 1, 0, 45), I("sw", 0, 0, 1, 0),
              I("sw", 0, 0, 2, 4)>>

Body == {I("lw", 1, 0, 0, 0), I("lw", 2, 0, 0, 8), I("sw", 0, 0, 2, 0),
         I("sw", 0, 0, 1, 8), I("add", 1, 1, 2, 0), I("bne", 0, 0, 1, 8),
         I("lw", 2, 0, 0, 16)}

Padding == [i \in 1 .. 5 |-> Nop]

BodyLen == 3

SystemImages == {Image(Prologue \o b \o Padding) : b \in [1 .. BodyLen -> Body]}
=============================================================================
