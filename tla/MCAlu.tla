------------------------------- MODULE MCAlu -------------------------------
(***************************************************************************)
(* Register words at the edges of both readings, signed and unsigned, all  *)
(* twelve-bit immediates once per format and the edges everywhere else.    *)
(***************************************************************************)
EXTENDS Alu

Least == -2147483647 - 1

Edges == {FromInt(n) : n \in {0, 1, 31, 32, 128, 32768, 2147483647, Least, -1, -2}}

Some == {FromInt(n) : n \in {5, Least, -3}}

Mixed == FromInt(-1985229329)

Cell == {Mixed, FromInt(32640), FromInt(127)}

Case(op, m, a, b, c) == [op |-> op, imm |-> m, v1 |-> a, v2 |-> b, cell |-> c]

ShortEdges == {-2048, -1, 0, 1, 1024, 2047}
Amounts == {0, 1, 4, 31}

OfFormat(f) == {op \in Instructions : Format(op) = f}

RegisterCases ==
  {Case(op, 0, a, b, Zero) : op \in OfFormat("R") \ ImmediateShifts, a \in Edges, b \in Edges}
  \cup {Case(op, n, a, Zero, Zero) : op \in ImmediateShifts, n \in Amounts, a \in Edges}

ImmediateCases ==
  {Case(op, m, a, Zero, Zero) : op \in OfFormat("I") \ Loading, m \in ShortEdges, a \in Edges}
  \cup {Case("addi", m, Mixed, Zero, Zero) : m \in -2048 .. 2047}

MemoryCases ==
  {Case(op, m, a, Zero, c) : op \in Loading, m \in {-4, 8}, a \in Some, c \in Cell}
  \cup {Case(op, m, a, b, Zero) : op \in Storing, m \in ShortEdges, a \in Some, b \in Cell}
  \cup {Case("sw", m, Mixed, Mixed, Zero) : m \in -2048 .. 2047}

BranchCases ==
  {Case(op, m, a, b, Zero) : op \in OfFormat("B"), m \in {-4096, 4}, a \in Edges, b \in Edges}
  \cup {Case("bne", 2 * m, Zero, Mixed, Zero) : m \in -2048 .. 2047}

LongCases ==
  {Case(op, m, Zero, Zero, Zero) : op \in OfFormat("U"), m \in {0, 1, 4095, 524288, 1048575}}
  \cup {Case("jal", m, Zero, Zero, Zero) :
          m \in {2 ^ k : k \in 1 .. 19} \cup {-(2 ^ k) : k \in 1 .. 20}
                \cup {0, 1048574, -1048574, 349526}}

AllCases == RegisterCases \cup ImmediateCases \cup MemoryCases \cup BranchCases \cup LongCases

Of(ops) == {c \in AllCases : c.op \in ops}

NamedCases == AllCases \ Of({"sra"})
DeviatingCases == Of(Deviating)
=============================================================================
