----------------------------- MODULE MCConsole -----------------------------
(***************************************************************************)
(* What is typed, and the programs it is typed for.                        *)
(***************************************************************************)
EXTENDS Console, TLC

I(op, rd, rs1, rs2, imm) ==
  [op |-> op, rd |-> rd, rs1 |-> rs1, rs2 |-> rs2, imm |-> imm]

Image(s) ==
  [a \in {InstrBytes * (i - 1) : i \in 1 .. Len(s)} |-> s[a \div InstrBytes + 1]]

Padding == [i \in 1 .. 6 |-> Nop]

(* The token of every count and address that is typed, and what it means.  *)
Digits == <<"0", "1", "2", "3", "4", "5", "6", "7", "8", "9", "10", "11", "12",
            "13", "14", "15", "16", "17", "18", "19", "20", "21", "22">>

Values == 0 .. Len(Digits) - 1

Typing(n) == Digits[n + 1]

(* The value in base b of the digits of n.                                 *)
InBase(n, b) == b * (n \div 10) + (n % 10)

Tokens(b) ==
  [t \in {Typing(n) : n \in Values} |->
     InBase(CHOOSE n \in Values : Typing(n) = t, b)] @@ ("-4" :> -4)

DecimalTokens == Tokens(10)

(* Names of commands that start with digits of base 16.                    *)
HexadecimalTokens ==
  Tokens(16) @@ ("c" :> 12) @@ ("br" :> 11) @@ ("del" :> 222) @@ ("ddm" :> 221)

BrokenTokens == {"br", "del", "ddm"}

(* One line per command.                                                   *)
EOL == <<EndOfLine>>
Line(command) == <<command>> \o EOL
LineWith(command, argument) == <<command, argument>> \o EOL

(* A reset at any cycle, between steps, with a breakpoint or without.      *)
ResetScripts ==
  {LineWith("s", Typing(n)) \o Line("r") \o Line("stat") \o Line("c") \o Line("q") :
     n \in Values}
  \cup
  {LineWith("s", Typing(n)) \o LineWith("br", a) \o Line("c") \o Line("r")
     \o LineWith("s", Typing(n)) \o Line("c") :
     n \in {1, 6, 9}, a \in {"0", "8", "10"}}

(* Breakpoints that are set, met, deleted and set again.                   *)
BreakpointScripts ==
  {LineWith("br", a) \o LineWith("br", "10") \o Line("c") \o LineWith("del", "0")
     \o LineWith("br", b) \o Line("c") \o Line("c") \o LineWith("del", "1")
     \o Line("c") : a \in {"0", "8"}, b \in {"8", "10", "-4"}}

(* Arguments that are missing, and lines that are taken for them.          *)
MissingScripts ==
  {Line("br") \o Line("c") \o Line("c"),
   Line("br") \o Line("del") \o Line("c"),
   Line("br") \o Line("ddm") \o Line("c"),
   LineWith("br", "8") \o Line("c") \o <<"del">>,
   Line("s") \o Line("c") \o LineWith("s", "3"),
   LineWith("s", "-4") \o LineWith("br", "0") \o Line("s") \o Line("c") \o Line("s"),
   LineWith("s", "3") \o <<"s">>}

DumpScripts ==
  {LineWith("s", "6") \o <<m, a>> \o EOL \o Line("c") : m \in {"ddm", "dim"}, a \in {"0", "8"}}
  \cup
  {LineWith("s", "6") \o <<m, "8", a>> \o EOL \o LineWith("s", "10") :
     m \in {"ddm", "dim"}, a \in {"4", "10", "0"}}
  \cup {Line("ddm") \o Line("c") \o Line("c") \o Line("q")}

AllScripts == ResetScripts \cup BreakpointScripts \cup MissingScripts \cup DumpScripts

(* Loads behind which their register is read, stores, sums, and branches,  *)
(* calls and returns forward only: the counters are bounded by the program.*)
Body == {I("lw", 1, 0, 0, 8), I("lw", 2, 1, 0, 4), I("sw", 0, 1, 2, 4),
         I("add", 1, 1, 2, 0), I("bne", 0, 0, 2, 12), I("jal", 1, 0, 0, 8)}

Prologue == <<I("addi", 1, 0, 0, 4), I("addi", 2, 1, 0, 8), I("sw", 0, 0, 2, 8)>>

SmallImages ==
  {m \in {Image(Prologue \o b \o Padding) : b \in [1 .. 2 -> Body]} : SingleUse(m)}

(* One breakpoint is deleted, one set, and the one behind it deleted.      *)
DeleteScripts ==
  {LineWith("br", "8") \o LineWith("br", "10") \o LineWith("del", "0")
     \o LineWith("br", a) \o LineWith("del", "1") \o Line("sbr") \o Line("c") :
     a \in {"4", "8"}}

(* A reset after a stop, with a breakpoint at the beginning.               *)
RestartScripts ==
  {LineWith("br", a) \o Line("c") \o LineWith("br", "0") \o Line("r") \o Line("c") :
     a \in {"4", "8"}}

ShortImages == {Image(Padding)}
=============================================================================
