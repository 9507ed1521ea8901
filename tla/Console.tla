------------------------------ MODULE Console ------------------------------
(***************************************************************************)
(* The console: CommandInterpreter::MainLoop and the commands, which read  *)
(* their arguments from the same standard input as the loop reads its      *)
(* commands.  The input is one sequence of tokens and ends of lines.       *)
(*                                                                         *)
(* >> skips ends of lines, so a command without its argument takes the next*)
(* line for it; whatever a command leaves of its line is dropped before the*)
(* next one.  Step and continue make one call of CPU::ExecuteCycle per step*)
(* of this module.  A text that is printed changes nothing here.           *)
(*                                                                         *)
(* typed and calls are history: what the user has typed behind the last "s"*)
(* and the calls made since the last command.  No action reads them.       *)
(***************************************************************************)
EXTENDS Cpu, FiniteSetsExt

CONSTANTS
  Scripts,      \* what may be typed
  Decimal,      \* the number at the start of a token, read in base 10
  Hexadecimal,  \* and read in base 16
  Broken        \* the tokens that go on behind their hexadecimal number

EndOfLine == "end of line"
Rest == "rest of a token"

(* What the input is made of.                                              *)
Symbols == STRING \cup {EndOfLine, Rest}

ASSUME NumbersAssumption ==
  /\ \A t \in DOMAIN Decimal : Decimal[t] \in Int
  /\ \A t \in DOMAIN Hexadecimal : Hexadecimal[t] \in Int
  /\ Broken \cap DOMAIN Decimal = {}
  /\ {EndOfLine, Rest} \cap DOMAIN Decimal = {}

ASSUME ScriptsAssumption == Scripts \subseteq Seq(Symbols)

VARIABLES
  input,   \* what std::cin still holds
  base,    \* the base std::cin reads numbers in
  mode,    \* what MainLoop is doing
  todo,    \* steps - ii of the step command
  typed,   \* history: the number behind the last "s" as its user means it
  calls    \* history: calls of ExecuteCycle since the last command

consoleVars == <<cpuVars, input, base, mode, todo, typed, calls>>

Modes == {"prompt", "stepping", "continuing", "quit", "spinning"}

ConsoleTypeOK ==
  /\ CpuTypeOK
  /\ input \in Seq(Symbols)
  /\ base \in {10, 16}
  /\ mode \in Modes
  /\ {todo, typed, calls} \subseteq Int

ConsoleInit ==
  /\ CpuInit
  /\ input \in Scripts
  /\ base = 10
  /\ mode = "prompt"
  /\ todo = 0 /\ typed = 0 /\ calls = 0
-----------------------------------------------------------------------------
(* s from place i on.                                                      *)
From(s, i) == SubSeq(s, i, Len(s))

(* What >> sees of s: its first token and everything behind it.            *)
Skipped(s) ==
  LET tokens == {i \in DOMAIN s : s[i] # EndOfLine}
  IN  IF tokens = {} THEN <<>> ELSE From(s, Min(tokens))

(* std::cin.ignore up to the end of the line.                              *)
LineDropped(s) ==
  LET ends == {i \in DOMAIN s : s[i] = EndOfLine}
  IN  IF ends = {} THEN <<>> ELSE From(s, Min(ends) + 1)

(* std::cin >> an int that holds old.  At the end of the input it keeps its*)
(* value; a token that starts with no number gives 0 and stays there.      *)
Number(s, b, old) ==
  LET t      == Skipped(s)
      values == IF b = 16 THEN Hexadecimal ELSE Decimal
  IN  IF t = <<>> THEN [value |-> old, good |-> FALSE, rest |-> t]
      ELSE IF Head(t) \notin DOMAIN values
      THEN [value |-> 0, good |-> FALSE, rest |-> t]
      ELSE [value |-> values[Head(t)], good |-> TRUE,
            rest |-> IF Head(t) \in Broken THEN <<Rest>> \o Tail(t) ELSE Tail(t)]

(* A second >> behind one that failed does nothing.                        *)
NumberAfter(n, b, old) ==
  IF n.good THEN Number(n.rest, b, old) ELSE [n EXCEPT !.value = old]

AtPrompt(command) ==
  /\ Running /\ mode = "prompt"
  /\ Skipped(input) # <<>>
  /\ Head(Skipped(input)) = command

(* The input behind the command.                                           *)
Behind == Tail(Skipped(input))

(* The command is over and has left rest.                                  *)
Finish(rest) ==
  /\ input' = LineDropped(rest)
  /\ mode' = "prompt"
  /\ calls' = 0
  /\ UNCHANGED <<todo, typed>>
-----------------------------------------------------------------------------
Quit ==
  /\ AtPrompt("q")
  /\ mode' = "quit"
  /\ UNCHANGED <<cpuVars, input, base, todo, typed, calls>>

(* At the end of the input MainLoop reads empty commands for good.         *)
EndOfInput ==
  /\ Running /\ mode = "prompt" /\ Skipped(input) = <<>>
  /\ mode' = "spinning"
  /\ UNCHANGED <<cpuVars, input, base, todo, typed, calls>>

Acting == {"q", "r", "br", "del", "dim", "ddm", "s", "c"}

(* Help, the register dump, the list of breakpoints, the statistics and    *)
(* whatever is no command only print.                                      *)
NoAction ==
  /\ Running /\ mode = "prompt" /\ Skipped(input) # <<>>
  /\ Head(Skipped(input)) \notin Acting
  /\ Finish(Behind)
  /\ UNCHANGED <<cpuVars, base>>

ResetCommand ==
  /\ AtPrompt("r")
  /\ CpuReset
  /\ Finish(Behind)
  /\ UNCHANGED base

(* Fault: a number that is no address is kept as it is.                    *)
RawAddress(n) == n

(* The int that was read becomes an unsigned address.                      *)
BreakpointAddress(n) == Word(n)

SetBreakpointCommand ==
  LET n == Number(Behind, 16, 0)
  IN  /\ AtPrompt("br")
      /\ SetBreakpoint(BreakpointAddress(n.value))
      /\ base' = 16
      /\ Finish(n.rest)

(* bkpt_num is not initialised: at the end of the input it is any number,  *)
(* one in use or none.                                                     *)
DeleteBreakpointCommand ==
  /\ AtPrompt("del")
  /\ \E junk \in {bkpts[i].num : i \in DOMAIN bkpts} \cup {-1} :
       LET n == Number(Behind, base, junk)
       IN  DeleteBreakpoint(n.value) /\ Finish(n.rest)
  /\ UNCHANGED base

(* CoreDump's CHECKs, and the reads past the memory when the end is in     *)
(* front of the start and the unsigned distance is huge.  The memory has   *)
(* the words at the addresses in cells.                                    *)
DumpFails(start, stop, cells) ==
  \/ Word(start) - (Word(start) % InstrBytes) \notin cells
  \/ Word(stop) - (Word(stop) % InstrBytes) \notin cells
  \/ 0 < Word(stop) /\ Word(stop) < Word(start)

DumpMemory(command, cells) ==
  LET start == Number(Behind, 16, 0)
      stop  == NumberAfter(start, 16, 0)
  IN  /\ AtPrompt(command)
      /\ base' = 16
      /\ IF DumpFails(start.value, stop.value, cells)
         THEN /\ status' = "aborted"
              /\ UNCHANGED <<imem, pc, regs, dmem, queue, delay, lat,
                             input, mode, todo, typed, calls>>
         ELSE Finish(stop.rest) /\ UNCHANGED vars
      /\ UNCHANGED <<bkpts, atBkpt, counters, since, stoppedAt>>

DumpCommand == DumpMemory("dim", DOMAIN imem) \/ DumpMemory("ddm", DataAddrs)

(* The number typed behind a step command, as one reads it.                *)
TypedNumber ==
  IF Behind # <<>> /\ Head(Behind) \in DOMAIN Decimal
  THEN Decimal[Head(Behind)] ELSE 0

StepCommand ==
  LET n == Number(Behind, base, 0)
  IN  /\ AtPrompt("s")
      /\ input' = LineDropped(n.rest)
      /\ todo' = n.value
      /\ mode' = IF n.value > 0 THEN "stepping" ELSE "prompt"
      /\ typed' = TypedNumber
      /\ calls' = 0
      /\ UNCHANGED <<cpuVars, base>>

ContinueCommand ==
  /\ AtPrompt("c")
  /\ input' = LineDropped(Behind)
  /\ mode' = "continuing"
  /\ calls' = 0
  /\ UNCHANGED <<cpuVars, base, todo, typed>>

(* Fault: one call too many.                                               *)
OneTooMany == mode = "stepping" /\ todo = 0

LastStep == mode = "stepping" /\ todo = 1

(* One turn of the loop in StepCommand or ContinueCommand.                 *)
Call ==
  /\ mode \in {"stepping", "continuing"}
  /\ ExecuteCycle
  /\ calls' = calls + 1
  /\ todo' = IF mode = "stepping" THEN todo - 1 ELSE todo
  /\ mode' = IF atBkpt' \/ LastStep THEN "prompt" ELSE mode
  /\ UNCHANGED <<input, base, typed>>

ConsoleNext ==
  \/ Quit \/ EndOfInput \/ NoAction
  \/ ResetCommand \/ SetBreakpointCommand \/ DeleteBreakpointCommand
  \/ DumpCommand \/ StepCommand \/ ContinueCommand
  \/ Call

ConsoleSpec == ConsoleInit /\ [][ConsoleNext]_consoleVars
-----------------------------------------------------------------------------
(* "s n" makes n calls or ends at a breakpoint (the help of s: "Execute n  *)
(* cycles"), as long as no command has set std::cin to hexadecimal numbers.*)
StepsAsTyped ==
  [][(mode = "stepping" /\ mode' = "prompt" /\ base = 10)
       => (calls' = typed \/ atBkpt')]_consoleVars
=============================================================================
