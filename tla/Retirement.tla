----------------------------- MODULE Retirement -----------------------------
(***************************************************************************)
(* What the statistics promise: the one-at-a-time machine with a count of  *)
(* the instructions it has run since it was last started.  Words that are  *)
(* no instruction are run, without effect, and are not counted.            *)
(***************************************************************************)
EXTENDS Isa

VARIABLE count   \* instructions run since the last start

countVars == <<vars, count>>

Counts(ins) == InstructionType[ins.op] # "NoType"

CountedInit == Init /\ count = 0

CountedStep == Step /\ count' = count + (IF Counts(imem[pc]) THEN 1 ELSE 0)

CountedRestart == Restart /\ count' = 0

CountedNext == CountedStep \/ CountedRestart

CountedSpec == CountedInit /\ [][CountedNext]_countVars
=============================================================================
