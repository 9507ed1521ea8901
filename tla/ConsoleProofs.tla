--------------------------- MODULE ConsoleProofs ---------------------------
(***************************************************************************)
(* The console and the CPU's statistics on top of the pipeline.            *)
(*                                                                         *)
(* The argument: whatever is typed, the console moves the pipeline, lets   *)
(* it wait, resets it, or leaves it alone (ConsoleSteps). Hence the        *)
(* pipeline's invariant holds under the console, and with it what the      *)
(* counters count: CyclesInv says what every cycle since the reset was     *)
(* spent on, and is itself inductive; Retired follows the steps of the     *)
(* program.                                                                *)
(*                                                                         *)
(* The second half is about the input: whatever a command takes of it and  *)
(* drops of the line, an end of what was typed is left, so that types are  *)
(* kept (ConsoleTypeInv) and a step command reads the number in its line   *)
(* (ReadAsTyped); calls made and calls to come add up to it (StepsInv).    *)
(***************************************************************************)
EXTENDS Console, PipelineRefinement, FiniteSetTheorems

(* What a console command that neither steps nor resets may do to the CPU. *)
Quiet ==
  /\ UNCHANGED <<imem, pc, regs, dmem, queue, delay, lat, counters, since>>
  /\ status' \in {status, "aborted"}

(* A cycle in which the pipeline moves, as the CPU counts it ...           *)
Moving == Move /\ cycles' = cycles + 1
(* ... and one in which it waits for the memories.                         *)
Waiting == Hold /\ cycles' = cycles + 1

(* All the console ever does to the CPU.                                   *)
LEMMA ConsoleSteps ==
  [ConsoleNext]_consoleVars => Moving \/ Waiting \/ CpuReset \/ Quiet
<1> SUFFICES ASSUME [ConsoleNext]_consoleVars
             PROVE  Moving \/ Waiting \/ CpuReset \/ Quiet
  OBVIOUS
<1>1. CASE UNCHANGED consoleVars
  BY <1>1 DEF consoleVars, cpuVars, vars, Quiet
<1>2. CASE Quit \/ EndOfInput \/ NoAction \/ StepCommand \/ ContinueCommand
  <2>1. UNCHANGED cpuVars
    BY <1>2 DEF Quit, EndOfInput, NoAction, StepCommand, ContinueCommand
  <2> QED BY <2>1 DEF cpuVars, vars, Quiet
<1>3. CASE ResetCommand
  BY <1>3 DEF ResetCommand
<1>4. CASE SetBreakpointCommand
  <2>1. UNCHANGED <<vars, counters, since>>
    BY <1>4 DEF SetBreakpointCommand, SetBreakpoint
  <2> QED BY <2>1 DEF vars, Quiet
<1>5. CASE DeleteBreakpointCommand
  <2>1. UNCHANGED <<vars, counters, since>>
    BY <1>5 DEF DeleteBreakpointCommand, DeleteBreakpoint
  <2> QED BY <2>1 DEF vars, Quiet
<1>6. CASE DumpCommand
  BY <1>6 DEF DumpCommand, DumpMemory, vars, Quiet
<1>7. CASE Call
  <2>1. CASE Stop
    BY <2>1 DEF Stop, vars, Quiet
  <2>2. CASE Pass
    BY <2>2 DEF Pass, Moving, Waiting
  <2>3. CASE Die
    BY <2>3 DEF Die, Abort, Quiet
  <2> QED BY <1>7, <2>1, <2>2, <2>3 DEF Call, ExecuteCycle
<1> QED BY <1>1, <1>2, <1>3, <1>4, <1>5, <1>6, <1>7 DEF ConsoleNext

(* A command that leaves the CPU alone keeps the pipeline's invariant ...  *)
LEMMA QuietKeepsInv == Inv /\ Quiet => Inv'
<1> SUFFICES ASSUME Inv, Quiet PROVE Inv'
  OBVIOUS
<1>1. UNCHANGED <<imem, pc, regs, queue, delay>> /\ dmem' = dmem /\ lat' = lat
      /\ status' \in {status, "aborted"}
  BY DEF Quiet
<1>2. TypeInv'
  BY <1>1 DEF Inv, TypeInv, TypeOK
<1>3. StructInv'
  BY <1>1 DEF Inv, StructInv, Sequential, LastPending
<1>4. DataInv'
  BY <1>1, ArchUnchanged DEF Inv, DataInv
<1> QED BY <1>2, <1>3, <1>4 DEF Inv

(* ... and so does all that can be typed.                                  *)
LEMMA ConsoleKeepsInv == Inv /\ [ConsoleNext]_consoleVars => Inv'
<1> SUFFICES ASSUME Inv, [ConsoleNext]_consoleVars PROVE Inv'
  OBVIOUS
<1>1. Next \/ Quiet
  BY ConsoleSteps DEF Moving, Move, Waiting, Hold, CpuReset, Next, Cycle
<1> QED BY <1>1, NextRefines, QuietKeepsInv

(* Under the console, with any breakpoints and resets, the pipeline keeps  *)
(* its invariant: the types, the shape of its queue and what its slots     *)
(* hold.                                                                   *)
THEOREM ConsoleRunsPipeline == NoDoubleUse => (ConsoleSpec => []Inv)
<1> SUFFICES ASSUME NoDoubleUse PROVE ConsoleSpec => []Inv
  OBVIOUS
<1>1. ConsoleInit => Inv
  BY InitRefines DEF ConsoleInit, CpuInit
<1> QED BY <1>1, ConsoleKeepsInv, PTL DEF ConsoleSpec
-----------------------------------------------------------------------------
(* The counters count.                                                     *)
CounterTypes ==
  /\ cycles \in Nat /\ completed \in Nat /\ ctlDelay \in Nat /\ dataDelay \in Nat
  /\ since \in SinceReset

(* The inductive form of CyclesExplained: what a reset has left in the     *)
(* counters is taken off them.                                             *)
CyclesInv == CounterTypes /\ SpentOn(ctlDelay + dataDelay - since.left)

(* One is 0 or 1.                                                          *)
LEMMA OneType == \A c \in BOOLEAN : One(c) \in {0, 1}
BY DEF One

(* What a moving cycle adds to the delay statistics: three for a change of *)
(* flow, the inserted bubbles otherwise.                                   *)
LEMMA DelaysNext ==
  ASSUME TypeInv, StructInv, Moving
  PROVE  /\ ctlDelay' = ctlDelay + (IF ChangesFlow(Accessed) THEN 3 ELSE 0)
         /\ dataDelay' = dataDelay
                           + (IF ChangesFlow(Accessed) THEN 0 ELSE Inserted)
<1> USE DEF DecodeStage, ExecuteStage, MemoryAccessStage
<1> DEFINE done == StagesRun(LoadedWord)
           ctl == AfterControlHazard(done)
           flow == One(ChangesFlow(done[4]))
<1>1. /\ ctlDelay' = ctlDelay + flow * 3
      /\ dataDelay' = dataDelay + LoadDelays(ctl[2], ctl[3])
  BY DEF Moving, Move, CountDelays, FlushPenalty
<1>2. ~FetchFaults /\ ~MemoryFaults
  BY AdvanceStep DEF Moving, Move
<1>3. /\ done \in Seq(Slots) /\ Len(done) \in Nat /\ Len(done) >= 5
      /\ done[2] = DecodedNow /\ done[3] = ExecutedNow /\ done[4] = Accessed
  BY <1>2, StagesQueue, ShiftedQueue, QueueSlots DEF NumStages
<1> HIDE DEF done
<1>4. CASE ChangesFlow(Accessed)
  <2>1. flow = 1
    BY <1>3, <1>4 DEF One
  <2>2. ctl = Flushed(done, 3)
    BY <1>3, <1>4 DEF AfterControlHazard
  <2> HIDE DEF ctl
  <2>3. ctl[2] = Bubble /\ ctl[3] = Bubble
    BY <1>3, <2>2, FlushedQueue
  <2>4. LoadDelays(Bubble, Bubble) = 0
    BY BubbleType DEF LoadDelays, Nop
  <2> QED BY <1>1, <1>4, <2>1, <2>3, <2>4
<1>5. CASE ~ChangesFlow(Accessed)
  <2>1. flow = 0
    BY <1>3, <1>5 DEF One
  <2>2. ctl = done
    BY <1>3, <1>5 DEF AfterControlHazard
  <2> HIDE DEF ctl
  <2> QED BY <1>1, <1>3, <1>5, <2>1, <2>2 DEF Inserted
<1> QED BY <1>4, <1>5

(* What is under way before a cycle ...                                    *)
LEMMA UnderWayNow ==
  ASSUME TypeInv, StructInv, ~FetchFaults
  PROVE  UnderWay = One(Shifted[2].addr # NoAddr) + One(Shifted[3].addr # NoAddr)
                      + One(Shifted[4].addr # NoAddr) + One(delay)
<1> USE DEF One, NumStages, MemoryAccessStage, ExecuteStage
<1>1. Len(Shifted) \in Nat /\ Len(Shifted) >= 5
  BY ShiftedQueue, QueueSlots
<1>2. CASE delay
  <2>1. LastPending = 4
    BY <1>2 DEF LastPending
  <2>2. /\ Shifted[1] = queue[1] /\ Shifted[2] = queue[2] /\ Shifted[3] = queue[3]
        /\ Shifted[4] = queue[4] /\ Shifted[1].addr # NoAddr
    BY <1>1, <1>2, ShiftedQueue, ShiftedShape
  <2> QED BY <1>2, <2>1, <2>2 DEF UnderWay, Fetched
<1>3. CASE ~delay
  <2>1. LastPending = 3
    BY <1>3 DEF LastPending
  <2>2. Shifted[2] = queue[1] /\ Shifted[3] = queue[2] /\ Shifted[4] = queue[3]
    BY <1>1, <1>3, ShiftedQueue
  <2> QED BY <1>3, <2>1, <2>2 DEF UnderWay, Fetched
<1> QED BY <1>2, <1>3

(* ... and after it.                                                       *)
LEMMA UnderWayNext ==
  ASSUME TypeInv, StructInv, Advance
  PROVE  /\ UnderWay' = IF ChangesFlow(Accessed) THEN 0
                        ELSE 1 + One(Shifted[2].addr # NoAddr)
                               + One(Shifted[3].addr # NoAddr)
         /\ One(delay)' = IF ChangesFlow(Accessed) THEN 0 ELSE Inserted
<1> USE DEF One, NumStages, MemoryAccessStage, ExecuteStage
<1>0. ~FetchFaults /\ ~MemoryFaults
  BY AdvanceStep
<1>1. /\ ForwardedNow.addr = Shifted[2].addr /\ ExecutedNow.addr = Shifted[3].addr
      /\ Genuine(imem, ExecutedNow)
      /\ Shifted[1].addr # NoAddr /\ Inserted \in {0, 1}
  BY <1>0, StagesShape, ShiftedShape
<1>2. CASE ChangesFlow(Accessed)
  <2>1. ~delay' /\ queue'[1].addr = NoAddr /\ queue'[2].addr = NoAddr
        /\ queue'[3].addr = NoAddr
    BY <1>2, AdvanceQueue, BubbleType
  <2>2. LastPending' = 3
    BY <2>1 DEF LastPending
  <2> QED BY <1>2, <2>1, <2>2 DEF UnderWay, Fetched
<1>3. CASE ~ChangesFlow(Accessed) /\ Inserted = 0
  <2>1. ~delay' /\ queue'[1].addr = Shifted[1].addr
        /\ queue'[2].addr = Shifted[2].addr /\ queue'[3].addr = Shifted[3].addr
    BY <1>1, <1>3, AdvanceQueue
  <2>2. LastPending' = 3
    BY <2>1 DEF LastPending
  <2> QED BY <1>1, <1>3, <2>1, <2>2 DEF UnderWay, Fetched
<1>4. CASE ~ChangesFlow(Accessed) /\ Inserted = 1
  <2>1. ExecutedNow.addr # NoAddr
    <3>1. ExecutedNow.ins.op = "lw"
      BY <1>4 DEF Inserted, LoadDelays
    <3> QED BY <1>1, <3>1 DEF Genuine, Nop
  <2>2. delay' /\ queue'[1].addr = Shifted[1].addr
        /\ queue'[2].addr = Shifted[2].addr /\ queue'[3].addr = NoAddr
        /\ queue'[4].addr = Shifted[3].addr
    BY <1>1, <1>4, AdvanceQueue, BubbleType
  <2>3. LastPending' = 4
    BY <2>2 DEF LastPending
  <2> QED BY <1>1, <1>4, <2>1, <2>2, <2>3 DEF UnderWay, Fetched
<1> QED BY <1>1, <1>2, <1>3, <1>4

(* Behind an instruction that changes the flow nothing is missing: the     *)
(* flush throws three instructions away.                                   *)
LEMMA FlushedAreReal ==
  ASSUME Inv, Advance, ChangesFlow(Accessed)
  PROVE  /\ Shifted[2].addr # NoAddr /\ Shifted[3].addr # NoAddr
         /\ Shifted[4].addr # NoAddr
<1>0. TypeInv /\ StructInv /\ ~FetchFaults /\ ~MemoryFaults
  BY AdvanceStep DEF Inv
<1>1. /\ MemoryDue = Shifted[4] /\ Accessed.ins = MemoryDue.ins
      /\ Accessed.branch = MemoryDue.branch /\ Genuine(imem, Shifted[4])
  BY <1>0, DueIs, StagesShape, ShiftedShape
<1>2. MemoryDue.addr # NoAddr
  BY <1>1 DEF Genuine, ChangesFlow, Nop
<1>3. ~delay
  <2>1. MemoryDue.ins.op \in {"beq", "bne", "jal", "jalr"}
    BY <1>0, <1>1, <1>2, DueReady DEF ChangesFlow, WillBranch
  <2> QED BY <1>0, <1>1, <2>1, ShiftedShape
<1>4. /\ Len(Shifted) \in Nat /\ Len(Shifted) >= 5
      /\ Shifted[2] \in Slots /\ Shifted[3] \in Slots /\ Shifted[4] \in Slots
  BY <1>0, ShiftedQueue, QueueSlots DEF NumStages
<1>5. Shifted[3].addr # NoAddr
  BY <1>0, <1>1, <1>2, <1>3, <1>4, ShiftedShape, FollowsWord DEF Slots
<1>6. Shifted[2].addr # NoAddr
  BY <1>0, <1>4, <1>5, ShiftedShape, FollowsWord DEF Slots
<1> QED BY <1>1, <1>2, <1>5, <1>6

(* A moving cycle is explained by what enters the count in it.             *)
LEMMA MoveExplained ==
  ASSUME Inv, CyclesInv, Moving
  PROVE  CyclesInv'
<1>0. TypeInv /\ StructInv /\ Advance /\ ~FetchFaults /\ ~MemoryFaults
  BY AdvanceStep DEF Inv, Moving, Move
<1> DEFINE n2 == One(Shifted[2].addr # NoAddr)
           n3 == One(Shifted[3].addr # NoAddr)
           n4 == One(Shifted[4].addr # NoAddr)
           d == One(delay)
<1>1. /\ n2 \in {0, 1} /\ n3 \in {0, 1} /\ n4 \in {0, 1} /\ d \in {0, 1}
      /\ Inserted \in {0, 1}
  BY <1>0, StagesShape DEF One
<1>2. UnderWay = n2 + n3 + n4 + d
  BY <1>0, UnderWayNow
<1>3. /\ since'.ran = since.ran + n4 /\ since'.waited = since.waited
      /\ since'.left = since.left
      /\ since' \in SinceReset
  <2>1. since' = [since EXCEPT !.ran = @ + n4] /\ n4 \in Nat
    BY <1>0, <1>1, DueIs DEF Moving, Move
  <2>2. since \in SinceReset
    BY DEF CyclesInv, CounterTypes
  <2> HIDE DEF n4
  <2> QED BY <2>1, <2>2 DEF SinceReset
<1>4. cycles' = cycles + 1 /\ completed' \in Nat
  BY OneType DEF Moving, Move, Completes, CyclesInv, CounterTypes, One
<1>5. /\ cycles \in Nat /\ ctlDelay \in Nat /\ dataDelay \in Nat
      /\ since.ran \in Nat /\ since.waited \in Nat /\ since.left \in Nat
      /\ cycles = since.waited + since.ran + UnderWay
                    + (ctlDelay + dataDelay - since.left) - d
  BY DEF CyclesInv, CounterTypes, SinceReset, SpentOn
<1>6. CASE ChangesFlow(Accessed)
  <2>1. UnderWay' = 0 /\ One(delay)' = 0
        /\ ctlDelay' = ctlDelay + 3 /\ dataDelay' = dataDelay + 0
    BY <1>0, <1>6, UnderWayNext, DelaysNext
  <2>2. n2 = 1 /\ n3 = 1 /\ n4 = 1
    BY <1>0, <1>6, FlushedAreReal DEF One
  <2> HIDE DEF n2, n3, n4, d
  <2> QED BY <1>1, <1>2, <1>3, <1>4, <1>5, <2>1, <2>2
          DEF CyclesInv, CounterTypes, SpentOn
<1>7. CASE ~ChangesFlow(Accessed)
  <2>1. UnderWay' = 1 + n2 + n3 /\ One(delay)' = Inserted
        /\ ctlDelay' = ctlDelay + 0 /\ dataDelay' = dataDelay + Inserted
    BY <1>0, <1>7, UnderWayNext, DelaysNext
  <2> HIDE DEF n2, n3, n4, d
  <2>2. CounterTypes'
    BY <1>1, <1>3, <1>4, <1>5, <2>1 DEF CounterTypes
  <2>3. ctlDelay' + dataDelay' - since'.left
          = ctlDelay + dataDelay - since.left + Inserted
    BY <1>1, <1>3, <1>5, <2>1
  <2>4. SpentOn(ctlDelay + dataDelay - since.left)'
    BY <1>1, <1>2, <1>3, <1>4, <1>5, <2>1, <2>3 DEF SpentOn
  <2> QED BY <2>2, <2>4 DEF CyclesInv
<1> QED BY <1>6, <1>7

(* So is everything else the console does.                                 *)
LEMMA NextExplained ==
  Inv /\ CyclesInv /\ [ConsoleNext]_consoleVars => CyclesInv'
<1> SUFFICES ASSUME Inv, CyclesInv, [ConsoleNext]_consoleVars PROVE CyclesInv'
  OBVIOUS
<1>1. CASE Moving
  BY <1>1, MoveExplained
<1>2. CASE Waiting
  <2>1. /\ UnderWay' = UnderWay /\ One(delay)' = One(delay)
        /\ cycles' = cycles + 1 /\ since' = [since EXCEPT !.waited = @ + 1]
        /\ UNCHANGED <<completed, ctlDelay, dataDelay>>
    BY <1>2 DEF Waiting, Hold, Wait, UnderWay, Fetched, One, LastPending
  <2>2. /\ cycles \in Nat /\ ctlDelay \in Nat /\ dataDelay \in Nat
        /\ since \in SinceReset /\ One(delay) \in {0, 1}
        /\ UnderWay \in Nat
    BY DEF CyclesInv, CounterTypes, One, UnderWay, Fetched
  <2>3. /\ since'.ran = since.ran /\ since'.waited = since.waited + 1
        /\ since'.left = since.left
        /\ since' \in SinceReset
    BY <2>1, <2>2 DEF SinceReset
  <2> QED BY <2>1, <2>2, <2>3
          DEF CyclesInv, CounterTypes, SpentOn, SinceReset
<1>3. CASE CpuReset
  <2>1. queue \in Seq(Slots) /\ Len(queue) \in Nat /\ Len(queue) >= 5
    BY QueueSlots DEF Inv, TypeInv, TypeOK, NumStages
  <2>2. ~delay' /\ queue' = Flushed(queue, 5)
    BY <1>3 DEF CpuReset, Reset, WriteBackStage
  <2>3. queue'[1] = Bubble /\ queue'[2] = Bubble /\ queue'[3] = Bubble
    BY <2>1, <2>2, FlushedQueue
  <2>4. LastPending' = 3
    BY <2>2 DEF LastPending, ExecuteStage
  <2>5. UnderWay' = 0 /\ One(delay)' = 0
    BY <2>2, <2>3, <2>4, BubbleType DEF UnderWay, Fetched, One
  <2>6. /\ cycles' = 0 /\ completed' = 0 /\ UNCHANGED <<ctlDelay, dataDelay>>
        /\ since' = [ran |-> 0, waited |-> 0, left |-> dataDelay + ctlDelay]
        /\ ctlDelay \in Nat /\ dataDelay \in Nat
    BY <1>3 DEF CpuReset, CyclesInv, CounterTypes
  <2> QED BY <2>5, <2>6 DEF CyclesInv, CounterTypes, SpentOn, SinceReset
<1>4. CASE Quiet
  BY <1>4 DEF Quiet, counters, CyclesInv, CounterTypes, SpentOn, UnderWay,
              Fetched, One, LastPending
<1> QED BY <1>1, <1>2, <1>3, <1>4, ConsoleSteps

(* CyclesInv is an invariant.                                              *)
LEMMA CyclesInvCorrect == NoDoubleUse => (ConsoleSpec => []CyclesInv)
<1> SUFFICES ASSUME NoDoubleUse PROVE ConsoleSpec => []CyclesInv
  OBVIOUS
<1>1. ConsoleInit => CyclesInv
  <2> SUFFICES ASSUME ConsoleInit PROVE CyclesInv
    OBVIOUS
  <2>1. queue[1] = Bubble /\ queue[2] = Bubble /\ queue[3] = Bubble /\ ~delay
    BY DEF ConsoleInit, CpuInit, Init, NumStages
  <2>2. LastPending = 3
    BY <2>1 DEF LastPending, ExecuteStage
  <2>3. UnderWay = 0 /\ One(delay) = 0
    BY <2>1, <2>2, BubbleType DEF UnderWay, Fetched, One
  <2> QED BY <2>3 DEF ConsoleInit, CpuInit, CyclesInv, CounterTypes,
                      SpentOn, SinceReset
<1> QED BY <1>1, ConsoleRunsPipeline, NextExplained, PTL DEF ConsoleSpec

(* The printed statistics add up: every cycle since the last reset is an   *)
(* instruction done or under way, a delay the hazard units report, or a    *)
(* cycle waited for the memories, unless the reset left delays in their    *)
(* counters.                                                               *)
THEOREM StatisticsAddUp == NoDoubleUse => (ConsoleSpec => []CyclesExplained)
<1>1. CyclesInv => CyclesExplained
  BY DEF CyclesInv, CounterTypes, CyclesExplained, PrintedCyclesAddUp, SpentOn
<1> QED BY <1>1, CyclesInvCorrect, PTL
-----------------------------------------------------------------------------
(* Retirement has the operators of Isa under names of its own.             *)
LEMMA SameMachine ==
  /\ R!Init <=> A!Init
  /\ R!Step <=> A!Step
  /\ R!Restart <=> A!Restart
  /\ UNCHANGED A!vars => UNCHANGED R!vars
  /\ R!InstructionType = InstructionType
<1>1. /\ R!InstrBytes = A!InstrBytes /\ R!PipelineOffset = A!PipelineOffset
      /\ R!LinkOffset = A!LinkOffset
      /\ R!Regs = A!Regs /\ R!Words = A!Words /\ R!DataAddrs = A!DataAddrs
      /\ R!Ops = A!Ops /\ R!InstructionType = A!InstructionType
      /\ R!Instrs = A!Instrs
  BY DEF A!InstrBytes, R!InstrBytes, A!PipelineOffset, R!PipelineOffset,
         A!LinkOffset, R!LinkOffset, A!Regs, R!Regs, A!Words, R!Words,
         A!DataAddrs, R!DataAddrs, A!Ops, R!Ops,
         A!InstructionType, R!InstructionType, A!Instrs, R!Instrs
<1>2. \A x : R!Word(x) = A!Word(x)
  BY DEF A!Word, R!Word
<1>3. \A x : R!Signed(x) = A!Signed(x)
  BY DEF A!Signed, R!Signed
<1>4. \A ins, x : R!Address(ins, x) = A!Address(ins, x)
  BY <1>2 DEF A!Address, R!Address
<1>5. \A ins, x, y : R!WillBranch(ins, x, y) = A!WillBranch(ins, x, y)
  BY DEF A!WillBranch, R!WillBranch
<1>6. \A p, x : R!BranchOffset(p, x) = A!BranchOffset(p, x)
  BY <1>1, <1>3 DEF A!BranchOffset, R!BranchOffset
<1>7. \A x : R!Jump(x) = A!Jump(x)
  BY <1>1, <1>2, <1>3 DEF A!Jump, R!Jump
<1>8. \A ins, x, y, p : R!Computed(ins, x, y, p) = A!Computed(ins, x, y, p)
  BY <1>1, <1>2 DEF A!Computed, R!Computed
<1>9. \A ins : R!WritesToRd(ins) = A!WritesToRd(ins)
  BY <1>1 DEF A!WritesToRd, R!WritesToRd
<1>10. \A rf, r, x : R!Written(rf, r, x) = A!Written(rf, r, x)
  BY DEF A!Written, R!Written
<1>11. \A ins, a, x, y : R!Successor(ins, a, x, y) = A!Successor(ins, a, x, y)
  BY <1>1, <1>2, <1>4, <1>5, <1>6, <1>7 DEF A!Successor, R!Successor
<1>12. \A ins, a, x, y : R!Result(ins, a, x, y) = A!Result(ins, a, x, y)
  BY <1>1, <1>2, <1>4, <1>8 DEF A!Result, R!Result
<1>13. R!CanStep <=> A!CanStep
  BY <1>1, <1>4, <1>11 DEF A!CanStep, R!CanStep
<1>14. R!Step <=> A!Step
  BY <1>2, <1>4, <1>9, <1>10, <1>11, <1>12, <1>13 DEF A!Step, R!Step
<1>15. R!ZeroRegs = A!ZeroRegs
  BY <1>1 DEF A!ZeroRegs, R!ZeroRegs
<1>16. (R!Init <=> A!Init) /\ (R!Restart <=> A!Restart)
  BY <1>1, <1>15 DEF A!Init, R!Init, A!IsProgram, R!IsProgram, A!Restart, R!Restart
<1>17. UNCHANGED A!vars => UNCHANGED R!vars
  BY DEF A!vars, R!vars
<1>18. R!InstructionType = InstructionType
  BY <1>1, SameConstants
<1> QED BY <1>14, <1>16, <1>17, <1>18

(* The number of instructions done, the pending one included.              *)
Retired == completed + One(InstructionType[Pending.op] # "NoType")

(* A moving cycle retires the instruction whose memory access is due,      *)
(* unless that is a bubble.                                                *)
LEMMA MoveRetires ==
  ASSUME Inv, CyclesInv, Moving
  PROVE  Retired' = Retired + One(InstructionType[MemoryDue.ins.op] # "NoType")
<1>0. TypeInv /\ StructInv /\ Advance /\ ~FetchFaults /\ ~MemoryFaults
  BY AdvanceStep DEF Inv, Moving, Move
<1>1. Shifted[5] = queue[LastPending + 1]
  <2>1. Len(Shifted) \in Nat /\ Len(Shifted) >= 5
    BY <1>0, ShiftedQueue, QueueSlots DEF NumStages
  <2>2. CASE delay
    BY <1>0, <2>1, <2>2, ShiftedQueue DEF LastPending, MemoryAccessStage
  <2>3. CASE ~delay
    BY <1>0, <2>1, <2>3, ShiftedQueue DEF LastPending, ExecuteStage
  <2> QED BY <2>2, <2>3
<1>2. completed' = Retired
  BY <1>1 DEF Moving, Move, Completes, Retired, Pending, WriteBackStage
<1>3. Pending' = MemoryDue.ins
  <2>1. queue'[LastPending' + 1] = Accessed
    BY <1>0, DoneNext
  <2>2. Accessed.ins = MemoryDue.ins
    BY <1>0, StagesShape, DueIs
  <2> QED BY <2>1, <2>2 DEF Pending
<1> QED BY <1>2, <1>3 DEF Retired, One

(* It is therefore a counted step of the program, or none.                 *)
LEMMA MoveCounts ==
  ASSUME Inv, CyclesInv, Moving
  PROVE  R!CountedStep \/ UNCHANGED R!countVars
<1>0. TypeInv /\ StructInv /\ Advance /\ ~FetchFaults /\ ~MemoryFaults
  BY AdvanceStep DEF Inv, Moving, Move
<1>1. Retired' = Retired + One(InstructionType[MemoryDue.ins.op] # "NoType")
  BY MoveRetires
<1>2. CASE MemoryDue.addr # NoAddr
  <2>1. A!Step
    BY <1>0, <1>2, AdvanceSteps
  <2>2. imem[ArchPc] = MemoryDue.ins
    BY <1>0, <1>2, DueReady DEF ArchIns
  <2>3. Retired' = Retired + (IF R!Counts(imem[ArchPc]) THEN 1 ELSE 0)
    BY <1>1, <2>2, SameMachine DEF R!Counts, One
  <2> QED BY <2>1, <2>3, SameMachine DEF R!CountedStep, Retired
<1>3. CASE MemoryDue.addr = NoAddr
  <2>1. UNCHANGED A!vars
    BY <1>0, <1>3, AdvanceStutters
  <2>2. MemoryDue.ins = Nop
    <3>1. Genuine(imem, Shifted[4]) /\ MemoryDue = Shifted[4]
      BY <1>0, ShiftedShape, DueIs
    <3> QED BY <1>3, <3>1 DEF Genuine
  <2>3. InstructionType["nop"] = "NoType"
    BY DEF InstructionType, Ops
  <2>4. Retired' = Retired + 0
    BY <1>1, <2>2, <2>3 DEF Nop, One
  <2>5. Retired \in Nat
    BY DEF Retired, One, CyclesInv, CounterTypes
  <2>6. Retired' = Retired
    BY <2>4, <2>5
  <2> QED BY <2>1, <2>6, SameMachine DEF R!countVars, Retired
<1> QED BY <1>2, <1>3

(* So is every step of the console.                                        *)
LEMMA NextCounts ==
  Inv /\ CyclesInv /\ [ConsoleNext]_consoleVars => [R!CountedNext]_(R!countVars)
<1> SUFFICES ASSUME Inv, CyclesInv, [ConsoleNext]_consoleVars
             PROVE  [R!CountedNext]_(R!countVars)
  OBVIOUS
<1>1. CASE Moving
  BY <1>1, MoveCounts DEF R!CountedNext
<1>2. CASE UNCHANGED <<imem, pc, regs, dmem, queue, delay, completed>>
  <2>1. /\ ArchPc' = ArchPc /\ ArchRegs' = ArchRegs /\ LastPending' = LastPending
        /\ queue' = queue
    BY <1>2, ArchUnchanged
  <2>2. UNCHANGED A!vars /\ Retired' = Retired
    BY <1>2, <2>1 DEF A!vars, Retired, Pending, One
  <2> QED BY <2>2, SameMachine DEF R!countVars, Retired
<1>3. CASE CpuReset
  <2>1. A!Restart /\ queue'[LastPending' + 1] = Bubble /\ completed' = 0
    BY <1>3, ResetRefines DEF CpuReset, Inv
  <2>2. InstructionType["nop"] = "NoType"
    BY DEF InstructionType, Ops
  <2>3. Retired' = 0
    BY <2>1, <2>2, BubbleType DEF Retired, Pending, One, Nop
  <2> QED BY <2>1, <2>3, SameMachine DEF R!CountedRestart, R!CountedNext, Retired
<1> QED BY <1>1, <1>2, <1>3, ConsoleSteps DEF Waiting, Hold, Wait, Quiet, counters

(* CompletedInstructions counts the instructions of the program: each one  *)
(* once, however it was delayed, and nothing that was flushed.             *)
THEOREM CountsEveryInstruction == NoDoubleUse => (ConsoleSpec => CountsRetired)
<1> SUFFICES ASSUME NoDoubleUse PROVE ConsoleSpec => CountsRetired
  OBVIOUS
<1>1. ConsoleInit => R!CountedInit
  <2> SUFFICES ASSUME ConsoleInit PROVE R!CountedInit
    OBVIOUS
  <2>1. A!Init
    BY InitRefines DEF ConsoleInit, CpuInit
  <2>2. queue[LastPending + 1] = Bubble /\ completed = 0
    BY DEF ConsoleInit, CpuInit, Init, NumStages, LastPending, ExecuteStage
  <2>3. InstructionType["nop"] = "NoType"
    BY DEF InstructionType, Ops
  <2>4. Retired = 0
    BY <2>2, <2>3, BubbleType DEF Retired, Pending, One, Nop
  <2> QED BY <2>1, <2>4, SameMachine DEF R!CountedInit, Retired
<1> QED BY <1>1, ConsoleRunsPipeline, CyclesInvCorrect, NextCounts, PTL
        DEF ConsoleSpec, CountsRetired, R!CountedSpec
-----------------------------------------------------------------------------
(* What the console reads.  A nonempty set of places has a first one.      *)
LEMMA FirstPlace ==
  ASSUME NEW T \in SUBSET Nat, T # {}
  PROVE  Min(T) \in T /\ \A i \in T : Min(T) <= i
<1> DEFINE Less == OpToRel(<, Nat)
<1>1. \E x \in T : \A y \in T : ~ (<<y, x>> \in Less)
  <2>1. IsWellFoundedOn(Less, Nat)
    BY NatLessThanWellFounded
  <2> HIDE DEF Less
  <2> QED BY <2>1, WFMin
<1>2. \A x, y \in Nat : <<y, x>> \in Less <=> y < x
  BY DEF OpToRel
<1> HIDE DEF Less
<1>3. PICK x \in T : \A y \in T : ~ (<<y, x>> \in Less)
  BY <1>1
<1>4. ASSUME NEW y \in T
      PROVE  x <= y
  <2>1. ~(y < x)
    BY <1>2, <1>3
  <2> QED BY <2>1
<1> QED BY <1>3, <1>4 DEF Min

(* Behind an "s" there is no number on a line of its own.                  *)
NumbersInLine(s) ==
  \A i, k \in DOMAIN s :
    /\ s[i] = "s" /\ i + 1 < k
    /\ \A j \in i + 1 .. k - 1 : s[j] = EndOfLine
    => s[k] \notin DOMAIN Decimal

(* The end of what is typed is typed like it.                              *)
LEMMA FromKeeps ==
  ASSUME NEW s \in Seq(Symbols), NEW i \in 1 .. Len(s) + 1
  PROVE  /\ From(s, i) \in Seq(Symbols)
         /\ Len(From(s, i)) = Len(s) - i + 1
         /\ \A j \in 1 .. Len(s) - i + 1 : From(s, i)[j] = s[i + j - 1]
         /\ NumbersInLine(s) => NumbersInLine(From(s, i))
<1> DEFINE r == From(s, i)
<1>1. /\ r \in Seq(Symbols) /\ Len(r) = Len(s) - i + 1 /\ Len(s) \in Nat
      /\ \A j \in 1 .. Len(s) - i + 1 : r[j] = s[i + j - 1]
  <2>1. Len(s) \in Nat /\ i \in Int /\ \A j \in i .. Len(s) : s[j] \in Symbols
    OBVIOUS
  <2> QED BY <2>1, SubSeqProperties DEF From
<1>2. ASSUME NumbersInLine(s) PROVE NumbersInLine(r)
  <2> HIDE DEF r
  <2> SUFFICES ASSUME NEW m \in DOMAIN r, NEW k \in DOMAIN r,
                      r[m] = "s", m + 1 < k,
                      \A j \in m + 1 .. k - 1 : r[j] = EndOfLine
               PROVE  r[k] \notin DOMAIN Decimal
    BY DEF NumbersInLine
  <2> DEFINE p == i + m - 1
             q == i + k - 1
  <2>1. /\ Len(s) \in Int /\ i \in 1 .. Len(s) + 1
        /\ m \in 1 .. Len(s) - i + 1 /\ k \in 1 .. Len(s) - i + 1
    BY <1>1
  <2>2. /\ i \in Int /\ m \in Int /\ k \in Int /\ p \in Int /\ q \in Int
        /\ 1 <= m /\ k <= Len(s) - i + 1 /\ p + 1 < q
        /\ m = p - i + 1 /\ k = q - i + 1
        /\ p \in DOMAIN s /\ q \in DOMAIN s
    <3>1. i \in Int /\ m \in Int /\ k \in Int /\ 1 <= m /\ k <= Len(s) - i + 1
      BY <2>1
    <3>2. p \in Int /\ q \in Int /\ p + 1 < q /\ m = p - i + 1 /\ k = q - i + 1
      BY <3>1
    <3>3. DOMAIN s = 1 .. Len(s)
      OBVIOUS
    <3>4. p \in 1 .. Len(s) /\ q \in 1 .. Len(s)
      BY <2>1
    <3> QED BY <3>1, <3>2, <3>3, <3>4
  <2>3. s[p] = "s" /\ s[q] = r[k]
    BY <1>1, <2>1
  <2> HIDE DEF p, q
  <2>4. ASSUME NEW j \in p + 1 .. q - 1
        PROVE  s[j] = EndOfLine
    <3> DEFINE d == j - i + 1
    <3>1. d \in m + 1 .. k - 1 /\ d \in 1 .. Len(s) - i + 1 /\ i + d - 1 = j
      <4>1. /\ Len(s) \in Int /\ i \in Int /\ m \in Int /\ k \in Int
            /\ 1 <= m /\ k <= Len(s) - i + 1 /\ m = p - i + 1 /\ k = q - i + 1
        BY <2>1, <2>2
      <4>2. j \in Int /\ p + 1 <= j /\ j <= q - 1
        BY <2>2
      <4>3. d \in Int /\ m + 1 <= d /\ d <= k - 1 /\ i + d - 1 = j
        BY <2>2, <4>1, <4>2
      <4> QED BY <4>1, <4>3
    <3> HIDE DEF d
    <3>2. r[d] = EndOfLine
      BY <3>1
    <3> QED BY <1>1, <3>1, <3>2
  <2>5. s[q] \notin DOMAIN Decimal
    BY <1>2, <2>2, <2>3, <2>4 DEF NumbersInLine
  <2> QED BY <2>3, <2>5
<1> QED BY <1>1, <1>2

(* The first token and what is behind it, behind ends of lines only.       *)
LEMMA SkippedKeeps ==
  ASSUME NEW s \in Seq(Symbols)
  PROVE  /\ Skipped(s) \in Seq(Symbols)
         /\ NumbersInLine(s) => NumbersInLine(Skipped(s))
         /\ Skipped(s) # <<>> =>
              \E i \in 1 .. Len(s) :
                /\ Skipped(s) = From(s, i) /\ s[i] # EndOfLine
                /\ \A j \in 1 .. i - 1 : s[j] = EndOfLine
<1> DEFINE tokens == {i \in DOMAIN s : s[i] # EndOfLine}
<1>1. CASE tokens = {}
  <2>1. Skipped(s) = <<>>
    BY <1>1 DEF Skipped
  <2>2. NumbersInLine(<<>>)
    BY DEF NumbersInLine
  <2> QED BY <2>1, <2>2
<1>2. CASE tokens # {}
  <2>1. tokens \in SUBSET Nat
    OBVIOUS
  <2>2. Skipped(s) = From(s, Min(tokens))
    BY <1>2 DEF Skipped
  <2>3. Min(tokens) \in tokens /\ \A i \in tokens : Min(tokens) <= i
    BY <1>2, <2>1, FirstPlace
  <2> DEFINE i == Min(tokens)
  <2>4. i \in 1 .. Len(s) /\ s[i] # EndOfLine
    BY <2>3
  <2>5. ASSUME NEW j \in 1 .. i - 1 PROVE s[j] = EndOfLine
    <3>1. j \in 1 .. Len(s) /\ ~(i <= j)
      BY <2>4
    <3> QED BY <2>3, <3>1
  <2>6. /\ Skipped(s) \in Seq(Symbols)
        /\ NumbersInLine(s) => NumbersInLine(Skipped(s))
    <3>1. i \in 1 .. Len(s) + 1 /\ Skipped(s) = From(s, i)
      BY <2>2, <2>4
    <3> HIDE DEF i
    <3> QED BY <3>1, FromKeeps
  <2>7. Skipped(s) = From(s, i)
    BY <2>2
  <2> HIDE DEF i
  <2> QED BY <2>4, <2>5, <2>6, <2>7
<1> QED BY <1>1, <1>2

(* When there is no token, there is at most an end of line in front.       *)
LEMMA SkippedNothing ==
  ASSUME NEW s \in Seq(Symbols), Skipped(s) = <<>>, s # <<>>
  PROVE  s[1] = EndOfLine
<1> DEFINE tokens == {i \in DOMAIN s : s[i] # EndOfLine}
<1>1. CASE tokens = {}
  <2>1. 1 \in DOMAIN s
    OBVIOUS
  <2> QED BY <1>1, <2>1
<1>2. CASE tokens # {}
  <2>1. tokens \in SUBSET Nat /\ \A i \in tokens : i \in 1 .. Len(s)
    OBVIOUS
  <2>2. Min(tokens) \in 1 .. Len(s)
    <3>1. Min(tokens) \in tokens
      BY <1>2, <2>1, FirstPlace
    <3> QED BY <2>1, <3>1
  <2>3. Skipped(s) = From(s, Min(tokens))
    BY <1>2 DEF Skipped
  <2> DEFINE i == Min(tokens)
  <2> HIDE DEF i, tokens
  <2>4. Len(From(s, i)) = Len(s) - i + 1 /\ Len(s) \in Nat
    <3>1. i \in 1 .. Len(s) + 1 /\ Len(s) \in Nat
      BY <2>2 DEF i
    <3> QED BY <3>1, FromKeeps
  <2> QED BY <2>2, <2>3, <2>4 DEF i
<1> QED BY <1>1, <1>2

(* What is left when a line is dropped.                                    *)
LEMMA LineDroppedKeeps ==
  ASSUME NEW s \in Seq(Symbols)
  PROVE  /\ LineDropped(s) \in Seq(Symbols)
         /\ NumbersInLine(s) => NumbersInLine(LineDropped(s))
<1> DEFINE ends == {i \in DOMAIN s : s[i] = EndOfLine}
<1>1. CASE ends = {}
  <2>1. LineDropped(s) = <<>>
    BY <1>1 DEF LineDropped
  <2>2. NumbersInLine(<<>>)
    BY DEF NumbersInLine
  <2> QED BY <2>1, <2>2
<1>2. CASE ends # {}
  <2>1. ends \in SUBSET Nat
    OBVIOUS
  <2>2. LineDropped(s) = From(s, Min(ends) + 1)
    BY <1>2 DEF LineDropped
  <2>3. Min(ends) + 1 \in 1 .. Len(s) + 1
    <3>1. Min(ends) \in ends
      BY <1>2, <2>1, FirstPlace
    <3> QED BY <3>1
  <2> QED BY <2>2, <2>3, FromKeeps
<1> QED BY <1>1, <1>2

(* What is behind the first token.                                         *)
LEMMA TailKeeps ==
  ASSUME NEW s \in Seq(Symbols), s # <<>>
  PROVE  /\ Tail(s) = From(s, 2) /\ 2 \in 1 .. Len(s) + 1
         /\ Tail(s) \in Seq(Symbols)
         /\ NumbersInLine(s) => NumbersInLine(Tail(s))
<1>1. Tail(s) = From(s, 2) /\ 2 \in 1 .. Len(s) + 1
  BY TailIsSubSeq DEF From
<1> QED BY <1>1, FromKeeps

(* A number, and what is left behind it.                                   *)
LEMMA NumberKeeps ==
  ASSUME NEW s \in Seq(Symbols), NEW b, NEW old
  PROVE  /\ Number(s, b, old).rest \in Seq(Symbols)
         /\ NumbersInLine(s) => NumbersInLine(Number(s, b, old).rest)
         /\ old \in Int => Number(s, b, old).value \in Int
<1> DEFINE t == Skipped(s)
           values == IF b = 16 THEN Hexadecimal ELSE Decimal
           n == Number(s, b, old)
<1>1. t \in Seq(Symbols) /\ (NumbersInLine(s) => NumbersInLine(t))
  BY SkippedKeeps
<1>2. \A v \in DOMAIN values : values[v] \in Int
  BY NumbersAssumption
<1>3. n = IF t = <<>> THEN [value |-> old, good |-> FALSE, rest |-> t]
          ELSE IF Head(t) \notin DOMAIN values
          THEN [value |-> 0, good |-> FALSE, rest |-> t]
          ELSE [value |-> values[Head(t)], good |-> TRUE,
                rest |-> IF Head(t) \in Broken THEN <<Rest>> \o Tail(t) ELSE Tail(t)]
  BY DEF Number
<1> HIDE DEF t, values, n
<1>4. CASE t = <<>> \/ Head(t) \notin DOMAIN values
  BY <1>1, <1>3, <1>4 DEF n
<1>5. CASE t # <<>> /\ Head(t) \in DOMAIN values
  <2>1. n.value = values[Head(t)]
        /\ n.rest = IF Head(t) \in Broken THEN <<Rest>> \o Tail(t) ELSE Tail(t)
    BY <1>3, <1>5
  <2>2. Tail(t) \in Seq(Symbols) /\ (NumbersInLine(t) => NumbersInLine(Tail(t)))
    BY <1>1, <1>5, TailKeeps
  <2> DEFINE u == Tail(t)
             r == <<Rest>> \o u
  <2>3. /\ r \in Seq(Symbols) /\ Len(r) = Len(u) + 1 /\ r[1] = Rest
        /\ \A i \in 1 .. Len(u) : r[i + 1] = u[i]
    <3>1. <<Rest>> \in Seq(Symbols) /\ Len(<<Rest>>) = 1 /\ <<Rest>>[1] = Rest
      <4>1. Rest \in Symbols
        BY DEF Symbols
      <4> QED BY <4>1
    <3> HIDE DEF u
    <3>2. u \in Seq(Symbols) /\ Len(u) \in Nat
      BY <2>2 DEF u
    <3>3. /\ r \in Seq(Symbols) /\ Len(r) = 1 + Len(u)
          /\ \A i \in 1 .. 1 + Len(u) : r[i] = IF i <= 1 THEN <<Rest>>[i] ELSE u[i - 1]
      BY <3>1, <3>2, ConcatProperties
    <3> QED BY <3>1, <3>2, <3>3
  <2> HIDE DEF u, r
  <2>4. ASSUME NumbersInLine(u) PROVE NumbersInLine(r)
    <3> SUFFICES ASSUME NEW m \in DOMAIN r, NEW k \in DOMAIN r,
                        r[m] = "s", m + 1 < k,
                        \A j \in m + 1 .. k - 1 : r[j] = EndOfLine
                 PROVE  r[k] \notin DOMAIN Decimal
      BY DEF NumbersInLine
    <3>1. Len(u) \in Nat /\ DOMAIN u = 1 .. Len(u) /\ DOMAIN r = 1 .. Len(u) + 1
      BY <2>2, <2>3 DEF u
    <3>2. m # 1
      BY <2>3 DEF Rest
    <3> DEFINE p == m - 1
               q == k - 1
    <3>3. /\ p \in DOMAIN u /\ q \in DOMAIN u /\ p + 1 < q
          /\ p + 1 = m /\ q + 1 = k
      BY <3>1, <3>2
    <3>4. u[p] = "s" /\ u[q] = r[k]
      BY <2>3, <3>1, <3>3
    <3> HIDE DEF p, q
    <3>5. ASSUME NEW j \in p + 1 .. q - 1 PROVE u[j] = EndOfLine
      <4> DEFINE d == j + 1
      <4>1. d \in m + 1 .. k - 1 /\ j \in 1 .. Len(u)
        BY <3>1, <3>3
      <4>2. r[d] = u[j]
        BY <2>3, <4>1
      <4> HIDE DEF d
      <4> QED BY <4>1, <4>2
    <3>6. u[q] \notin DOMAIN Decimal
      BY <2>4, <3>3, <3>4, <3>5 DEF NumbersInLine
    <3> QED BY <3>4, <3>6
  <2>5. n.rest \in {r, u}
    BY <2>1 DEF r, u
  <2>6. n.rest \in Seq(Symbols) /\ (NumbersInLine(t) => NumbersInLine(n.rest))
    BY <2>2, <2>3, <2>4, <2>5 DEF u
  <2>7. n.value \in Int
    BY <1>2, <1>5, <2>1
  <2> QED BY <1>1, <2>6, <2>7 DEF n
<1> QED BY <1>4, <1>5
-----------------------------------------------------------------------------
(* What a deletion leaves is a list of breakpoints: the number of others up*)
(* to a place takes every value once.                                      *)
LEMMA OthersAreBreakpoints ==
  ASSUME bkpts \in Breakpoints, NEW n
  PROVE  OtherBreakpoints(n) \in Breakpoints
<1> DEFINE others == {i \in DOMAIN bkpts : bkpts[i].num # n}
           Rank(i) == Cardinality(others \cap (1 .. i))
           c == Cardinality(others)
<1>1. others \in SUBSET (1 .. Len(bkpts)) /\ Len(bkpts) \in Nat
  BY DEF Breakpoints
<1>2. IsFiniteSet(1 .. Len(bkpts))
  BY <1>1, FS_Interval
<1>3. IsFiniteSet(others) /\ c \in Nat
  BY <1>1, <1>2, FS_Subset, FS_CardinalityType
<1> DEFINE B == [num : Nat, addr : Words]
<1>4. ASSUME NEW i \in others
      PROVE  bkpts[i] \in B
  <2>1. i \in 1 .. Len(bkpts)
    BY <1>1
  <2>2. bkpts \in Seq(B)
    BY DEF Breakpoints
  <2> HIDE DEF B
  <2> QED BY <2>1, <2>2
<1>5. OtherBreakpoints(n) = [j \in 1 .. c |-> bkpts[CHOOSE i \in others : Rank(i) = j]]
  BY DEF OtherBreakpoints
<1> HIDE DEF others, c
<1>6. ASSUME NEW i \in others
      PROVE  Rank(i) \in 1 .. c
  <2>1. others \cap (1 .. i) \in SUBSET others
    OBVIOUS
  <2>2. IsFiniteSet(others \cap (1 .. i)) /\ Rank(i) \in Nat /\ Rank(i) <= c
    BY <1>3, <2>1, FS_Subset, FS_CardinalityType DEF c
  <2>3. i \in others \cap (1 .. i)
    BY <1>1
  <2>4. Rank(i) # 0
    BY <2>2, <2>3, FS_EmptySet
  <2> QED BY <1>3, <2>2, <2>4
<1>7. ASSUME NEW i \in others, NEW k \in others, i < k
      PROVE  Rank(i) # Rank(k)
  <2>1. IsFiniteSet(others \cap (1 .. k))
    BY <1>3, FS_Subset
  <2>2. others \cap (1 .. i) \in SUBSET (others \cap (1 .. k))
    BY <1>1, <1>7
  <2>3. k \in others \cap (1 .. k) /\ k \notin others \cap (1 .. i)
    BY <1>1, <1>7
  <2> QED BY <2>1, <2>2, <2>3, FS_Subset
<1> DEFINE f == [i \in others |-> Rank(i)]
<1>8. f \in Injection(others, 1 .. c)
  <2>1. f \in [others -> 1 .. c]
    BY <1>6
  <2>2. ASSUME NEW i \in others, NEW k \in others, f[i] = f[k]
        PROVE  i = k
    <3>1. i \in Int /\ k \in Int
      BY <1>1
    <3>2. Rank(i) = Rank(k)
      BY <2>2
    <3> HIDE DEF Rank
    <3> QED BY <1>7, <3>1, <3>2
  <2> HIDE DEF f
  <2> QED BY <2>1, <2>2 DEF Injection, IsInjective
<1>9. f \in Surjection(others, 1 .. c)
  <2>1. IsFiniteSet(1 .. c) /\ Cardinality(1 .. c) = c
    BY <1>3, FS_Interval
  <2> QED BY <1>3, <1>8, <2>1, FS_Injection DEF c
<1>10. ASSUME NEW j \in 1 .. c
       PROVE  (CHOOSE i \in others : Rank(i) = j) \in others
  <2>1. \E i \in others : f[i] = j
    BY <1>9 DEF Surjection
  <2>2. \E i \in others : Rank(i) = j
    BY <2>1
  <2> HIDE DEF Rank
  <2> QED BY <2>2
<1> HIDE DEF Rank
<1> HIDE DEF B
<1>11. \A j \in 1 .. c : bkpts[CHOOSE i \in others : Rank(i) = j] \in B
  BY <1>4, <1>10
<1>12. [j \in 1 .. c |-> bkpts[CHOOSE i \in others : Rank(i) = j]] \in [1 .. c -> B]
  BY <1>11
<1>13. OtherBreakpoints(n) \in Seq(B)
  BY <1>3, <1>5, <1>12
<1> QED BY <1>13 DEF B, Breakpoints

(* What is behind a command is typed like the input.                       *)
LEMMA BehindKeeps ==
  ASSUME input \in Seq(Symbols), Skipped(input) # <<>>
  PROVE  /\ Behind \in Seq(Symbols)
         /\ NumbersInLine(input) => NumbersInLine(Behind)
BY SkippedKeeps, TailKeeps DEF Behind

(* The types with what keeps them.                                         *)
ConsoleTypeInv == ConsoleTypeOK /\ TypeInv

(* The types of the statistics are kept, whatever is counted.              *)
LEMMA CountsKeepTypes ==
  ASSUME CounterTypes, Move \/ Hold, cycles' = cycles + 1
  PROVE  CounterTypes'
<1>1. CASE Move
  <2>1. \A s, t : LoadDelays(s, t) \in Nat
    BY DEF LoadDelays, One
  <2>2. \A b : One(b) \in Nat
    BY DEF One
  <2>3. PICK a \in Nat, b \in Nat, d \in Nat, e \in Nat :
          /\ completed' = completed + a
          /\ ctlDelay' = ctlDelay + b * 3 /\ dataDelay' = dataDelay + d
          /\ since' = [since EXCEPT !.ran = @ + e]
    BY <1>1, <2>1, <2>2, Zenon DEF Move, CountDelays, FlushPenalty
  <2>4. b * 3 \in Nat
    OBVIOUS
  <2> QED BY <2>3, <2>4 DEF CounterTypes, SinceReset
<1>2. CASE Hold
  BY <1>2 DEF Hold, CounterTypes, SinceReset
<1> QED BY <1>1, <1>2

(* The CPU's types under all that a command does to it.                    *)
LEMMA CpuKeepsTypes ==
  ASSUME CpuTypeOK, TypeInv, input \in Seq(Symbols), [ConsoleNext]_consoleVars
  PROVE  CpuTypeOK' /\ TypeInv'
<1>1. TypeInv'
  <2>1. Next \/ Quiet
    BY ConsoleSteps DEF Moving, Move, Waiting, Hold, CpuReset, Next, Cycle
  <2>2. Quiet => TypeInv'
    BY DEF Quiet, TypeInv, TypeOK
  <2> QED BY <2>1, <2>2, NextType
<1>2. CounterTypes
  BY DEF CpuTypeOK, CounterTypes
<1>3. CounterTypes'
  <2>1. CASE Moving
    BY <1>2, <2>1, CountsKeepTypes DEF Moving
  <2>2. CASE Waiting
    BY <1>2, <2>2, CountsKeepTypes DEF Waiting
  <2>3. CASE CpuReset
    BY <1>2, <2>3 DEF CpuReset, CounterTypes, SinceReset
  <2>4. CASE Quiet
    BY <1>2, <2>4 DEF Quiet, counters, CounterTypes
  <2> QED BY <2>1, <2>2, <2>3, <2>4, ConsoleSteps
<1>4. /\ bkpts' \in Breakpoints /\ atBkpt' \in BOOLEAN
      /\ stoppedAt' \in Words \cup {NoAddr}
  <2>1. /\ bkpts \in Breakpoints /\ atBkpt \in BOOLEAN
        /\ stoppedAt \in Words \cup {NoAddr} /\ pc \in Words
    BY DEF CpuTypeOK, TypeOK
  <2>2. CASE UNCHANGED cpuVars
    BY <2>1, <2>2 DEF cpuVars
  <2>3. CASE ResetCommand
    BY <2>1, <2>3 DEF ResetCommand, CpuReset
  <2>4. CASE SetBreakpointCommand
    <3>1. Behind \in Seq(Symbols)
      BY <2>4, BehindKeeps DEF SetBreakpointCommand, AtPrompt
    <3> DEFINE n == Number(Behind, 16, 0).value
    <3>2. n \in Int
      BY <3>1, NumberKeeps
    <3>3. /\ bkpts' = Append(bkpts, [num |-> Len(bkpts), addr |-> Word(n)])
          /\ UNCHANGED <<atBkpt, stoppedAt>>
      BY <2>4 DEF SetBreakpointCommand, SetBreakpoint, BreakpointAddress
    <3> HIDE DEF n
    <3>4. [num |-> Len(bkpts), addr |-> Word(n)] \in [num : Nat, addr : Words]
      BY <2>1, <3>2, WordType DEF Breakpoints
    <3> QED BY <2>1, <3>3, <3>4 DEF Breakpoints
  <2>5. CASE DeleteBreakpointCommand
    <3>1. PICK n : bkpts' = OtherBreakpoints(n) /\ UNCHANGED <<atBkpt, stoppedAt>>
      BY <2>5 DEF DeleteBreakpointCommand, DeleteBreakpoint
    <3> QED BY <2>1, <3>1, OthersAreBreakpoints
  <2>6. CASE DumpCommand
    BY <2>1, <2>6 DEF DumpCommand, DumpMemory
  <2>7. CASE Call
    BY <2>1, <2>7 DEF Call, ExecuteCycle, Stop, Pass, Die
  <2> QED BY <2>2, <2>3, <2>4, <2>5, <2>6, <2>7
          DEF ConsoleNext, consoleVars, Quit, EndOfInput, NoAction, StepCommand,
              ContinueCommand
<1> QED BY <1>1, <1>3, <1>4 DEF CpuTypeOK, TypeInv, CounterTypes

(* What the commands leave of the input and of the console's own state.    *)
LEMMA ConsoleKeepsTypes == ConsoleTypeInv /\ [ConsoleNext]_consoleVars => ConsoleTypeInv'
<1> SUFFICES ASSUME ConsoleTypeInv, [ConsoleNext]_consoleVars
             PROVE  ConsoleTypeInv'
  OBVIOUS
<1>1. CpuTypeOK' /\ TypeInv'
  BY CpuKeepsTypes DEF ConsoleTypeInv, ConsoleTypeOK
<1>2. /\ input \in Seq(Symbols) /\ base \in {10, 16} /\ mode \in Modes
      /\ todo \in Int /\ typed \in Int /\ calls \in Int
  BY DEF ConsoleTypeInv, ConsoleTypeOK
<1>3. ASSUME NEW s \in Seq(Symbols), Finish(s)
      PROVE  /\ input' \in Seq(Symbols) /\ mode' \in Modes
             /\ todo' \in Int /\ typed' \in Int /\ calls' \in Int
  BY <1>2, <1>3, LineDroppedKeeps DEF Finish, Modes
<1>4. Skipped(input) # <<>> => Behind \in Seq(Symbols)
  BY <1>2, BehindKeeps
<1>5. /\ input' \in Seq(Symbols) /\ base' \in {10, 16} /\ mode' \in Modes
      /\ todo' \in Int /\ typed' \in Int /\ calls' \in Int
  <2>1. CASE UNCHANGED consoleVars
    BY <1>2, <2>1 DEF consoleVars
  <2>2. CASE Quit \/ EndOfInput
    BY <1>2, <2>2 DEF Quit, EndOfInput, Modes
  <2>3. CASE NoAction \/ ResetCommand
    BY <1>2, <1>3, <1>4, <2>3 DEF NoAction, ResetCommand, AtPrompt
  <2>4. CASE SetBreakpointCommand
    <3>1. Number(Behind, 16, 0).rest \in Seq(Symbols)
      BY <1>4, <2>4, NumberKeeps DEF SetBreakpointCommand, AtPrompt
    <3> QED BY <1>3, <2>4, <3>1 DEF SetBreakpointCommand
  <2>5. CASE DeleteBreakpointCommand
    <3>1. PICK junk : Finish(Number(Behind, base, junk).rest)
      BY <2>5 DEF DeleteBreakpointCommand
    <3>2. Number(Behind, base, junk).rest \in Seq(Symbols)
      BY <1>4, <2>5, NumberKeeps DEF DeleteBreakpointCommand, AtPrompt
    <3> QED BY <1>2, <1>3, <2>5, <3>1, <3>2 DEF DeleteBreakpointCommand
  <2>6. CASE DumpCommand
    <3> DEFINE start == Number(Behind, 16, 0)
               stop == NumberAfter(start, 16, 0)
    <3>1. start.rest \in Seq(Symbols)
      BY <1>4, <2>6, NumberKeeps DEF DumpCommand, DumpMemory, AtPrompt
    <3>2. stop.rest \in Seq(Symbols)
      <4>1. stop.rest \in {Number(start.rest, 16, 0).rest, start.rest}
        BY DEF NumberAfter, Number
      <4> QED BY <3>1, <4>1, NumberKeeps
    <3>3. base' = 16 /\ (Finish(stop.rest) \/ UNCHANGED <<input, mode, todo, typed, calls>>)
      BY <2>6 DEF DumpCommand, DumpMemory
    <3> HIDE DEF start, stop
    <3> QED BY <1>2, <1>3, <3>2, <3>3
  <2>7. CASE StepCommand
    <3>1. Behind \in Seq(Symbols)
      BY <1>4, <2>7 DEF StepCommand, AtPrompt
    <3>2. /\ Number(Behind, base, 0).rest \in Seq(Symbols)
          /\ Number(Behind, base, 0).value \in Int
      BY <3>1, NumberKeeps
    <3>3. TypedNumber \in Int
      BY NumbersAssumption DEF TypedNumber
    <3> QED BY <1>2, <2>7, <3>2, <3>3, LineDroppedKeeps DEF StepCommand, Modes
  <2>8. CASE ContinueCommand
    BY <1>2, <1>4, <2>8, LineDroppedKeeps DEF ContinueCommand, AtPrompt, Modes
  <2>9. CASE Call
    BY <1>2, <2>9 DEF Call, Modes
  <2> QED BY <2>1, <2>2, <2>3, <2>4, <2>5, <2>6, <2>7, <2>8, <2>9 DEF ConsoleNext
<1> QED BY <1>1, <1>5 DEF ConsoleTypeInv, ConsoleTypeOK

(* The types at first.                                                     *)
LEMMA TypesAtFirst == ConsoleInit => ConsoleTypeInv
<1> SUFFICES ASSUME ConsoleInit PROVE ConsoleTypeInv
  OBVIOUS
<1>1. TypeInv
  BY InitType DEF ConsoleInit, CpuInit
<1>2. CpuTypeOK
  <2>1. TypeOK /\ atBkpt \in BOOLEAN /\ stoppedAt \in Words \cup {NoAddr}
    BY <1>1 DEF ConsoleInit, CpuInit, TypeInv
  <2>2. bkpts \in Breakpoints
    BY DEF ConsoleInit, CpuInit, Breakpoints
  <2>3. CounterTypes
    BY DEF ConsoleInit, CpuInit, CounterTypes, SinceReset
  <2> QED BY <2>1, <2>2, <2>3 DEF CpuTypeOK, CounterTypes
<1> QED BY <1>1, <1>2, ScriptsAssumption
        DEF ConsoleInit, ConsoleTypeInv, ConsoleTypeOK, Modes

(* Whatever is typed, the console, the breakpoints and the statistics stay *)
(* in their ranges.                                                        *)
THEOREM ConsoleTypes == ConsoleSpec => []ConsoleTypeOK
<1>1. ConsoleTypeInv => ConsoleTypeOK
  BY DEF ConsoleTypeInv
<1> QED BY <1>1, TypesAtFirst, ConsoleKeepsTypes, PTL DEF ConsoleSpec
-----------------------------------------------------------------------------
(* No number stands on a line of its own behind an "s".                    *)
NumbersInLines == \A t \in Scripts : NumbersInLine(t)

(* Then what is read behind an "s" in base 10 is what is written there.    *)
LEMMA ReadAsTyped ==
  ASSUME input \in Seq(Symbols), NumbersInLine(input), AtPrompt("s")
  PROVE  Number(Behind, 10, 0).value = TypedNumber
<1> DEFINE t == Skipped(input)
           u == Behind
           v == Skipped(u)
<1>1. /\ t \in Seq(Symbols) /\ t # <<>> /\ NumbersInLine(t) /\ Head(t) = "s"
      /\ u = Tail(t)
  BY SkippedKeeps DEF AtPrompt, Behind
<1>2. /\ u \in Seq(Symbols) /\ Len(t) \in Nat /\ Len(u) = Len(t) - 1
      /\ t[1] = "s" /\ \A i \in 1 .. Len(u) : u[i] = t[i + 1]
  BY <1>1, HeadTailProperties
<1>3. Number(u, 10, 0).value =
        IF v = <<>> \/ Head(v) \notin DOMAIN Decimal THEN 0 ELSE Decimal[Head(v)]
  BY DEF Number
<1>4. TypedNumber = IF u # <<>> /\ Head(u) \in DOMAIN Decimal
                    THEN Decimal[Head(u)] ELSE 0
  BY DEF TypedNumber
<1>5. v # <<>> => \E i \in 1 .. Len(u) :
                    /\ v = From(u, i) /\ u[i] # EndOfLine
                    /\ \A j \in 1 .. i - 1 : u[j] = EndOfLine
  BY <1>2, SkippedKeeps
<1>6. EndOfLine \notin DOMAIN Decimal
  BY NumbersAssumption
<1> HIDE DEF t, u, v
<1>7. CASE v = <<>>
  <2>1. u = <<>> \/ Head(u) \notin DOMAIN Decimal
    <3>1. u # <<>> => u[1] = EndOfLine /\ Head(u) = u[1]
      BY <1>2, <1>7, SkippedNothing DEF v
    <3> QED BY <1>6, <3>1
  <2> QED BY <1>3, <1>4, <1>7, <2>1 DEF u
<1>8. CASE v # <<>>
  <2>1. PICK i \in 1 .. Len(u) : /\ v = From(u, i) /\ u[i] # EndOfLine
                                 /\ \A j \in 1 .. i - 1 : u[j] = EndOfLine
    BY <1>5, <1>8
  <2>2. Head(v) = u[i] /\ u # <<>> /\ Head(u) = u[1]
    <3>1. Len(v) = Len(u) - i + 1 /\ v[1] = u[i]
      <4>1. i \in 1 .. Len(u) + 1 /\ 1 \in 1 .. Len(u) - i + 1 /\ i + 1 - 1 = i
        BY <1>2, <2>1
      <4>2. /\ Len(From(u, i)) = Len(u) - i + 1
            /\ \A j \in 1 .. Len(u) - i + 1 : From(u, i)[j] = u[i + j - 1]
        BY <1>2, <4>1, FromKeeps
      <4>3. From(u, i)[1] = u[i + 1 - 1]
        BY <4>1, <4>2
      <4> QED BY <2>1, <4>1, <4>2, <4>3
    <3>2. v \in Seq(Symbols)
      BY <1>2, SkippedKeeps DEF v
    <3> QED BY <1>2, <1>8, <2>1, <3>1, <3>2
  <2>3. CASE i = 1
    BY <1>3, <1>4, <1>8, <2>2, <2>3 DEF u
  <2>4. CASE i # 1
    <3>1. u[1] = EndOfLine
      BY <2>1, <2>4
    <3>2. u[i] \notin DOMAIN Decimal
      <4> DEFINE k == i + 1
      <4>1. k \in DOMAIN t /\ 1 \in DOMAIN t /\ 1 + 1 < k /\ t[k] = u[i]
        BY <1>1, <1>2, <2>1, <2>4
      <4>2. ASSUME NEW j \in 1 + 1 .. k - 1 PROVE t[j] = EndOfLine
        <5>1. j - 1 \in 1 .. i - 1 /\ j - 1 \in 1 .. Len(u) /\ (j - 1) + 1 = j
          BY <1>2, <2>1
        <5> QED BY <1>2, <2>1, <5>1
      <4> HIDE DEF k
      <4> QED BY <1>1, <1>2, <4>1, <4>2 DEF NumbersInLine
    <3> QED BY <1>3, <1>4, <1>6, <1>8, <2>2, <3>1, <3>2 DEF u
  <2> QED BY <2>3, <2>4
<1> QED BY <1>7, <1>8

(* While a step command runs: the calls made and those to come.            *)
StepsInv ==
  /\ ConsoleTypeInv
  /\ NumbersInLine(input)
  /\ mode = "stepping" /\ base = 10 => calls + todo = typed

(* The input stays one that is typed like that.                            *)
LEMMA InputKeepsLines ==
  ASSUME StepsInv, [ConsoleNext]_consoleVars
  PROVE  NumbersInLine(input')
<1>1. /\ input \in Seq(Symbols) /\ NumbersInLine(input)
  BY DEF StepsInv, ConsoleTypeInv, ConsoleTypeOK
<1>2. Skipped(input) # <<>> => Behind \in Seq(Symbols) /\ NumbersInLine(Behind)
  BY <1>1, BehindKeeps
<1>3. ASSUME NEW s \in Seq(Symbols), NumbersInLine(s), input' = LineDropped(s)
      PROVE  NumbersInLine(input')
  BY <1>3, LineDroppedKeeps
<1>4. CASE UNCHANGED input
  BY <1>1, <1>4
<1>5. CASE NoAction \/ ResetCommand \/ ContinueCommand
  <2>1. Skipped(input) # <<>> /\ input' = LineDropped(Behind)
    BY <1>5 DEF NoAction, ResetCommand, ContinueCommand, AtPrompt, Finish
  <2> QED BY <1>2, <1>3, <2>1
<1>6. ASSUME NEW b, NEW old, Skipped(input) # <<>>,
             input' = LineDropped(Number(Behind, b, old).rest)
      PROVE  NumbersInLine(input')
  <2>1. /\ Number(Behind, b, old).rest \in Seq(Symbols)
        /\ NumbersInLine(Number(Behind, b, old).rest)
    BY <1>2, <1>6, NumberKeeps
  <2> QED BY <1>3, <1>6, <2>1
<1>7. CASE SetBreakpointCommand \/ DeleteBreakpointCommand \/ StepCommand
  <2>1. Skipped(input) # <<>>
    BY <1>7 DEF SetBreakpointCommand, DeleteBreakpointCommand, StepCommand, AtPrompt
  <2>2. PICK b, old : input' = LineDropped(Number(Behind, b, old).rest)
    BY <1>7 DEF SetBreakpointCommand, DeleteBreakpointCommand, StepCommand, Finish
  <2> QED BY <1>6, <2>1, <2>2
<1>8. CASE DumpCommand
  <2> DEFINE start == Number(Behind, 16, 0)
             stop == NumberAfter(start, 16, 0)
  <2>1. start.rest \in Seq(Symbols) /\ NumbersInLine(start.rest)
    BY <1>2, <1>8, NumberKeeps DEF DumpCommand, DumpMemory, AtPrompt
  <2>2. stop.rest \in Seq(Symbols) /\ NumbersInLine(stop.rest)
    <3>1. stop.rest \in {Number(start.rest, 16, 0).rest, start.rest}
      BY DEF NumberAfter, Number
    <3>2. /\ Number(start.rest, 16, 0).rest \in Seq(Symbols)
          /\ NumbersInLine(Number(start.rest, 16, 0).rest)
      BY <2>1, NumberKeeps
    <3> HIDE DEF start, stop
    <3> QED BY <2>1, <3>1, <3>2
  <2>3. input' = LineDropped(stop.rest) \/ input' = input
    BY <1>8 DEF DumpCommand, DumpMemory, Finish
  <2> HIDE DEF start, stop
  <2> QED BY <1>1, <1>3, <2>2, <2>3
<1> QED BY <1>4, <1>5, <1>7, <1>8
        DEF ConsoleNext, consoleVars, Quit, EndOfInput, Call

(* A step command sets out to make the calls typed, and each call is       *)
(* counted.                                                                *)
LEMMA StepsKept ==
  ASSUME StepsInv, [ConsoleNext]_consoleVars
  PROVE  StepsInv'
<1>1. ConsoleTypeInv' /\ NumbersInLine(input')
  BY ConsoleKeepsTypes, InputKeepsLines DEF StepsInv
<1>2. /\ input \in Seq(Symbols) /\ NumbersInLine(input)
      /\ todo \in Int /\ typed \in Int /\ calls \in Int
      /\ (mode = "stepping" /\ base = 10 => calls + todo = typed)
  BY DEF StepsInv, ConsoleTypeInv, ConsoleTypeOK
<1>3. mode' = "stepping" /\ base' = 10 => calls' + todo' = typed'
  <2> SUFFICES ASSUME mode' = "stepping", base' = 10
               PROVE  calls' + todo' = typed'
    OBVIOUS
  <2>1. CASE UNCHANGED consoleVars
    BY <1>2, <2>1 DEF consoleVars
  <2>2. CASE StepCommand
    <3>1. /\ AtPrompt("s") /\ base = 10 /\ calls' = 0 /\ typed' = TypedNumber
          /\ todo' = Number(Behind, base, 0).value
      BY <2>2 DEF StepCommand
    <3>2. todo' = typed'
      BY <1>2, <3>1, ReadAsTyped
    <3>3. todo' \in Int
      BY <1>1 DEF ConsoleTypeInv, ConsoleTypeOK
    <3> QED BY <3>1, <3>2, <3>3
  <2>3. CASE Call
    <3>1. mode = "stepping" /\ base = 10
      BY <2>3 DEF Call
    <3> QED BY <1>2, <2>3, <3>1 DEF Call
  <2>4. CASE Quit \/ EndOfInput \/ ContinueCommand
    BY <2>4 DEF Quit, EndOfInput, ContinueCommand
  <2>5. CASE NoAction \/ ResetCommand \/ SetBreakpointCommand
             \/ DeleteBreakpointCommand \/ DumpCommand
    <3>1. mode' = "prompt" \/ base' = 16
      BY <2>5 DEF NoAction, ResetCommand, SetBreakpointCommand,
                  DeleteBreakpointCommand, DumpCommand, DumpMemory, Finish
    <3> QED BY <3>1
  <2> QED BY <2>1, <2>2, <2>3, <2>4, <2>5 DEF ConsoleNext
<1> QED BY <1>1, <1>3 DEF StepsInv

(* A step command makes the calls typed, no more and no less, unless a     *)
(* breakpoint ends it.                                                     *)
THEOREM StepsCount == NumbersInLines => (ConsoleSpec => StepsAsTyped)
<1> SUFFICES ASSUME NumbersInLines PROVE ConsoleSpec => StepsAsTyped
  OBVIOUS
<1>1. ConsoleInit => StepsInv
  BY TypesAtFirst DEF StepsInv, NumbersInLines, ConsoleInit
<1>2. ASSUME StepsInv, [ConsoleNext]_consoleVars,
             mode = "stepping", mode' = "prompt", base = 10
      PROVE  calls' = typed \/ atBkpt'
  <2>1. Call
    BY <1>2 DEF ConsoleNext, consoleVars, Quit, EndOfInput, NoAction, ResetCommand,
                SetBreakpointCommand, DeleteBreakpointCommand, DumpCommand, DumpMemory,
                StepCommand, ContinueCommand, AtPrompt
  <2>2. CASE atBkpt'
    BY <2>2
  <2>3. CASE ~atBkpt'
    <3>1. todo = 1 /\ calls' = calls + 1
      BY <1>2, <2>1, <2>3 DEF Call, LastStep
    <3> QED BY <1>2, <3>1 DEF StepsInv
  <2> QED BY <2>2, <2>3
<1>3. StepsInv /\ [ConsoleNext]_consoleVars
        => [(mode = "stepping" /\ mode' = "prompt" /\ base = 10)
              => (calls' = typed \/ atBkpt')]_consoleVars
  BY <1>2
<1>4. StepsInv /\ [ConsoleNext]_consoleVars => StepsInv'
  BY StepsKept
<1> QED BY <1>1, <1>3, <1>4, PTL DEF ConsoleSpec, StepsAsTyped
=============================================================================
