-------------------------------- MODULE Cpu --------------------------------
(***************************************************************************)
(* The CPU around the pipeline: breakpoints, the cycle counter and the     *)
(* counters of the pipeline and of both hazard units; of the latter, the    *)
(* delays, as hazards_detected_ is only printed.  One call of               *)
(* CPU::ExecuteCycle either stops at a breakpoint, and then nothing moves, *)
(* or is one cycle of the pipeline.                                        *)
(*                                                                         *)
(* since and stoppedAt are history: what has happened since the last reset *)
(* and where the last call stopped.  No action reads them.                 *)
(***************************************************************************)
EXTENDS Pipeline, FiniteSets

VARIABLES
  bkpts,         \* bkpts_: numbers and addresses, oldest first
  atBkpt,        \* at_bkpt_
  cycles,        \* cycle_counter_ of the CPU
  completed,     \* instructions_completed_
  dataDelay,     \* delay_added_ of the data hazard unit
  ctlDelay,      \* delay_added_ of the control hazard unit
  since,         \* history: see SinceReset
  stoppedAt      \* history: the address of a stop that no cycle has followed

counters == <<cycles, completed, dataDelay, ctlDelay>>
cpuVars == <<vars, bkpts, atBkpt, counters, since, stoppedAt>>

Breakpoints == Seq([num : Nat, addr : Words])

(* Since the last reset: instructions past their memory access, and cycles *)
(* spent waiting; and the delays that it left in the units' counters.      *)
SinceReset == [ran : Nat, waited : Nat, left : Nat]

CpuTypeOK ==
  /\ TypeOK
  /\ bkpts \in Breakpoints
  /\ atBkpt \in BOOLEAN
  /\ {cycles, completed, dataDelay, ctlDelay} \subseteq Nat
  /\ since \in SinceReset
  /\ stoppedAt \in Words \cup {NoAddr}

CpuInit ==
  /\ Init
  /\ bkpts = <<>> /\ atBkpt = FALSE
  /\ cycles = 0 /\ completed = 0
  /\ dataDelay = 0 /\ ctlDelay = 0
  /\ since = [ran |-> 0, waited |-> 0, left |-> 0]
  /\ stoppedAt = NoAddr
-----------------------------------------------------------------------------
(* Fault: an instruction counts when it is executed, flushed or not.       *)
CompletesEarly == InstructionType[Shifted[ExecuteStage].ins.op] # "NoType"

(* The instruction that has just been written back is counted.             *)
Completes == InstructionType[Shifted[WriteBackStage].ins.op] # "NoType"

(* Fault: the instruction still being fetched is forgotten.                *)
FlushPenaltyShort == 2

FlushPenalty == 3

One(condition) == IF condition THEN 1 ELSE 0

CountDelays ==
  LET done == StagesRun(LoadedWord)
      ctl  == AfterControlHazard(done)
      flow == One(ChangesFlow(done[MemoryAccessStage]))
  IN  /\ ctlDelay' = ctlDelay + flow * FlushPenalty
      /\ dataDelay' = dataDelay + LoadDelays(ctl[DecodeStage], ctl[ExecuteStage])

Move ==
  /\ Advance
  /\ completed' = completed + One(Completes)
  /\ CountDelays
  /\ since' = [since EXCEPT !.ran = @ + One(MemoryDue.addr # NoAddr)]

Hold ==
  /\ Wait
  /\ since' = [since EXCEPT !.waited = @ + 1]
  /\ UNCHANGED <<completed, dataDelay, ctlDelay>>

BreakpointHere == \E i \in DOMAIN bkpts : bkpts[i].addr = pc

(* The call that meets a breakpoint runs no cycle; the one after it does,  *)
(* wherever it is made.                                                    *)
Stop ==
  /\ Running
  /\ ~atBkpt /\ BreakpointHere
  /\ atBkpt' = TRUE
  /\ stoppedAt' = pc
  /\ UNCHANGED <<vars, bkpts, counters, since>>

Pass ==
  /\ atBkpt \/ ~BreakpointHere
  /\ Move \/ Hold
  /\ atBkpt' = FALSE
  /\ cycles' = cycles + 1
  /\ stoppedAt' = NoAddr
  /\ UNCHANGED bkpts

Die ==
  /\ atBkpt \/ ~BreakpointHere
  /\ Abort
  /\ UNCHANGED <<bkpts, atBkpt, counters, since, stoppedAt>>

(* One call of CPU::ExecuteCycle.                                          *)
ExecuteCycle == Stop \/ Pass \/ Die

(* CPU::Reset: at_bkpt_ and the hazard units' counters keep their values.  *)
CpuReset ==
  /\ Reset
  /\ cycles' = 0 /\ completed' = 0
  /\ UNCHANGED <<bkpts, atBkpt, dataDelay, ctlDelay>>
  /\ since' = [ran |-> 0, waited |-> 0, left |-> dataDelay' + ctlDelay']
  /\ stoppedAt' = NoAddr

(* A breakpoint's number is the length of the list at its insertion.       *)
SetBreakpoint(a) ==
  /\ bkpts' = Append(bkpts, [num |-> Len(bkpts), addr |-> a])
  /\ UNCHANGED <<vars, atBkpt, counters, since, stoppedAt>>

(* The breakpoints with other numbers, in their order: number j of them has*)
(* j of them up to its place in the list.                                  *)
OtherBreakpoints(n) ==
  LET others == {i \in DOMAIN bkpts : bkpts[i].num # n}
      At(j)  == CHOOSE i \in others : Cardinality(others \cap (1 .. i)) = j
  IN  [j \in 1 .. Cardinality(others) |-> bkpts[At(j)]]

(* Every breakpoint with the number goes.                                  *)
DeleteBreakpoint(n) ==
  /\ bkpts' = OtherBreakpoints(n)
  /\ UNCHANGED <<vars, atBkpt, counters, since, stoppedAt>>
-----------------------------------------------------------------------------
(* instructions_completed_ lags behind the program by the one instruction  *)
(* that is not written back yet.                                           *)
Pending == queue[LastPending + 1].ins

R == INSTANCE Retirement
       WITH pc <- ArchPc, regs <- ArchRegs,
            count <- completed + One(InstructionType[Pending.op] # "NoType")

(* "Instructions Executed" counts every instruction the program has run,   *)
(* once: none that was flushed, no bubble and, behind a delay or a stop,   *)
(* none twice; and breakpoints, steps and resets change nothing else in    *)
(* what the program does.                                                  *)
CountsRetired == R!CountedSpec

(* Instructions that have been fetched and not had their memory access.    *)
Fetched(i) == One(i <= LastPending /\ queue[i].addr # NoAddr)

UnderWay == Fetched(1) + Fetched(2) + Fetched(3) + Fetched(4)

(* Every cycle since the last reset was spent waiting for a memory, or on  *)
(* an instruction that has run or is on its way, or is one of delays.      *)
SpentOn(delays) ==
  cycles = since.waited + since.ran + UnderWay + delays - One(delay)

(* The statistics add up as they are printed, side by side.                *)
PrintedCyclesAddUp == SpentOn(ctlDelay + dataDelay)

(* The statistics as they are printed account for every cycle: no stop, no *)
(* dropped or flushed instruction and no delay is counted twice or not at  *)
(* all. They do so until a reset leaves delays of the run before it in the *)
(* hazard units' counters, in spite of the help of r ("Completely reset the*)
(* simulation"): from then on cycles and delays are of different runs.     *)
CyclesExplained == since.left = 0 => PrintedCyclesAddUp

(* The program "reaches" a breakpoint's address when it is fetched from    *)
(* there, and execution pauses first (the help of br: "Pause execution when*)
(* program reaches breakpoint address"), also when it has been reset since *)
(* an earlier stop.                                                        *)
BreakpointsStop ==
  [][(Move /\ ~delay /\ BreakpointHere) => stoppedAt = pc]_cpuVars

(* Deleting a breakpoint removes one at most (the help of del: "Remove     *)
(* specified breakpoint").                                                 *)
DeletesOne == [][Len(bkpts') >= Len(bkpts) - 1]_cpuVars
=============================================================================
