------------------------------ MODULE Pipeline ------------------------------
(***************************************************************************)
(* The pipelined CPU: CPU::ExecuteCycle with the pipeline, the register    *)
(* file, the program counter and both hazard units, over an instruction    *)
(* memory and a data memory that answer at once and report a latency.      *)
(*                                                                         *)
(* One cycle is one step.  It pops the oldest instruction, fetches (unless *)
(* a load delay was inserted), runs the stages from write back down to     *)
(* fetch on the same queue, and then lets the control and the data hazard  *)
(* unit flush, forward and delay.  A failed CHECK and the use of the       *)
(* factory's nullptr end the process: status becomes "aborted".            *)
(*                                                                         *)
(* The queue is 1-based here: queue[MemoryAccessStage] is                  *)
(* Instruction(Stages::MemoryAccessStage).                                 *)
(***************************************************************************)
EXTENDS Instructions, Sequences

CONSTANTS
  Images,      \* the programs the instruction memory may hold
  Latencies,   \* the access latencies the memories may report
  MaxDepth     \* bound: no reset once the queue is this long

ASSUME ImagesAssumption == \A m \in Images : IsProgram(m)
ASSUME LatenciesAssumption == Latencies # {} /\ Latencies \subseteq Nat
ASSUME MaxDepthAssumption == MaxDepth \in Nat

VARIABLES
  imem,      \* instr_mem_: the loaded program, constant
  pc,        \* instruction_pointer_
  regs,      \* registers_
  dmem,      \* data_mem_, one word per cell
  queue,     \* instruction_queue_
  delay,     \* delay_inserted_
  lat,       \* latency_counter_
  status     \* "running" or "aborted"

vars == <<imem, pc, regs, dmem, queue, delay, lat, status>>

NumStages == 5
FetchStage == 1
DecodeStage == 2
ExecuteStage == 3
MemoryAccessStage == 4
WriteBackStage == 5

NoAddr == -1

(* An instruction object: the instruction, the private copies of its       *)
(* registers, the address or target it computed and its branch_ flag.      *)
(* addr is a history field, the address it was fetched from; the code does *)
(* not keep it and no action reads it.                                     *)
Slots == [ins : Instrs, addr : Words \cup {NoAddr}, rd : Words,
          v1 : Words, v2 : Words, ea : Words, branch : BOOLEAN]

NewSlot(ins, a) ==
  [ins |-> ins, addr |-> a, rd |-> 0, v1 |-> 0, v2 |-> 0, ea |-> 0,
   branch |-> FALSE]

Bubble == NewSlot(Nop, NoAddr)

TypeOK ==
  /\ IsProgram(imem)
  /\ pc \in Words
  /\ regs \in [Regs -> Words]
  /\ dmem \in [DataAddrs -> Words]
  /\ queue \in Seq(Slots)
  /\ Len(queue) >= NumStages
  /\ delay \in BOOLEAN
  /\ lat \in Nat
  /\ status \in {"running", "aborted"}

ZeroRegs == [r \in Regs |-> 0]

Init ==
  /\ imem \in Images
  /\ pc = 0
  /\ regs = ZeroRegs
  /\ dmem = [a \in DataAddrs |-> 0]
  /\ queue = [i \in 1 .. NumStages |-> Bubble]
  /\ delay = FALSE
  /\ lat = 0
  /\ status = "running"
-----------------------------------------------------------------------------
(* pop_back                                                                *)
Popped(q) == [i \in 1 .. Len(q) - 1 |-> q[i]]

(* push_front                                                              *)
Pushed(q, s) == [i \in 1 .. Len(q) + 1 |-> IF i = 1 THEN s ELSE q[i - 1]]

(* Flush(stage)                                                            *)
Flushed(q, stage) == [i \in 1 .. Len(q) |-> IF i <= stage THEN Bubble ELSE q[i]]

(* InsertDelay(stage), n times                                             *)
Delayed(q, stage, n) ==
  [i \in 1 .. Len(q) + n |-> IF i < stage THEN q[i]
                             ELSE IF i < stage + n THEN Bubble
                             ELSE q[i - n]]

(* Decode re-reads every register into the object's private copies.        *)
Decoded(s, rf) ==
  [s EXCEPT !.rd = IF WritesToRd(s.ins) THEN rf[s.ins.rd] ELSE 0,
            !.v1 = IF ReadsFromRs1(s.ins) THEN rf[s.ins.rs1] ELSE 0,
            !.v2 = IF ReadsFromRs2(s.ins) THEN rf[s.ins.rs2] ELSE 0]

Executed(s, p) ==
  [s EXCEPT !.rd = IF Computes(s.ins) THEN Computed(s.ins, s.v1, s.v2, p) ELSE @,
            !.ea = IF s.ins.op \in {"lw", "sw", "jalr"}
                   THEN Address(s.ins, s.v1) ELSE @,
            !.branch = WillBranch(s.ins, s.v1, s.v2)]

IsMemoryAccess(s) == s.ins.op \in {"lw", "sw"}

(* A load keeps the word the data memory returned.                         *)
MemoryAccessed(s, word) == [s EXCEPT !.rd = IF s.ins.op = "lw" THEN word ELSE @]

(* The signed program counter after the instruction's memory access.       *)
NextPc(s, p) ==
  CASE s.ins.op = "jal" \/ s.branch -> BranchOffset(p, s.ins.imm)
    [] s.ins.op = "jalr" -> Jump(s.ea)
    [] OTHER -> p
-----------------------------------------------------------------------------
(* The hazard units, on the queue the stages left behind.                  *)
ChangesFlow(s) == s.branch \/ s.ins.op \in {"jal", "jalr"}

(* Fault: the instruction in its execute stage is left in the pipeline.    *)
AfterShortFlush(q) ==
  IF ChangesFlow(q[MemoryAccessStage]) THEN Flushed(q, DecodeStage) ELSE q

AfterControlHazard(q) ==
  IF ChangesFlow(q[MemoryAccessStage]) THEN Flushed(q, ExecuteStage) ELSE q

(* from writes the register that to reads as rs1, respectively as rs2.     *)
FeedsRs1(from, to) == /\ WritesToRd(from.ins) /\ ReadsFromRs1(to.ins)
                      /\ from.ins.rd = to.ins.rs1 /\ from.ins.rd # 0
FeedsRs2(from, to) == /\ WritesToRd(from.ins) /\ ReadsFromRs2(to.ins)
                      /\ from.ins.rd = to.ins.rs2 /\ from.ins.rd # 0

(* HandleLoadHazard inserts one delay for rs1 and one for rs2.             *)
LoadDelays(dec, ex) ==
  IF ex.ins.op # "lw" THEN 0
  ELSE (IF FeedsRs1(ex, dec) THEN 1 ELSE 0) + (IF FeedsRs2(ex, dec) THEN 1 ELSE 0)

Forwarded(dec, from) ==
  [dec EXCEPT !.v1 = IF FeedsRs1(from, dec) THEN from.rd ELSE @,
              !.v2 = IF FeedsRs2(from, dec) THEN from.rd ELSE @]

(* Fault: the older value wins.                                            *)
AfterDataHazardReversed(q) ==
  LET ex      == q[ExecuteStage]
      forward == Forwarded(Forwarded(q[DecodeStage], ex), q[MemoryAccessStage])
  IN  Delayed([q EXCEPT ![DecodeStage] = forward], ExecuteStage,
              LoadDelays(q[DecodeStage], ex))

(* The load delay, then the 1b hazard (from the memory access), then the   *)
(* 1a hazard (from execute), which wins.                                   *)
AfterDataHazard(q) ==
  LET ex      == q[ExecuteStage]
      forward == Forwarded(Forwarded(q[DecodeStage], q[MemoryAccessStage]), ex)
  IN  Delayed([q EXCEPT ![DecodeStage] = forward], ExecuteStage,
              LoadDelays(q[DecodeStage], ex))
-----------------------------------------------------------------------------
(* Fault: a fetch in spite of a pending delay.                             *)
ShiftedIgnoringDelay == Pushed(Popped(queue), NewSlot(imem[pc], pc))

(* The queue and the program counter when the stages start.                *)
Shifted == IF delay THEN Popped(queue)
           ELSE Pushed(Popped(queue), NewSlot(imem[pc], pc))

FetchedPc == IF delay THEN pc ELSE Word(pc + InstrBytes)

(* The instruction whose memory access is due in the next moving cycle.    *)
(* A pending delay has already moved it up.                                *)
MemoryDue == queue[IF delay THEN MemoryAccessStage ELSE ExecuteStage]

FetchFaults == ~delay /\ (pc \in DOMAIN imem => imem[pc].op = "bad")

(* Fault: a jump to address 0 fails the check.                             *)
MemoryFaultsAtZero ==
  IF IsMemoryAccess(MemoryDue) THEN MemoryDue.ea \notin DataAddrs
  ELSE NextPc(MemoryDue, FetchedPc) <= 0

MemoryFaults ==
  IF IsMemoryAccess(MemoryDue) THEN MemoryDue.ea \notin DataAddrs
  ELSE NextPc(MemoryDue, FetchedPc) < 0

Running == status = "running"

(* The register file after the oldest instruction's write back, and the    *)
(* program counter after the memory access.                                *)
WrittenRegs ==
  LET old == Shifted[WriteBackStage]
  IN  IF WritesToRd(old.ins) THEN Written(regs, old.ins.rd, old.rd) ELSE regs

MovedPc == Word(NextPc(Shifted[MemoryAccessStage], FetchedPc))

(* The queue when all stages have run and a load has returned word.        *)
StagesRun(word) ==
  [Shifted EXCEPT ![MemoryAccessStage] = MemoryAccessed(@, word),
                  ![ExecuteStage] = Executed(@, MovedPc),
                  ![DecodeStage] = Decoded(@, WrittenRegs)]

(* What a moving cycle does to everything but the memories, when a load    *)
(* returns word, the fetch takes fetchLat and a memory access memLat.  The *)
(* control unit's queue is bound once: the data unit reads it many times.  *)
Moves(word, fetchLat, memLat) ==
  LET f == IF delay THEN 0 ELSE fetchLat
      m == IF IsMemoryAccess(MemoryDue) THEN memLat ELSE 0
  IN  \E ctl \in {AfterControlHazard(StagesRun(word))} :
        /\ pc' = MovedPc
        /\ regs' = WrittenRegs
        /\ queue' = AfterDataHazard(ctl)
        /\ delay' = (LoadDelays(ctl[DecodeStage], ctl[ExecuteStage]) > 0)
        /\ lat' = IF f > m THEN f ELSE m

LoadedWord == IF MemoryDue.ins.op = "lw" THEN dmem[MemoryDue.ea] ELSE 0

(* A cycle in which the pipeline moves (latency_counter_ is 0).            *)
Advance ==
  /\ Running /\ lat = 0
  /\ ~FetchFaults /\ ~MemoryFaults
  /\ \E fetchLat \in Latencies, memLat \in Latencies :
       Moves(LoadedWord, fetchLat, memLat)
  /\ dmem' = IF MemoryDue.ins.op = "sw" THEN [dmem EXCEPT ![MemoryDue.ea] = MemoryDue.v2]
             ELSE dmem
  /\ UNCHANGED <<imem, status>>

(* Fault: the latency counter is not counted down.                         *)
WaitForever ==
  /\ Running /\ lat > 0
  /\ UNCHANGED vars

(* The pipeline waits for the memories; hazards are not looked at again.   *)
Wait ==
  /\ Running /\ lat > 0
  /\ lat' = lat - 1
  /\ UNCHANGED <<imem, pc, regs, dmem, queue, delay, status>>

(* The process dies in the middle of the cycle; nothing it did can be seen.*)
Abort ==
  /\ Running /\ lat = 0
  /\ FetchFaults \/ MemoryFaults
  /\ status' = "aborted"
  /\ UNCHANGED <<imem, pc, regs, dmem, queue, delay, lat>>

(* CPU::Reset between two cycles: neither the queue's length, nor the      *)
(* latency counter, nor a memory is touched.                               *)
Reset ==
  /\ Running /\ Len(queue) <= MaxDepth
  /\ pc' = 0
  /\ regs' = ZeroRegs
  /\ queue' = Flushed(queue, WriteBackStage)
  /\ delay' = FALSE
  /\ UNCHANGED <<imem, dmem, lat, status>>

Cycle == Advance \/ Wait \/ Abort

Next == Cycle \/ Reset

(* The console may reset between any two cycles.                           *)
Spec == Init /\ [][Next]_vars

(* One uninterrupted run: the console keeps stepping and never resets.     *)
RunSpec == Init /\ [][Cycle]_vars /\ WF_vars(Cycle)
-----------------------------------------------------------------------------
(* The architectural state: what the program has done so far.  The         *)
(* instruction past its memory access is done though its register is not   *)
(* written back yet; everything younger has not started.                   *)
LastPending == IF delay THEN MemoryAccessStage ELSE ExecuteStage

ArchRegs ==
  LET s == queue[LastPending + 1]
  IN  IF WritesToRd(s.ins) THEN Written(regs, s.ins.rd, s.rd) ELSE regs

ArchPc ==
  LET real == {i \in 1 .. LastPending : queue[i].addr # NoAddr}
  IN  IF real = {} THEN pc
      ELSE queue[CHOOSE i \in real : \A j \in real : j <= i].addr

A == INSTANCE Isa WITH pc <- ArchPc, regs <- ArchRegs

(* An instruction that reads one loaded register through both operands,    *)
(* right behind the load: HandleLoadHazard delays it twice.                *)
DoubleUse(ld, use) ==
  /\ ld.op = "lw" /\ ld.rd # 0
  /\ ReadsFromRs1(use) /\ use.rs1 = ld.rd
  /\ ReadsFromRs2(use) /\ use.rs2 = ld.rd

SingleUse(image) ==
  \A a \in DOMAIN image :
    Word(a + InstrBytes) \in DOMAIN image =>
      ~DoubleUse(image[a], image[Word(a + InstrBytes)])
-----------------------------------------------------------------------------
(* The pipeline runs the program as the one-at-a-time machine does: every  *)
(* cycle is one of its steps or none, whatever the latencies are, so no    *)
(* read is stale, no instruction is lost or run twice and nothing fetched  *)
(* behind a taken branch has an effect.                                    *)
ImplementsIsa == A!Spec

(* The queue has one slot per stage, and one more only while a delay is    *)
(* pending (README: "5-stage pipeline").                                   *)
QueueDepth == Len(queue) = NumStages + (IF delay THEN 1 ELSE 0)

(* Between an instruction that may change the flow and the program counter *)
(* there is no bubble: the constants of LinkOffset and PipelineOffset,     *)
(* which jal, jalr and BranchOffset count on, are exact.                   *)
MayChangeFlow(ins) == InstructionType[ins.op] \in {"BType", "JType"} \/ ins.op = "jalr"

OffsetsExact ==
  \A i \in 1 .. LastPending :
    (queue[i].addr # NoAddr /\ MayChangeFlow(queue[i].ins) /\ ~(delay /\ i > DecodeStage))
      => pc = Word(queue[i].addr + i * InstrBytes)

(* A return lands behind a call: when a jump through register r is done and*)
(* the program writes r only by calls, the next instruction follows one of *)
(* these calls, although link and jump are both off by the pipeline's depth.*)
LinkOnly(r) ==
  \A a \in DOMAIN imem : (WritesToRd(imem[a]) /\ imem[a].rd = r)
                            => imem[a].op \in {"jal", "jalr"}

JumpDone(s) == s.addr # NoAddr /\ s.ins.op = "jalr"

ReturnsToCaller ==
  LET s == queue[LastPending + 1]
  IN  (JumpDone(s) /\ s.ins.imm = 0 /\ LinkOnly(s.ins.rs1)) =>
        \E a \in DOMAIN imem : /\ imem[a].op \in {"jal", "jalr"}
                              /\ imem[a].rd = s.ins.rs1
                              /\ ArchPc = Word(a + InstrBytes)

(* A load has delivered what it loaded once its write back is over, if no  *)
(* younger store has overwritten the cell since.  It fails where SingleUse *)
(* does: behind two delays the load passes from execute to write back.     *)
LoadDelivered ==
  LET ld == queue[WriteBackStage]
      st == queue[MemoryAccessStage]
  IN  (~delay /\ ld.addr # NoAddr /\ ld.ins.op = "lw" /\ ld.ins.rd # 0) =>
        \/ regs[ld.ins.rd] = dmem[ld.ea]
        \/ st.ins.op = "sw" /\ st.ea = ld.ea

(* When the process dies, either the fetch at the program counter failed or*)
(* the program itself could not go on: a load, store or jump that was never*)
(* reached, only fetched behind a branch, kills nothing. (A word that is no*)
(* instruction does kill it there, in the fetch.)                          *)
AbortJustified == (status = "aborted") => (FetchFaults \/ ~A!CanStep)

(* An uninterrupted run goes on forever completing memory accesses, unless *)
(* the process dies: no latency, delay or flush stops it for good.         *)
Progress ==
  []<>(~Running \/ (lat = 0 /\ queue[MemoryAccessStage].addr # NoAddr))
=============================================================================
