------------------------- MODULE PipelineRefinement -------------------------
(***************************************************************************)
(* The pipeline runs every program as the machine of Isa does, one         *)
(* instruction at a time: every cycle is one of its steps or none.         *)
(*                                                                         *)
(* The argument: to the shape of the queue (StructInv) is added what its   *)
(* slots hold (DataInv). The instruction that has been executed has the    *)
(* operands the program sees; the one behind it has them too, once the     *)
(* result of the former is forwarded to it. When the former gets to its    *)
(* memory access it is then the next instruction of the program            *)
(* (DueReady), it goes where the program goes (SuccessorIs), the process   *)
(* dies only where the program cannot go on (CanStepIs), and its access    *)
(* and its result are those of a step of Isa (AdvanceSteps). A bubble      *)
(* there is a stutter (AdvanceStutters).                                   *)
(***************************************************************************)
EXTENDS PipelineProofs

(* The register file after the write back of a slot.                       *)
After(rf, s) == IF WritesToRd(s.ins) THEN Written(rf, s.ins.rd, s.rd) ELSE rf

(* The slot's copies of its operands are those of the register file rf.    *)
HasOperands(s, rf) ==
  /\ ReadsFromRs1(s.ins) => s.v1 = rf[s.ins.rs1]
  /\ ReadsFromRs2(s.ins) => s.v2 = rf[s.ins.rs2]

(* A slot that has been executed on the operands of rf. The offset 12 is   *)
(* how far the program counter is ahead of an instruction in execute.      *)
Ready(s, rf) ==
  /\ HasOperands(s, rf)
  /\ Computes(s.ins) => s.rd = Computed(s.ins, s.v1, s.v2, Word(s.addr + 12))
  /\ s.ins.op \in {"lw", "sw", "jalr"} => s.ea = Address(s.ins, s.v1)
  /\ s.branch = WillBranch(s.ins, s.v1, s.v2)

(* The copies of the slot to are those of rf once from is written back.    *)
SuppliedBy(to, from, rf) ==
  /\ ReadsFromRs1(to.ins) =>
       to.v1 = IF FeedsRs1(from, to) THEN from.rd ELSE rf[to.ins.rs1]
  /\ ReadsFromRs2(to.ins) =>
       to.v2 = IF FeedsRs2(from, to) THEN from.rd ELSE rf[to.ins.rs2]

(* What the slots hold: the oldest pending instruction is ready to take    *)
(* effect on the registers the program sees, the one behind it was         *)
(* forwarded its result.                                                   *)
DataInv ==
  /\ queue[LastPending].addr # NoAddr => Ready(queue[LastPending], ArchRegs)
  /\ ~delay => SuppliedBy(queue[DecodeStage], queue[ExecuteStage], ArchRegs)

(* The inductive invariant of the pipeline.                                *)
Inv == TypeInv /\ StructInv /\ DataInv
-----------------------------------------------------------------------------
(* A register after a write; register 0 is never written.                  *)
LEMMA WrittenAt ==
  ASSUME NEW rf \in [Regs -> Words], NEW r \in Regs, NEW data, NEW x \in Regs
  PROVE  Written(rf, r, data)[x] = IF r = x /\ r # 0 THEN data ELSE rf[x]
BY DEF Written

(* A write back keeps the register file one.                               *)
LEMMA AfterType ==
  ASSUME NEW rf \in [Regs -> Words], NEW s \in Slots
  PROVE  After(rf, s) \in [Regs -> Words]
<1>1. s.ins.rd \in Regs /\ s.rd \in Words
  BY DEF Slots, Instrs
<1> QED BY <1>1, WrittenType DEF After

(* Forwarding gives what reading after the write back would give.          *)
LEMMA AfterRead ==
  ASSUME NEW rf \in [Regs -> Words], NEW from \in Slots, NEW to \in Slots
  PROVE  /\ ReadsFromRs1(to.ins) =>
              After(rf, from)[to.ins.rs1]
                = IF FeedsRs1(from, to) THEN from.rd ELSE rf[to.ins.rs1]
         /\ ReadsFromRs2(to.ins) =>
              After(rf, from)[to.ins.rs2]
                = IF FeedsRs2(from, to) THEN from.rd ELSE rf[to.ins.rs2]
<1>1. from.ins.rd \in Regs /\ to.ins.rs1 \in Regs /\ to.ins.rs2 \in Regs
  BY DEF Slots, Instrs
<1>2. /\ Written(rf, from.ins.rd, from.rd)[to.ins.rs1]
           = IF from.ins.rd = to.ins.rs1 /\ from.ins.rd # 0
             THEN from.rd ELSE rf[to.ins.rs1]
      /\ Written(rf, from.ins.rd, from.rd)[to.ins.rs2]
           = IF from.ins.rd = to.ins.rs2 /\ from.ins.rd # 0
             THEN from.rd ELSE rf[to.ins.rs2]
  BY <1>1, WrittenAt
<1> QED BY <1>2 DEF After, FeedsRs1, FeedsRs2

(* What has been written back is what the program sees.                    *)
LEMMA ArchRegsNow ==
  ASSUME TypeInv, ~FetchFaults
  PROVE  WrittenRegs = ArchRegs
<1>1. /\ Len(Shifted) \in Nat /\ Len(Shifted) >= 5
  BY ShiftedQueue, QueueSlots DEF NumStages
<1>2. Shifted[5] = queue[LastPending + 1]
  <2>1. CASE delay
    BY <1>1, <2>1, ShiftedQueue DEF LastPending, MemoryAccessStage
  <2>2. CASE ~delay
    BY <1>1, <2>2, ShiftedQueue DEF LastPending, ExecuteStage
  <2> QED BY <2>1, <2>2
<1> QED BY <1>2 DEF WrittenRegs, ArchRegs, WriteBackStage

(* A cycle turns the instruction past its memory access into the one that  *)
(* the program counts as done.                                             *)
LEMMA DoneNext ==
  ASSUME TypeInv, StructInv, Advance
  PROVE  queue'[LastPending' + 1] = Accessed
<1> USE DEF ExecuteStage, MemoryAccessStage
<1>1. Inserted \in {0, 1}
  BY AdvanceStep, StagesShape
<1>2. CASE ChangesFlow(Accessed)
  BY <1>2, AdvanceQueue DEF LastPending
<1>3. CASE ~ChangesFlow(Accessed) /\ Inserted = 0
  BY <1>3, AdvanceQueue DEF LastPending
<1>4. CASE ~ChangesFlow(Accessed) /\ Inserted = 1
  BY <1>4, AdvanceQueue DEF LastPending
<1> QED BY <1>1, <1>2, <1>3, <1>4

(* The program sees the result of that instruction before it is written    *)
(* back.                                                                   *)
LEMMA ArchRegsNext ==
  ASSUME TypeInv, StructInv, Advance
  PROVE  ArchRegs' = After(ArchRegs, Accessed)
<1>1. ~FetchFaults /\ regs' = WrittenRegs
  BY AdvanceStep
<1>2. queue'[LastPending' + 1] = Accessed
  BY DoneNext
<1> QED BY <1>1, <1>2, ArchRegsNow DEF ArchRegs, After

(* The registers the program sees are a register file.                     *)
LEMMA ArchRegsType ==
  ASSUME TypeInv
  PROVE  ArchRegs \in [Regs -> Words]
<1>1. queue \in Seq(Slots) /\ Len(queue) \in Nat /\ Len(queue) >= 5
      /\ (delay => Len(queue) > 5) /\ regs \in [Regs -> Words]
  BY QueueSlots DEF TypeInv, TypeOK, NumStages
<1>2. queue[LastPending + 1] \in Slots
  BY <1>1, QueueSlots DEF LastPending, ExecuteStage, MemoryAccessStage
<1> QED BY <1>1, <1>2, AfterType DEF ArchRegs, After
-----------------------------------------------------------------------------
(* The instruction that has just been executed has its operands.           *)
LEMMA ExecutedReady ==
  ASSUME Inv, Advance, ~ChangesFlow(Accessed), ExecutedNow.addr # NoAddr
  PROVE  Ready(ExecutedNow, ArchRegs')
<1> USE DEF NumStages, ExecuteStage, DecodeStage, MemoryAccessStage
<1> DEFINE s == Shifted[3]
           due == Shifted[4]
<1>0. ~FetchFaults /\ ~MemoryFaults /\ pc' = MovedPc /\ TypeInv /\ StructInv
      /\ DataInv
  BY AdvanceStep DEF Inv
<1>1. /\ Len(Shifted) \in Nat /\ Len(Shifted) >= 5
      /\ s \in Slots /\ due \in Slots /\ Shifted[2] \in Slots /\ Shifted[1] \in Slots
  BY <1>0, ShiftedQueue, QueueSlots
<1>2. s.addr # NoAddr /\ ~delay
  BY <1>0, StagesShape, ShiftedShape
<1>3. s = queue[2] /\ due = queue[3]
  BY <1>0, <1>1, <1>2, ShiftedQueue
<1>4. SuppliedBy(s, due, ArchRegs) /\ LoadDelays(s, due) = 0
  BY <1>0, <1>2, <1>3 DEF DataInv, StructInv, Sequential
<1> HIDE DEF s, due
<1>5. /\ ArchRegs' = After(ArchRegs, Accessed) /\ ArchRegs \in [Regs -> Words]
      /\ Accessed \in Slots /\ Accessed.ins = due.ins
      /\ (due.ins.op # "lw" => Accessed.rd = due.rd)
  <2>1. ArchRegs' = After(ArchRegs, Accessed) /\ ArchRegs \in [Regs -> Words]
    BY <1>0, ArchRegsNext, ArchRegsType
  <2>2. MemoryDue = due /\ LoadedWord \in Words /\ Accessed \in Slots
    BY <1>0, StepTypes DEF due
  <2>3. Accessed = MemoryAccessed(due, LoadedWord)
    BY <2>2 DEF Accessed
  <2> QED BY <1>1, <2>1, <2>2, <2>3, AccessedSlot
<1>6. HasOperands(s, ArchRegs')
  <2>1. ReadsFromRs1(s.ins) => s.v1 = After(ArchRegs, Accessed)[s.ins.rs1]
    <3>1. FeedsRs1(Accessed, s) = FeedsRs1(due, s)
      BY <1>5 DEF FeedsRs1
    <3>2. FeedsRs1(due, s) => due.ins.op # "lw"
      BY <1>4 DEF LoadDelays
    <3> QED BY <1>1, <1>4, <1>5, <3>1, <3>2, AfterRead DEF SuppliedBy
  <2>2. ReadsFromRs2(s.ins) => s.v2 = After(ArchRegs, Accessed)[s.ins.rs2]
    <3>1. FeedsRs2(Accessed, s) = FeedsRs2(due, s)
      BY <1>5 DEF FeedsRs2
    <3>2. FeedsRs2(due, s) => due.ins.op # "lw"
      BY <1>4 DEF LoadDelays
    <3> QED BY <1>1, <1>4, <1>5, <3>1, <3>2, AfterRead DEF SuppliedBy
  <2> QED BY <1>5, <2>1, <2>2 DEF HasOperands
<1>7. MovedPc = Word(s.addr + 12)
  <2>1. MovedPc = FetchedPc
    <3>1. NextPc(Shifted[4], FetchedPc) = FetchedPc
      BY <1>0, StagesShape DEF NextPc, ChangesFlow
    <3> QED BY <1>0, <3>1, StepTypes, WordIsWord DEF MovedPc
  <2>2. /\ s.addr \in Words
        /\ Shifted[2].addr = Word(s.addr + 4) /\ Shifted[2].addr # NoAddr
    BY <1>0, <1>1, <1>2, ShiftedShape, FollowsWord DEF Slots, Follows, InstrBytes, s
  <2>3. Shifted[1].addr = Word(Shifted[2].addr + 4) /\ Shifted[1].addr # NoAddr
    BY <1>0, <2>2, ShiftedShape DEF Follows, InstrBytes
  <2>4. FetchedPc = Word(Shifted[1].addr + 4)
    BY <1>0, <2>3, ShiftedShape DEF Follows, InstrBytes
  <2> QED BY <2>1, <2>2, <2>3, <2>4, WordSteps
<1>8. /\ ExecutedNow.ins = s.ins /\ ExecutedNow.addr = s.addr
      /\ ExecutedNow.v1 = s.v1 /\ ExecutedNow.v2 = s.v2
      /\ Computes(s.ins) => ExecutedNow.rd = Computed(s.ins, s.v1, s.v2, MovedPc)
      /\ s.ins.op \in {"lw", "sw", "jalr"} => ExecutedNow.ea = Address(s.ins, s.v1)
      /\ ExecutedNow.branch = WillBranch(s.ins, s.v1, s.v2)
  BY <1>0, <1>1, ExecutedSlot, StepTypes DEF ExecutedNow, s
<1> QED BY <1>6, <1>7, <1>8 DEF Ready, HasOperands

(* The instruction behind it has what it read or what was forwarded to it. *)
LEMMA ForwardedSupplied ==
  ASSUME Inv, Advance
  PROVE  SuppliedBy(ForwardedNow, ExecutedNow, ArchRegs')
<1> USE DEF NumStages, ExecuteStage, DecodeStage, MemoryAccessStage
<1>0. ~FetchFaults /\ ~MemoryFaults /\ TypeInv /\ StructInv
  BY AdvanceStep DEF Inv
<1> DEFINE d == DecodedNow
           f == Forwarded(d, Accessed)
<1>1. /\ Shifted[2] \in Slots /\ d \in Slots /\ Accessed \in Slots
      /\ ExecutedNow \in Slots
      /\ ArchRegs \in [Regs -> Words] /\ WrittenRegs = ArchRegs
      /\ ArchRegs' = After(ArchRegs, Accessed)
  BY <1>0, ShiftedQueue, QueueSlots, StepTypes, ArchRegsNow, ArchRegsType,
     ArchRegsNext
<1>2. /\ ReadsFromRs1(d.ins) => d.v1 = ArchRegs[d.ins.rs1]
      /\ ReadsFromRs2(d.ins) => d.v2 = ArchRegs[d.ins.rs2]
  BY <1>1, DecodedSlot DEF DecodedNow
<1> HIDE DEF d
<1>3. /\ f \in Slots /\ f.ins = d.ins
      /\ f.v1 = IF FeedsRs1(Accessed, d) THEN Accessed.rd ELSE d.v1
      /\ f.v2 = IF FeedsRs2(Accessed, d) THEN Accessed.rd ELSE d.v2
  BY <1>1, ForwardedSlot
<1>4. ForwardedNow = Forwarded(f, ExecutedNow)
  BY DEF ForwardedNow, d
<1> HIDE DEF f
<1>5. /\ ForwardedNow.ins = f.ins
      /\ ForwardedNow.v1 = IF FeedsRs1(ExecutedNow, f) THEN ExecutedNow.rd ELSE f.v1
      /\ ForwardedNow.v2 = IF FeedsRs2(ExecutedNow, f) THEN ExecutedNow.rd ELSE f.v2
  BY <1>1, <1>3, <1>4, ForwardedSlot
<1>6. /\ ReadsFromRs1(d.ins) => f.v1 = After(ArchRegs, Accessed)[d.ins.rs1]
      /\ ReadsFromRs2(d.ins) => f.v2 = After(ArchRegs, Accessed)[d.ins.rs2]
  BY <1>1, <1>2, <1>3, AfterRead
<1>7. /\ FeedsRs1(ExecutedNow, ForwardedNow) = FeedsRs1(ExecutedNow, f)
      /\ FeedsRs2(ExecutedNow, ForwardedNow) = FeedsRs2(ExecutedNow, f)
  BY <1>5 DEF FeedsRs1, FeedsRs2
<1> QED BY <1>1, <1>3, <1>5, <1>6, <1>7 DEF SuppliedBy

(* A moving cycle keeps DataInv.                                           *)
LEMMA AdvanceData ==
  ASSUME Inv, Advance
  PROVE  DataInv'
<1> USE DEF NumStages, ExecuteStage, DecodeStage, MemoryAccessStage
<1>0. TypeInv /\ StructInv /\ Inserted \in {0, 1}
  BY AdvanceStep, StagesShape DEF Inv
<1>1. CASE ChangesFlow(Accessed)
  <2>1. ~delay' /\ queue'[2] = Bubble /\ queue'[3] = Bubble
    BY <1>0, <1>1, AdvanceQueue
  <2>2. ~ReadsFromRs1(Bubble.ins) /\ ~ReadsFromRs2(Bubble.ins)
    BY BubbleType, Kinds DEF Nop
  <2>3. LastPending' = 3
    BY <2>1 DEF LastPending
  <2> QED BY <2>1, <2>2, <2>3, BubbleType DEF DataInv, SuppliedBy
<1>2. CASE ~ChangesFlow(Accessed) /\ Inserted = 0
  <2>1. ~delay' /\ queue'[2] = ForwardedNow /\ queue'[3] = ExecutedNow
    BY <1>0, <1>2, AdvanceQueue
  <2>2. LastPending' = 3
    BY <2>1 DEF LastPending
  <2> QED BY <1>2, <2>1, <2>2, ExecutedReady, ForwardedSupplied DEF DataInv
<1>3. CASE ~ChangesFlow(Accessed) /\ Inserted = 1
  <2>1. delay' /\ queue'[4] = ExecutedNow
    BY <1>0, <1>3, AdvanceQueue
  <2>2. LastPending' = 4
    BY <2>1 DEF LastPending
  <2> QED BY <1>3, <2>1, <2>2, ExecutedReady DEF DataInv
<1> QED BY <1>0, <1>1, <1>2, <1>3
-----------------------------------------------------------------------------
(* The oldest instruction among the first last slots, or p.                *)
OldestAddr(q, last, p) ==
  LET real == {i \in 1 .. last : q[i].addr # NoAddr}
  IN  IF real = {} THEN p
      ELSE q[CHOOSE i \in real : \A j \in real : j <= i].addr

(* The oldest instruction is slot k if k holds one and the older slots do  *)
(* not ...                                                                 *)
LEMMA OldestIs ==
  ASSUME NEW q, NEW p, NEW last \in Nat, NEW k \in 1 .. last,
         q[k].addr # NoAddr, \A j \in k + 1 .. last : q[j].addr = NoAddr
  PROVE  OldestAddr(q, last, p) = q[k].addr
<1> DEFINE real == {i \in 1 .. last : q[i].addr # NoAddr}
           oldest == CHOOSE i \in real : \A j \in real : j <= i
<1>1. k \in real /\ \A j \in real : j <= k
  OBVIOUS
<1>2. oldest \in real /\ \A j \in real : j <= oldest
  BY <1>1
<1>3. oldest = k
  BY <1>1, <1>2
<1> QED BY <1>1, <1>3 DEF OldestAddr

(* ... and it is still to be fetched if none holds one.                    *)
LEMMA OldestNone ==
  ASSUME NEW q, NEW p, NEW last \in Nat,
         \A j \in 1 .. last : q[j].addr = NoAddr
  PROVE  OldestAddr(q, last, p) = p
BY DEF OldestAddr

(* Where the program is before a cycle ...                                 *)
LEMMA ArchPcNow ==
  ASSUME TypeInv, StructInv, ~FetchFaults
  PROVE  ArchPc = IF Shifted[4].addr # NoAddr THEN Shifted[4].addr
                  ELSE IF Shifted[3].addr # NoAddr THEN Shifted[3].addr
                  ELSE IF Shifted[2].addr # NoAddr THEN Shifted[2].addr
                  ELSE Shifted[1].addr
<1> USE DEF NumStages, ExecuteStage, MemoryAccessStage
<1>1. Len(Shifted) \in Nat /\ Len(Shifted) >= 5
  BY ShiftedQueue, QueueSlots
<1>2. ArchPc = OldestAddr(queue, LastPending, pc)
  BY DEF ArchPc, OldestAddr
<1>3. CASE delay
  <2>1. LastPending = 4 /\ Shifted[4] = queue[4] /\ Shifted[4].addr # NoAddr
    BY <1>1, <1>3, ShiftedQueue, ShiftedShape DEF LastPending
  <2> QED BY <1>2, <2>1, OldestIs
<1>4. CASE ~delay
  <2>1. LastPending = 3
    BY <1>4 DEF LastPending
  <2>2. /\ Shifted[4] = queue[3] /\ Shifted[3] = queue[2] /\ Shifted[2] = queue[1]
        /\ Shifted[1] = NewSlot(imem[pc], pc)
    BY <1>1, <1>4, ShiftedQueue
  <2>3. Shifted[1].addr = pc
    BY <2>2 DEF NewSlot
  <2>4. CASE queue[3].addr # NoAddr
    BY <1>2, <2>1, <2>2, <2>4, OldestIs
  <2>5. CASE queue[3].addr = NoAddr /\ queue[2].addr # NoAddr
    <3>1. OldestAddr(queue, 3, pc) = queue[2].addr
      BY <2>5, OldestIs
    <3> QED BY <1>2, <2>1, <2>2, <2>5, <3>1
  <2>6. CASE queue[3].addr = NoAddr /\ queue[2].addr = NoAddr
               /\ queue[1].addr # NoAddr
    <3>1. OldestAddr(queue, 3, pc) = queue[1].addr
      BY <2>6, OldestIs
    <3> QED BY <1>2, <2>1, <2>2, <2>6, <3>1
  <2>7. CASE queue[3].addr = NoAddr /\ queue[2].addr = NoAddr
               /\ queue[1].addr = NoAddr
    <3>1. OldestAddr(queue, 3, pc) = pc
      BY <2>7, OldestNone
    <3> QED BY <1>2, <2>1, <2>2, <2>3, <2>7, <3>1
  <2> QED BY <2>4, <2>5, <2>6, <2>7
<1> QED BY <1>3, <1>4

(* ... and after it.                                                       *)
LEMMA ArchPcNext ==
  ASSUME TypeInv, StructInv, Advance
  PROVE  ArchPc' = IF ChangesFlow(Accessed) THEN MovedPc
                   ELSE IF Shifted[3].addr # NoAddr THEN Shifted[3].addr
                   ELSE IF Shifted[2].addr # NoAddr THEN Shifted[2].addr
                   ELSE Shifted[1].addr
<1> USE DEF NumStages, ExecuteStage, MemoryAccessStage
<1>0. ~FetchFaults /\ ~MemoryFaults /\ pc' = MovedPc
  BY AdvanceStep
<1>1. ArchPc' = OldestAddr(queue', LastPending', pc')
  BY DEF ArchPc, OldestAddr
<1>2. /\ ForwardedNow.addr = Shifted[2].addr /\ ExecutedNow.addr = Shifted[3].addr
      /\ ForwardedNow.ins = Shifted[2].ins /\ ExecutedNow.ins = Shifted[3].ins
      /\ Genuine(imem, ExecutedNow)
      /\ Shifted[1].addr # NoAddr /\ Inserted \in {0, 1}
  BY <1>0, StagesShape, ShiftedShape
<1>3. CASE ChangesFlow(Accessed)
  <2>1. LastPending' = 3 /\ queue'[1].addr = NoAddr /\ queue'[2].addr = NoAddr
        /\ queue'[3].addr = NoAddr
    BY <1>3, AdvanceQueue, BubbleType DEF LastPending
  <2>2. OldestAddr(queue', 3, pc') = pc'
    BY <2>1, OldestNone
  <2> QED BY <1>0, <1>1, <1>3, <2>1, <2>2
<1>4. CASE ~ChangesFlow(Accessed) /\ Inserted = 0
  <2>1. LastPending' = 3 /\ queue'[1].addr = Shifted[1].addr
        /\ queue'[2].addr = Shifted[2].addr /\ queue'[3].addr = Shifted[3].addr
    BY <1>2, <1>4, AdvanceQueue DEF LastPending
  <2>2. CASE Shifted[3].addr # NoAddr
    <3>1. OldestAddr(queue', 3, pc') = queue'[3].addr
      BY <2>1, <2>2, OldestIs
    <3> QED BY <1>1, <1>4, <2>1, <2>2, <3>1
  <2>3. CASE Shifted[3].addr = NoAddr /\ Shifted[2].addr # NoAddr
    <3>1. OldestAddr(queue', 3, pc') = queue'[2].addr
      BY <2>1, <2>3, OldestIs
    <3> QED BY <1>1, <1>4, <2>1, <2>3, <3>1
  <2>4. CASE Shifted[3].addr = NoAddr /\ Shifted[2].addr = NoAddr
    <3>1. OldestAddr(queue', 3, pc') = queue'[1].addr
      BY <1>2, <2>1, <2>4, OldestIs
    <3> QED BY <1>1, <1>4, <2>1, <2>4, <3>1
  <2> QED BY <2>2, <2>3, <2>4
<1>5. CASE ~ChangesFlow(Accessed) /\ Inserted = 1
  <2>1. LastPending' = 4 /\ queue'[4] = ExecutedNow
    BY <1>5, AdvanceQueue DEF LastPending
  <2>2. ExecutedNow.addr # NoAddr
    <3>1. ExecutedNow.ins.op = "lw"
      BY <1>5 DEF Inserted, LoadDelays
    <3> QED BY <1>2, <3>1 DEF Genuine, Nop
  <2>3. OldestAddr(queue', 4, pc') = queue'[4].addr
    BY <2>1, <2>2, OldestIs
  <2> QED BY <1>1, <1>2, <1>5, <2>1, <2>2, <2>3
<1> QED BY <1>2, <1>3, <1>4, <1>5
-----------------------------------------------------------------------------
(* Isa has the operators of Instructions under names of its own.           *)
LEMMA SameConstants ==
  /\ A!InstrBytes = InstrBytes /\ A!PipelineOffset = PipelineOffset
  /\ A!LinkOffset = LinkOffset
  /\ A!Regs = Regs /\ A!Words = Words /\ A!DataAddrs = DataAddrs
  /\ A!Ops = Ops /\ A!InstructionType = InstructionType /\ A!Instrs = Instrs
BY DEF A!InstrBytes, InstrBytes, A!PipelineOffset, PipelineOffset, A!LinkOffset,
       LinkOffset, A!Regs, Regs, A!Words, Words, A!DataAddrs, DataAddrs, A!Ops, Ops,
       A!InstructionType, InstructionType, A!Instrs, Instrs

(* Its operators, on any arguments, are those of Instructions.             *)
LEMMA SameOperators ==
  ASSUME NEW ins, NEW x, NEW y, NEW p, NEW rf, NEW m
  PROVE  /\ A!Word(x) = Word(x)
         /\ A!IsProgram(m) = IsProgram(m)
         /\ A!WritesToRd(ins) = WritesToRd(ins)
         /\ A!Computed(ins, x, y, p) = Computed(ins, x, y, p)
         /\ A!WillBranch(ins, x, y) = WillBranch(ins, x, y)
         /\ A!Address(ins, x) = Address(ins, x)
         /\ A!BranchOffset(p, x) = BranchOffset(p, x)
         /\ A!Jump(x) = Jump(x)
         /\ A!Written(rf, x, y) = Written(rf, x, y)
<1>1. \A z : A!Word(z) = Word(z)
  BY DEF A!Word, Word
<1>2. \A z : A!Signed(z) = Signed(z)
  BY DEF A!Signed, Signed
<1>3. A!IsProgram(m) = IsProgram(m)
  BY SameConstants DEF A!IsProgram, IsProgram
<1>4. A!WritesToRd(ins) = WritesToRd(ins)
  BY SameConstants DEF A!WritesToRd, WritesToRd
<1>5. A!Computed(ins, x, y, p) = Computed(ins, x, y, p)
  BY <1>1, SameConstants DEF A!Computed, Computed
<1>6. A!WillBranch(ins, x, y) = WillBranch(ins, x, y)
  BY DEF A!WillBranch, WillBranch
<1>7. A!Address(ins, x) = Address(ins, x)
  BY <1>1 DEF A!Address, Address
<1>8. A!BranchOffset(p, x) = BranchOffset(p, x) /\ A!Jump(x) = Jump(x)
  BY <1>1, <1>2, SameConstants DEF A!BranchOffset, BranchOffset, A!Jump, Jump
<1>9. A!Written(rf, x, y) = Written(rf, x, y)
  BY DEF A!Written, Written
<1> QED BY <1>1, <1>3, <1>4, <1>5, <1>6, <1>7, <1>8, <1>9
-----------------------------------------------------------------------------
(* The instruction the program is at, and its operands.                    *)
ArchIns == imem[ArchPc]
Arch1 == ArchRegs[ArchIns.rs1]
Arch2 == ArchRegs[ArchIns.rs2]

(* The instruction whose memory access is due.                             *)
LEMMA DueIs ==
  ASSUME TypeInv, ~FetchFaults
  PROVE  MemoryDue = Shifted[4] /\ MemoryDue = queue[LastPending]
         /\ MemoryDue \in Slots /\ FetchedPc \in Words
<1>1. Len(Shifted) \in Nat /\ Len(Shifted) >= 5 /\ Shifted[4] \in Slots
  BY ShiftedQueue, QueueSlots DEF NumStages
<1>2. MemoryDue = Shifted[4] /\ MemoryDue = queue[LastPending]
  BY <1>1, ShiftedQueue DEF MemoryDue, LastPending, MemoryAccessStage, ExecuteStage
<1>3. FetchedPc \in Words
  BY WordIsWord, WordType DEF FetchedPc, TypeInv, TypeOK, InstrBytes
<1> QED BY <1>1, <1>2, <1>3

(* It is the one the program is at, with the operands the program sees,    *)
(* and the program counter is where its constants expect it.               *)
LEMMA DueReady ==
  ASSUME Inv, ~FetchFaults, MemoryDue.addr # NoAddr
  PROVE  /\ ArchPc = MemoryDue.addr /\ ArchPc \in Words /\ ArchPc \in DOMAIN imem
         /\ ArchIns = MemoryDue.ins /\ ArchIns \in Instrs /\ ArchIns.op # "bad"
         /\ Arch1 \in Words /\ Arch2 \in Words
         /\ ReadsFromRs1(ArchIns) => MemoryDue.v1 = Arch1
         /\ ReadsFromRs2(ArchIns) => MemoryDue.v2 = Arch2
         /\ MemoryDue.branch = WillBranch(ArchIns, Arch1, Arch2)
         /\ ArchIns.op \in {"lw", "sw", "jalr"} => MemoryDue.ea = Address(ArchIns, Arch1)
         /\ Computes(ArchIns) =>
              MemoryDue.rd = Computed(ArchIns, Arch1, Arch2, Word(ArchPc + 12))
         /\ ChangesFlow(MemoryDue) => FetchedPc = Word(ArchPc + 16)
<1> DEFINE s == MemoryDue
<1>1. TypeInv /\ StructInv /\ DataInv
  BY DEF Inv
<1>2. s = Shifted[4] /\ s = queue[LastPending] /\ s \in Slots
  BY <1>1, DueIs
<1>3. Genuine(imem, s)
  <2>1. Genuine(imem, Shifted[4])
    BY <1>1, ShiftedShape
  <2> QED BY <1>2, <2>1
<1>4. ArchPc = s.addr /\ s.addr \in Words /\ s.addr \in DOMAIN imem
      /\ ArchIns = s.ins /\ s.ins \in Instrs /\ s.ins.op # "bad"
  BY <1>1, <1>2, <1>3, ArchPcNow DEF Genuine, ArchIns, Slots
<1>5. Ready(s, ArchRegs)
  BY <1>1, <1>2 DEF DataInv
<1>6. Arch1 \in Words /\ Arch2 \in Words
  BY <1>1, <1>4, ArchRegsType DEF Arch1, Arch2, Instrs
<1>7. /\ ReadsFromRs1(s.ins) => s.v1 = Arch1
      /\ ReadsFromRs2(s.ins) => s.v2 = Arch2
  BY <1>4, <1>5 DEF Ready, HasOperands, Arch1, Arch2
<1>8. s.branch = WillBranch(s.ins, Arch1, Arch2)
  BY <1>4, <1>5, <1>7, Kinds DEF Ready, WillBranch
<1>9. s.ins.op \in {"lw", "sw", "jalr"} => s.ea = Address(s.ins, Arch1)
  BY <1>4, <1>5, <1>7, Kinds DEF Ready
<1>10. Computes(s.ins) => s.rd = Computed(s.ins, Arch1, Arch2, Word(s.addr + 12))
  <2> SUFFICES ASSUME Computes(s.ins)
               PROVE  s.rd = Computed(s.ins, Arch1, Arch2, Word(s.addr + 12))
    OBVIOUS
  <2> DEFINE p == Word(s.addr + 12)
  <2>1. s.rd = Computed(s.ins, s.v1, s.v2, p)
    BY <1>5 DEF Ready
  <2> HIDE DEF p
  <2>2. CASE s.ins.op \in {"add", "slli"}
    BY <1>4, <1>7, <2>1, <2>2, Kinds DEF p
  <2>3. CASE s.ins.op = "addi"
    BY <1>4, <1>7, <2>1, <2>3, Kinds DEF Computed, p
  <2>4. CASE s.ins.op \in {"lui", "jal", "jalr"}
    BY <2>1, <2>4 DEF Computed, p
  <2> QED BY <2>2, <2>3, <2>4 DEF Computes
<1>11. ChangesFlow(s) => FetchedPc = Word(s.addr + 16)
  <2> SUFFICES ASSUME ChangesFlow(s) PROVE FetchedPc = Word(s.addr + 16)
    OBVIOUS
  <2>1. s.ins.op \in {"beq", "bne", "jal", "jalr"}
    BY <1>8 DEF ChangesFlow, WillBranch
  <2>2. ~delay
    BY <1>1, <1>2, <2>1, ShiftedShape
  <2>3. LastPending = 3 /\ s = queue[3]
    BY <1>2, <2>2 DEF LastPending, ExecuteStage
  <2>4. pc = Word(s.addr + 12)
    <3>1. MayChangeFlow(s.ins)
      BY <1>4, <2>1, Kinds
    <3>2. OffsetsExact
      BY <1>1, StructOffsets
    <3>3. pc = Word(queue[3].addr + 3 * InstrBytes)
      BY <2>2, <2>3, <3>1, <3>2 DEF OffsetsExact
    <3> QED BY <2>3, <3>3 DEF InstrBytes
  <2> QED BY <1>4, <2>2, <2>4, WordSteps DEF FetchedPc, InstrBytes
<1> QED BY <1>4, <1>6, <1>7, <1>8, <1>9, <1>10, <1>11

(* It goes where the program goes.                                         *)
LEMMA SuccessorIs ==
  ASSUME Inv, ~FetchFaults, MemoryDue.addr # NoAddr
  PROVE  A!Successor(ArchIns, ArchPc, Arch1, Arch2)
           = IF ChangesFlow(MemoryDue) THEN NextPc(MemoryDue, FetchedPc)
             ELSE Word(ArchPc + 4)
<1> DEFINE s == MemoryDue
<1>1. /\ ArchIns = s.ins /\ s.branch = WillBranch(ArchIns, Arch1, Arch2)
      /\ ArchIns.op = "jalr" => s.ea = Address(ArchIns, Arch1)
      /\ ChangesFlow(s) => FetchedPc = Word(ArchPc + 16)
  BY DueReady
<1>2. /\ A!WillBranch(ArchIns, Arch1, Arch2) = s.branch
      /\ A!BranchOffset(Word(ArchPc + 16), ArchIns.imm)
           = BranchOffset(Word(ArchPc + 16), ArchIns.imm)
      /\ A!Jump(Address(ArchIns, Arch1)) = Jump(Address(ArchIns, Arch1))
      /\ A!Address(ArchIns, Arch1) = Address(ArchIns, Arch1)
      /\ A!Word(ArchPc + A!PipelineOffset) = Word(ArchPc + 16)
      /\ A!Word(ArchPc + A!InstrBytes) = Word(ArchPc + 4)
  BY <1>1, SameOperators, SameConstants DEF PipelineOffset, InstrBytes
<1>3. s.branch => ArchIns.op \in {"beq", "bne"}
  BY <1>1 DEF WillBranch
<1>4. CASE ArchIns.op = "jal" \/ s.branch
  BY <1>1, <1>2, <1>3, <1>4 DEF A!Successor, NextPc, ChangesFlow
<1>5. CASE ArchIns.op = "jalr"
  BY <1>1, <1>2, <1>3, <1>5 DEF A!Successor, NextPc, ChangesFlow
<1>6. CASE ArchIns.op \notin {"jal", "jalr"} /\ ~s.branch
  BY <1>1, <1>2, <1>6 DEF A!Successor, ChangesFlow
<1> QED BY <1>4, <1>5, <1>6

(* The program can go on where the process does not die.                   *)
LEMMA CanStepIs ==
  ASSUME Inv, ~FetchFaults, MemoryDue.addr # NoAddr
  PROVE  A!CanStep <=> ~MemoryFaults
<1> DEFINE next == A!Successor(ArchIns, ArchPc, Arch1, Arch2)
<1>1. /\ ArchPc \in DOMAIN imem /\ ArchIns.op # "bad" /\ ArchPc \in Words
      /\ ArchIns = MemoryDue.ins
      /\ ArchIns.op \in {"lw", "sw", "jalr"} => MemoryDue.ea = Address(ArchIns, Arch1)
  BY DueReady
<1>2. next = IF ChangesFlow(MemoryDue) THEN NextPc(MemoryDue, FetchedPc)
             ELSE Word(ArchPc + 4)
  BY SuccessorIs
<1>3. Word(ArchPc + 4) >= 0 /\ FetchedPc >= 0
  <2>1. Word(ArchPc + 4) \in Words
    BY <1>1, WordIsWord, WordType
  <2>2. FetchedPc \in Words
    BY DueIs DEF Inv
  <2> QED BY <2>1, <2>2 DEF Words
<1>4. A!Address(ArchIns, Arch1) = Address(ArchIns, Arch1) /\ A!DataAddrs = DataAddrs
  BY SameOperators, SameConstants
<1>5. A!CanStep <=> /\ ArchIns.op \in {"lw", "sw"} =>
                         Address(ArchIns, Arch1) \in DataAddrs
                    /\ next >= 0
  BY <1>1, <1>4 DEF A!CanStep, ArchIns, Arch1, Arch2
<1>6. ~ChangesFlow(MemoryDue) => NextPc(MemoryDue, FetchedPc) = FetchedPc
  BY DEF ChangesFlow, NextPc
<1> HIDE DEF next
<1>7. CASE IsMemoryAccess(MemoryDue)
  <2>1. ~ChangesFlow(MemoryDue)
    BY <1>1, <1>7, DueReady DEF ChangesFlow, IsMemoryAccess, WillBranch
  <2> QED BY <1>1, <1>2, <1>3, <1>5, <1>7, <2>1 DEF MemoryFaults, IsMemoryAccess
<1>8. CASE ~IsMemoryAccess(MemoryDue)
  <2>1. NextPc(MemoryDue, FetchedPc) \in Int
    BY DueIs, NextPcType DEF Inv
  <2>2. MemoryFaults <=> NextPc(MemoryDue, FetchedPc) < 0
    BY <1>8 DEF MemoryFaults
  <2>3. next >= 0 <=> ~(NextPc(MemoryDue, FetchedPc) < 0)
    <3>1. CASE ChangesFlow(MemoryDue)
      BY <1>2, <2>1, <3>1
    <3>2. CASE ~ChangesFlow(MemoryDue)
      <4>1. FetchedPc \in Int
        BY DueIs, WordIsWord DEF Inv
      <4> QED BY <1>2, <1>3, <1>6, <3>2, <4>1
    <3> QED BY <3>1, <3>2
  <2> QED BY <1>1, <1>5, <1>8, <2>2, <2>3 DEF IsMemoryAccess
<1> QED BY <1>7, <1>8

(* Its memory access is a step of the program.                             *)
LEMMA AdvanceSteps ==
  ASSUME Inv, Advance, MemoryDue.addr # NoAddr
  PROVE  A!Step
<1> DEFINE s == MemoryDue
           next == A!Successor(ArchIns, ArchPc, Arch1, Arch2)
<1>0. TypeInv /\ StructInv /\ ~FetchFaults /\ ~MemoryFaults /\ imem' = imem
  BY AdvanceStep DEF Inv
<1>1. /\ ArchPc = s.addr /\ ArchPc \in Words /\ ArchIns = s.ins /\ ArchIns \in Instrs
      /\ ReadsFromRs2(ArchIns) => s.v2 = Arch2
      /\ ArchIns.op \in {"lw", "sw", "jalr"} => s.ea = Address(ArchIns, Arch1)
      /\ Computes(ArchIns) => s.rd = Computed(ArchIns, Arch1, Arch2, Word(ArchPc + 12))
  BY <1>0, DueReady
<1>2. A!CanStep
  BY <1>0, CanStepIs
<1>3. s = Shifted[4] /\ s \in Slots
  BY <1>0, DueIs
<1>4. /\ Accessed.ins = s.ins /\ Accessed.branch = s.branch
      /\ Accessed.rd = IF s.ins.op = "lw" THEN LoadedWord ELSE s.rd
  BY <1>0, <1>3, StepTypes, AccessedSlot DEF Accessed
<1>5. ArchPc' = A!Word(next)
  <2>1. A!Word(next) = Word(next)
    BY SameOperators
  <2>2. ChangesFlow(Accessed) = ChangesFlow(s)
    BY <1>4 DEF ChangesFlow
  <2>3. CASE ChangesFlow(s)
    <3>1. next = NextPc(s, FetchedPc)
      BY <1>0, <2>3, SuccessorIs
    <3>2. ArchPc' = MovedPc
      BY <1>0, <2>2, <2>3, ArchPcNext
    <3> QED BY <1>3, <2>1, <3>1, <3>2 DEF MovedPc, MemoryAccessStage
  <2>4. CASE ~ChangesFlow(s)
    <3>1. next = Word(ArchPc + 4)
      BY <1>0, <2>4, SuccessorIs
    <3>2. Word(next) = Word(ArchPc + 4)
      BY <1>1, <3>1, WordIsWord, WordType
    <3>3. ArchPc' = Word(ArchPc + 4)
      <4>1. ArchPc' = IF Shifted[3].addr # NoAddr THEN Shifted[3].addr
                      ELSE IF Shifted[2].addr # NoAddr THEN Shifted[2].addr
                      ELSE Shifted[1].addr
        BY <1>0, <2>2, <2>4, ArchPcNext
      <4>2. Word(ArchPc + 4) # NoAddr
        BY <1>1, WordIsWord, WordType, NoAddrNoWord
      <4>3. CASE delay
        <5>1. Shifted[3].addr = NoAddr /\ Shifted[2].addr = Word(ArchPc + 4)
          BY <1>0, <1>1, <1>3, <4>3, ShiftedShape DEF Follows, InstrBytes
        <5> QED BY <4>1, <4>2, <5>1
      <4>4. CASE ~delay
        <5>1. Shifted[3].addr = Word(ArchPc + 4)
          BY <1>0, <1>1, <1>3, <4>4, ShiftedShape DEF Follows, InstrBytes
        <5> QED BY <4>1, <4>2, <5>1
      <4> QED BY <4>3, <4>4
    <3> QED BY <2>1, <3>2, <3>3
  <2> QED BY <2>3, <2>4
<1>6. ArchRegs' = IF A!WritesToRd(ArchIns)
                  THEN A!Written(ArchRegs, ArchIns.rd,
                                 A!Result(ArchIns, ArchPc, Arch1, Arch2))
                  ELSE ArchRegs
  <2>1. ArchRegs' = After(ArchRegs, Accessed)
    BY <1>0, ArchRegsNext
  <2>2. WritesToRd(ArchIns) => Accessed.rd = A!Result(ArchIns, ArchPc, Arch1, Arch2)
    <3> SUFFICES ASSUME WritesToRd(ArchIns)
                 PROVE  Accessed.rd = A!Result(ArchIns, ArchPc, Arch1, Arch2)
      OBVIOUS
    <3>1. A!Address(ArchIns, Arch1) = Address(ArchIns, Arch1)
      BY SameOperators
    <3>2. CASE ArchIns.op = "lw"
      BY <1>1, <1>4, <3>1, <3>2 DEF A!Result, LoadedWord
    <3>3. CASE ArchIns.op # "lw"
      <4>1. Computes(ArchIns)
        BY <1>1, <3>3, Kinds DEF Computes
      <4>2. A!Word(ArchPc + 3 * A!InstrBytes) = Word(ArchPc + 12)
        BY SameOperators, SameConstants DEF InstrBytes
      <4>3. A!Computed(ArchIns, Arch1, Arch2, Word(ArchPc + 12))
              = Computed(ArchIns, Arch1, Arch2, Word(ArchPc + 12))
        BY SameOperators
      <4> QED BY <1>1, <1>4, <3>3, <4>1, <4>2, <4>3 DEF A!Result
    <3> QED BY <3>2, <3>3
  <2> QED BY <1>1, <1>4, <2>1, <2>2, SameOperators DEF After
<1>7. dmem' = IF ArchIns.op = "sw"
              THEN [dmem EXCEPT ![A!Address(ArchIns, Arch1)] = Arch2]
              ELSE dmem
  <2>1. A!Address(ArchIns, Arch1) = Address(ArchIns, Arch1)
    BY SameOperators
  <2>2. ArchIns.op = "sw" => s.v2 = Arch2 /\ s.ea = Address(ArchIns, Arch1)
    BY <1>1, Kinds
  <2>3. dmem' = IF s.ins.op = "sw" THEN [dmem EXCEPT ![s.ea] = s.v2] ELSE dmem
    BY DEF Advance
  <2> QED BY <1>1, <2>1, <2>2, <2>3
<1> QED BY <1>0, <1>2, <1>5, <1>6, <1>7 DEF A!Step, ArchIns, Arch1, Arch2

(* A bubble's memory access changes nothing the program sees.              *)
LEMMA AdvanceStutters ==
  ASSUME Inv, Advance, MemoryDue.addr = NoAddr
  PROVE  UNCHANGED A!vars
<1> DEFINE s == MemoryDue
<1>0. TypeInv /\ StructInv /\ ~FetchFaults /\ ~MemoryFaults /\ imem' = imem
  BY AdvanceStep DEF Inv
<1>1. s = Shifted[4] /\ s \in Slots
  BY <1>0, DueIs
<1>2. Accessed.ins = Nop /\ ~Accessed.branch /\ s.ins = Nop
  <2>1. Genuine(imem, Shifted[4])
    BY <1>0, ShiftedShape
  <2> QED BY <1>0, <1>1, <2>1, StagesShape DEF Genuine
<1>3. ~ChangesFlow(Accessed) /\ ~WritesToRd(Accessed.ins)
  BY <1>2, BubbleType, Kinds DEF ChangesFlow, Nop
<1>4. ArchPc' = ArchPc
  BY <1>0, <1>1, <1>3, ArchPcNow, ArchPcNext
<1>5. ArchRegs' = ArchRegs
  BY <1>0, <1>3, ArchRegsNext DEF After
<1>6. dmem' = dmem
  BY <1>2 DEF Advance, Nop
<1> QED BY <1>0, <1>4, <1>5, <1>6 DEF A!vars
-----------------------------------------------------------------------------
(* What the program sees depends on the registers, the queue and the       *)
(* program counter alone.                                                  *)
LEMMA ArchUnchanged ==
  ASSUME UNCHANGED <<imem, pc, regs, queue, delay>>
  PROVE  /\ ArchPc' = ArchPc /\ ArchRegs' = ArchRegs /\ LastPending' = LastPending
         /\ FetchFaults' <=> FetchFaults
         /\ A!CanStep' <=> A!CanStep
<1>1. LastPending' = LastPending
  BY DEF LastPending
<1>2. ArchPc' = ArchPc /\ ArchRegs' = ArchRegs
  BY <1>1 DEF ArchPc, ArchRegs
<1>3. FetchFaults' <=> FetchFaults
  BY DEF FetchFaults
<1>4. A!CanStep' <=> A!CanStep
  BY <1>2 DEF A!CanStep
<1> QED BY <1>1, <1>2, <1>3, <1>4

(* After a reset, or at the start, nothing is under way.                   *)
LEMMA ArchEmpty ==
  ASSUME NEW q, NEW p, NEW rf, \A i \in 1 .. 4 : q[i] = Bubble
  PROVE  /\ OldestAddr(q, 3, p) = p
         /\ After(rf, q[4]) = rf
         /\ \A r : SuppliedBy(q[2], q[3], r)
<1>1. /\ ~WritesToRd(Bubble.ins)
      /\ ~ReadsFromRs1(Bubble.ins) /\ ~ReadsFromRs2(Bubble.ins)
  BY BubbleType, Kinds DEF Nop
<1>2. OldestAddr(q, 3, p) = p
  BY BubbleType, OldestNone
<1> QED BY <1>1, <1>2 DEF After, SuppliedBy

(* A reset is a restart of the program on the memory as it is.             *)
LEMMA ResetRefines ==
  ASSUME TypeInv, Reset
  PROVE  A!Restart /\ DataInv' /\ queue'[LastPending' + 1] = Bubble
<1>1. queue \in Seq(Slots) /\ Len(queue) \in Nat /\ Len(queue) >= 5
  BY QueueSlots DEF TypeInv, TypeOK, NumStages
<1>2. /\ ~delay' /\ queue' = Flushed(queue, 5) /\ pc' = 0 /\ regs' = ZeroRegs
      /\ imem' = imem /\ dmem' = dmem
  BY DEF Reset, WriteBackStage
<1>3. \A i \in 1 .. 4 : queue'[i] = Bubble
  BY <1>1, <1>2, FlushedQueue
<1>4. LastPending' = 3
  BY <1>2 DEF LastPending, ExecuteStage
<1>5. ArchPc' = OldestAddr(queue', 3, pc') /\ ArchRegs' = After(regs', queue'[4])
  BY <1>4 DEF ArchPc, OldestAddr, ArchRegs, After
<1>6. ArchPc' = 0 /\ ArchRegs' = ZeroRegs
  BY <1>2, <1>3, <1>5, ArchEmpty
<1>7. A!ZeroRegs = ZeroRegs
  BY SameConstants DEF A!ZeroRegs, ZeroRegs
<1>8. A!Restart
  BY <1>2, <1>6, <1>7 DEF A!Restart
<1>9. DataInv'
  BY <1>3, <1>4, ArchEmpty, BubbleType DEF DataInv, DecodeStage, ExecuteStage
<1> QED BY <1>3, <1>4, <1>8, <1>9

(* The machine starts as the program does, and every step is one of the    *)
(* program's or none.                                                      *)
LEMMA InitRefines == NoDoubleUse /\ Init => Inv /\ A!Init
<1> SUFFICES ASSUME NoDoubleUse, Init PROVE Inv /\ A!Init
  OBVIOUS
<1>1. \A i \in 1 .. 4 : queue[i] = Bubble
  BY DEF Init, NumStages
<1>2. LastPending = 3 /\ ~delay
  BY DEF Init, LastPending, ExecuteStage
<1>3. ArchPc = OldestAddr(queue, 3, pc) /\ ArchRegs = After(regs, queue[4])
  BY <1>2 DEF ArchPc, OldestAddr, ArchRegs, After
<1>4. ArchPc = 0 /\ ArchRegs = ZeroRegs
  BY <1>1, <1>3, ArchEmpty DEF Init
<1>5. DataInv
  BY <1>1, <1>2, ArchEmpty, BubbleType DEF DataInv, DecodeStage, ExecuteStage
<1>6. A!ZeroRegs = ZeroRegs /\ A!DataAddrs = DataAddrs
  BY SameConstants DEF A!ZeroRegs, ZeroRegs
<1>7. A!IsProgram(imem)
  BY ImagesAssumption, SameOperators DEF Init
<1>8. A!Init
  BY <1>4, <1>6, <1>7 DEF Init, A!Init
<1> QED BY <1>5, <1>8, InitType, InitStruct DEF Inv

(* Every step keeps the invariant and is a step of the program or a        *)
(* stutter.                                                                *)
LEMMA NextRefines == Inv /\ [Next]_vars => Inv' /\ [A!Next]_(A!vars)
<1> SUFFICES ASSUME Inv, [Next]_vars PROVE Inv' /\ [A!Next]_(A!vars)
  OBVIOUS
<1>1. TypeInv' /\ StructInv'
  BY NextType, NextStruct DEF Inv
<1>2. CASE Advance
  BY <1>1, <1>2, AdvanceData, AdvanceSteps, AdvanceStutters DEF Inv, A!Next
<1>3. CASE UNCHANGED <<imem, pc, regs, dmem, queue, delay>>
  <2>1. /\ ArchPc' = ArchPc /\ ArchRegs' = ArchRegs /\ LastPending' = LastPending
        /\ queue' = queue /\ delay' = delay
    BY <1>3, ArchUnchanged
  <2>2. UNCHANGED A!vars
    BY <1>3, <2>1 DEF A!vars
  <2>3. DataInv'
    BY <2>1 DEF Inv, DataInv
  <2> QED BY <1>1, <2>2, <2>3 DEF Inv
<1>4. CASE Reset
  BY <1>1, <1>4, ResetRefines DEF Inv, A!Next
<1> QED BY <1>2, <1>3, <1>4 DEF Next, Cycle, Wait, Abort, vars

(* Inv is an invariant.                                                    *)
LEMMA InvCorrect == NoDoubleUse => (Spec => []Inv)
<1> SUFFICES ASSUME NoDoubleUse PROVE Spec => []Inv
  OBVIOUS
<1> QED BY InitRefines, NextRefines, PTL DEF Spec

(* The pipeline implements the one-at-a-time machine: no operand is stale, *)
(* no instruction is lost or run twice, and nothing that was fetched       *)
(* behind a taken branch has an effect, whatever the latencies are and     *)
(* whenever it is reset.                                                   *)
THEOREM PipelineIsSequential == NoDoubleUse => (Spec => ImplementsIsa)
<1> SUFFICES ASSUME NoDoubleUse PROVE Spec => ImplementsIsa
  OBVIOUS
<1>1. Init => A!Init
  BY InitRefines
<1>2. Inv /\ [Next]_vars => [A!Next]_(A!vars)
  BY NextRefines
<1> QED BY <1>1, <1>2, InvCorrect, PTL DEF Spec, ImplementsIsa, A!Spec
-----------------------------------------------------------------------------
(* The process dies in a cycle only where the fetch fails or the program   *)
(* cannot go on; then nothing moves any more.                              *)
LEMMA NextJustified == Inv /\ AbortJustified /\ [Next]_vars => AbortJustified'
<1> SUFFICES ASSUME Inv, AbortJustified, [Next]_vars, status' = "aborted"
             PROVE  (FetchFaults \/ ~A!CanStep)'
  BY DEF AbortJustified
<1>1. CASE Abort
  <2>1. FetchFaults \/ MemoryFaults
    BY <1>1 DEF Abort
  <2>2. ~FetchFaults /\ MemoryFaults => ~A!CanStep
    <3> SUFFICES ASSUME ~FetchFaults, MemoryFaults PROVE ~A!CanStep
      OBVIOUS
    <3>1. MemoryDue.addr # NoAddr
      <4> SUFFICES ASSUME MemoryDue.addr = NoAddr PROVE FALSE
        OBVIOUS
      <4>1. MemoryDue = Shifted[4] /\ Genuine(imem, Shifted[4]) /\ FetchedPc \in Words
        BY DueIs, ShiftedShape DEF Inv
      <4>2. MemoryDue.ins = Nop /\ ~MemoryDue.branch
        BY <4>1 DEF Genuine
      <4>3. ~IsMemoryAccess(MemoryDue) /\ NextPc(MemoryDue, FetchedPc) = FetchedPc
        BY <4>2 DEF IsMemoryAccess, NextPc, Nop
      <4> QED BY <4>1, <4>3 DEF MemoryFaults, Words
    <3> QED BY <3>1, CanStepIs
  <2> QED BY <1>1, <2>1, <2>2, ArchUnchanged DEF Abort
<1>2. CASE UNCHANGED vars
  BY <1>2, ArchUnchanged DEF vars, AbortJustified
<1>3. CASE Advance \/ Wait \/ Reset
  BY <1>3 DEF Advance, Wait, Reset, Running
<1> QED BY <1>1, <1>2, <1>3 DEF Next, Cycle

(* No failed CHECK is due to an instruction that the program never         *)
(* reaches: a load, a store or a jump that was fetched behind a taken      *)
(* branch kills nothing.                                                   *)
THEOREM DiesOnlyOfTheProgram == NoDoubleUse => (Spec => []AbortJustified)
<1> SUFFICES ASSUME NoDoubleUse PROVE Spec => []AbortJustified
  OBVIOUS
<1>1. Init => AbortJustified
  BY DEF Init, AbortJustified
<1> QED BY <1>1, InvCorrect, NextJustified, PTL DEF Spec
-----------------------------------------------------------------------------
(* The programs of the code start at 0 and branch by even distances.       *)
EvenAddresses == \A m \in Images : \A a \in DOMAIN m : a % 2 = 0

(* v is a link that a call stored in r, or r has not been written yet. 20  *)
(* is what jal and jalr add in all: the instructions the program counter   *)
(* is ahead by (12), and LinkOffset.                                       *)
Linked(r, v) == \/ v = 0
                \/ \E a \in DOMAIN imem : /\ imem[a].op \in {"jal", "jalr"}
                                          /\ imem[a].rd = r
                                          /\ v = Word(a + 20)

(* Registers that only calls write hold links.                             *)
LinkInv ==
  /\ \A a \in DOMAIN imem : a % 2 = 0
  /\ \A r \in Regs : LinkOnly(r) => Linked(r, ArchRegs[r])

(* The words of even numbers are even.                                     *)
LEMMA EvenWord ==
  ASSUME NEW x \in Int, x % 2 = 0
  PROVE  Word(x) % 2 = 0
<1> DEFINE q == x \div WordMod
           h == WordMod \div 2
           y == x \div 2
<1>1. q \in Int /\ Word(x) \in Int /\ x = (q * WordMod) + Word(x)
  BY DivModInt, WordModAssumption DEF Word
<1>2. h \in Int /\ WordMod = 2 * h /\ y \in Int /\ x = 2 * y
  BY WordModAssumption
<1> HIDE DEF q, h, y
<1>3. q * WordMod = 2 * (q * h)
  BY <1>1, <1>2
<1>4. q * h \in Int
  BY <1>1, <1>2
<1> DEFINE z == q * h
<1>5. Word(x) = 2 * (y - z) /\ z \in Int
  BY <1>1, <1>2, <1>3, <1>4
<1> HIDE DEF z
<1> QED BY <1>1, <1>2, <1>5

(* A jump through a link lands one instruction behind its call; one through*)
(* a register that was never written is refused.                           *)
LEMMA JumpBack ==
  ASSUME NEW a \in Words, a % 2 = 0, NEW ins \in Instrs,
         ins.op = "jalr", ins.imm = 0
  PROVE  /\ Jump(Address(ins, 0)) < 0
         /\ Jump(Address(ins, Word(a + 20))) = Signed(Word(a + 4))
<1>1. a \in Int /\ (a + 20) % 2 = 0
  BY WordIsWord
<1> DEFINE b == a + 20
           w == Word(b)
<1>2. w \in Words /\ w \in Int /\ w % 2 = 0 /\ Word(w) = w
  <2>1. b \in Int /\ b % 2 = 0
    BY <1>1
  <2> HIDE DEF b
  <2>2. w \in Words /\ w % 2 = 0
    BY <2>1, WordType, EvenWord
  <2> HIDE DEF w
  <2> QED BY <2>2, WordIsWord
<1>3. Word(w + (-16)) = Word(a + 4)
  <2> DEFINE k == -16
  <2>1. b \in Int /\ k \in Int /\ b + k = a + 4
    BY <1>1
  <2> HIDE DEF b, k
  <2>2. Word(Word(b) + k) = Word(b + k)
    BY <2>1, WordPlus
  <2> QED BY <2>1, <2>2 DEF k
<1> HIDE DEF w
<1>4. Address(ins, w) = w
  <2>1. w + ins.imm = w
    BY <1>2
  <2> QED BY <1>2, <2>1 DEF Address
<1>5. Jump(w) = Signed(Word(a + 4))
  <2>1. w - PipelineOffset = w + (-16)
    BY <1>2 DEF PipelineOffset, InstrBytes
  <2> QED BY <1>3, <2>1 DEF Jump
<1>6. Jump(Address(ins, 0)) < 0
  <2>1. Address(ins, 0) = 0
    BY WordModAssumption DEF Address, Word
  <2>2. 0 - PipelineOffset = -16
    BY DEF PipelineOffset, InstrBytes
  <2>3. Word(-16) = WordMod - 16
    <3> DEFINE n == WordMod
    <3>1. n \in Nat \ {0} /\ n - 16 \in 0 .. n - 1
      BY WordModAssumption
    <3>2. (-1 * n) + (n - 16) = -16
      BY <3>1
    <3> HIDE DEF n
    <3>3. ((-1 * n) + (n - 16)) % n = n - 16
      BY <3>1, ModUnique
    <3> QED BY <3>2, <3>3 DEF Word, n
  <2> QED BY <2>1, <2>2, <2>3, WordModAssumption DEF Jump, Signed
<1> QED BY <1>4, <1>5, <1>6 DEF w, b

(* A step keeps every register that only calls write a link.               *)
LEMMA LinkedNext ==
  ASSUME Inv, LinkInv, Advance, NEW r \in Regs, LinkOnly(r)'
  PROVE  Linked(r, ArchRegs[r])'
<1>0. TypeInv /\ StructInv /\ ~FetchFaults /\ ~MemoryFaults /\ imem' = imem
  BY AdvanceStep DEF Inv
<1>1. LinkOnly(r) /\ Linked(r, ArchRegs[r])
  BY <1>0 DEF LinkInv, LinkOnly
<1>2. ArchRegs' = After(ArchRegs, Accessed) /\ ArchRegs \in [Regs -> Words]
  BY <1>0, ArchRegsNext, ArchRegsType
<1>3. /\ MemoryDue = Shifted[4] /\ Accessed.ins = MemoryDue.ins
      /\ Accessed.addr = MemoryDue.addr /\ Accessed \in Slots
      /\ MemoryDue.ins.op # "lw" => Accessed.rd = MemoryDue.rd
  BY <1>0, DueIs, StagesShape, StepTypes, AccessedSlot DEF Accessed
<1>4. CASE WritesToRd(Accessed.ins) /\ Accessed.ins.rd = r
  <2>1. MemoryDue.addr # NoAddr
    <3>1. Genuine(imem, Accessed) /\ ~WritesToRd(Nop)
      BY <1>0, StagesShape, BubbleType, Kinds DEF Nop
    <3> QED BY <1>3, <1>4, <3>1 DEF Genuine
  <2>2. /\ ArchPc \in Words /\ ArchPc \in DOMAIN imem
        /\ imem[ArchPc] = Accessed.ins
        /\ Computes(Accessed.ins) =>
             MemoryDue.rd = Computed(Accessed.ins, Arch1, Arch2, Word(ArchPc + 12))
    BY <1>0, <1>3, <2>1, DueReady DEF ArchIns
  <2>3. Accessed.ins.op \in {"jal", "jalr"}
    BY <1>1, <1>4, <2>2 DEF LinkOnly
  <2>4. Accessed.rd = Word(ArchPc + 20)
    <3> DEFINE b == ArchPc + 12
               k == LinkOffset
    <3>1. b \in Int /\ k \in Int /\ b + k = ArchPc + 20
      BY <2>2, WordIsWord DEF LinkOffset, InstrBytes
    <3>2. Accessed.rd = Word(Word(b) + k)
      BY <1>3, <2>2, <2>3 DEF Computes, Computed
    <3> HIDE DEF b, k
    <3>3. Word(Word(b) + k) = Word(b + k)
      BY <3>1, WordPlus
    <3> QED BY <3>1, <3>2, <3>3
  <2>5. ArchRegs'[r] = IF r = 0 THEN ArchRegs[r] ELSE Word(ArchPc + 20)
    BY <1>2, <1>4, <2>4 DEF After, Written
  <2>6. CASE r = 0
    BY <1>0, <1>1, <2>5, <2>6 DEF Linked
  <2>7. CASE r # 0
    BY <1>0, <1>4, <2>2, <2>3, <2>5, <2>7 DEF Linked
  <2> QED BY <2>6, <2>7
<1>5. CASE ~(WritesToRd(Accessed.ins) /\ Accessed.ins.rd = r)
  <2>1. Accessed.ins.rd \in Regs
    BY <1>3 DEF Slots, Instrs
  <2>2. ArchRegs'[r] = ArchRegs[r]
    BY <1>2, <1>5, <2>1 DEF After, Written
  <2> QED BY <1>0, <1>1, <2>2 DEF Linked
<1> QED BY <1>4, <1>5

(* The jump itself: the link it reads sends the program behind the call.   *)
LEMMA AdvanceReturns ==
  ASSUME Inv, LinkInv, Advance
  PROVE  ReturnsToCaller'
<1> USE DEF MemoryAccessStage, ExecuteStage
<1>0. TypeInv /\ StructInv /\ ~FetchFaults /\ ~MemoryFaults /\ imem' = imem
  BY AdvanceStep DEF Inv
<1>1. queue'[LastPending' + 1] = Accessed
  BY <1>0, DoneNext
<1>2. /\ MemoryDue = Shifted[4] /\ Accessed.ins = MemoryDue.ins
      /\ Accessed.addr = MemoryDue.addr /\ Accessed \in Slots
  BY <1>0, DueIs, StagesShape, StepTypes
<1> SUFFICES ASSUME JumpDone(Accessed), Accessed.ins.imm = 0,
                    LinkOnly(Accessed.ins.rs1)
             PROVE  \E a \in DOMAIN imem : /\ imem[a].op \in {"jal", "jalr"}
                                           /\ imem[a].rd = Accessed.ins.rs1
                                           /\ ArchPc' = Word(a + InstrBytes)
  BY <1>0, <1>1 DEF ReturnsToCaller, LinkOnly, JumpDone
<1> DEFINE ins == Accessed.ins
           r == Accessed.ins.rs1
<1>3. MemoryDue.addr # NoAddr /\ ins.op = "jalr"
  BY <1>2 DEF JumpDone
<1>4. /\ ArchIns = ins /\ ins \in Instrs /\ MemoryDue.ea = Address(ins, ArchRegs[r])
      /\ r \in Regs
  BY <1>0, <1>2, <1>3, DueReady DEF Arch1, Instrs
<1>5. Jump(MemoryDue.ea) >= 0 /\ ArchPc' = Word(Jump(MemoryDue.ea))
  <2>1. NextPc(MemoryDue, FetchedPc) = Jump(MemoryDue.ea)
    <3>1. ~MemoryDue.branch
      BY <1>0, <1>2, <1>3, DueReady DEF WillBranch
    <3> QED BY <1>2, <1>3, <3>1 DEF NextPc
  <2>2. ~IsMemoryAccess(MemoryDue) /\ ChangesFlow(Accessed)
    BY <1>2, <1>3 DEF IsMemoryAccess, ChangesFlow
  <2>3. Jump(MemoryDue.ea) \in Int
    BY <1>0, DueIs, JumpType DEF Slots
  <2> QED BY <1>0, <1>2, <2>1, <2>2, <2>3, ArchPcNext DEF MemoryFaults, MovedPc
<1>6. Linked(r, ArchRegs[r])
  BY <1>4 DEF LinkInv
<1>7. \E a \in DOMAIN imem : /\ imem[a].op \in {"jal", "jalr"}
                             /\ imem[a].rd = r
                             /\ ArchRegs[r] = Word(a + 20)
  <2> SUFFICES ASSUME ArchRegs[r] = 0 PROVE FALSE
    BY <1>6 DEF Linked
  <2>1. Jump(Address(ins, 0)) < 0
    <3>1. 0 \in Words /\ 0 % 2 = 0
      BY WordModAssumption DEF Words
    <3> QED BY <1>3, <1>4, <3>1, JumpBack
  <2>2. Jump(Address(ins, 0)) \in Int
    BY <1>0, <1>4, DueIs, JumpType DEF Slots
  <2> QED BY <1>4, <1>5, <2>1, <2>2
<1>8. PICK a \in DOMAIN imem : /\ imem[a].op \in {"jal", "jalr"}
                               /\ imem[a].rd = r
                               /\ ArchRegs[r] = Word(a + 20)
  BY <1>7
<1>9. a \in Words /\ a % 2 = 0 /\ Word(a + 4) \in Words
  BY <1>0, WordIsWord, WordType DEF LinkInv, TypeInv, TypeOK, IsProgram
<1>10. Jump(MemoryDue.ea) = Signed(Word(a + 4))
  BY <1>3, <1>4, <1>8, <1>9, JumpBack
<1>11. ArchPc' = Word(a + 4)
  <2> DEFINE w == Word(a + 4)
  <2>1. w \in Words /\ Signed(w) >= 0 /\ ArchPc' = Word(Signed(w))
    BY <1>5, <1>9, <1>10
  <2> HIDE DEF w
  <2>2. Signed(w) = w /\ Word(w) = w
    BY <2>1, WordIsWord, WordModAssumption DEF Signed, Words
  <2> QED BY <2>1, <2>2 DEF w
<1> QED BY <1>8, <1>11 DEF InstrBytes

(* Both are kept by every step.                                            *)
LEMMA NextReturns ==
  Inv /\ LinkInv /\ ReturnsToCaller /\ [Next]_vars => LinkInv' /\ ReturnsToCaller'
<1> SUFFICES ASSUME Inv, LinkInv, ReturnsToCaller, [Next]_vars
             PROVE  LinkInv' /\ ReturnsToCaller'
  OBVIOUS
<1>1. CASE Advance
  <2>1. imem' = imem
    BY <1>1 DEF Advance
  <2> QED BY <1>1, <2>1, LinkedNext, AdvanceReturns DEF LinkInv
<1>2. CASE UNCHANGED <<imem, pc, regs, queue, delay>>
  <2>1. ArchPc' = ArchPc /\ ArchRegs' = ArchRegs /\ LastPending' = LastPending
        /\ imem' = imem /\ queue' = queue
    BY <1>2, ArchUnchanged
  <2>2. LinkInv'
    BY <2>1 DEF LinkInv, LinkOnly, Linked
  <2>3. ReturnsToCaller'
    BY <2>1 DEF ReturnsToCaller, LinkOnly
  <2> QED BY <2>2, <2>3
<1>3. CASE Reset
  <2>1. A!Restart /\ queue'[LastPending' + 1] = Bubble
    BY <1>3, ResetRefines DEF Inv
  <2>2. imem' = imem /\ \A r \in Regs : ArchRegs'[r] = 0
    BY <2>1, SameConstants DEF A!Restart, A!ZeroRegs
  <2>3. LinkInv'
    BY <2>2 DEF LinkInv, Linked
  <2>4. ReturnsToCaller'
    BY <2>1, BubbleType DEF ReturnsToCaller, JumpDone
  <2> QED BY <2>3, <2>4
<1> QED BY <1>1, <1>2, <1>3 DEF Next, Cycle, Wait, Abort, vars

(* A return lands behind a call: a jump through a register that only calls *)
(* write goes to the instruction behind one of these calls, although the   *)
(* link is stored 16 bytes too far and the jump takes 16 off again, with   *)
(* wrap-around. Even addresses are needed because a jump clears the lowest *)
(* bit.                                                                    *)
THEOREM CallsReturn ==
  NoDoubleUse /\ EvenAddresses => (Spec => []ReturnsToCaller)
<1> SUFFICES ASSUME NoDoubleUse, EvenAddresses PROVE Spec => []ReturnsToCaller
  OBVIOUS
<1>1. Init => LinkInv /\ ReturnsToCaller
  <2> SUFFICES ASSUME Init PROVE LinkInv /\ ReturnsToCaller
    OBVIOUS
  <2>1. queue[LastPending + 1] = Bubble
    BY DEF Init, LastPending, ExecuteStage, NumStages
  <2>2. \A r \in Regs : ArchRegs[r] = 0
    BY InitRefines, SameConstants DEF A!Init, A!ZeroRegs
  <2>3. LinkInv
    BY <2>2 DEF Init, EvenAddresses, LinkInv, Linked
  <2>4. ReturnsToCaller
    BY <2>1, BubbleType DEF ReturnsToCaller, JumpDone
  <2> QED BY <2>3, <2>4
<1> QED BY <1>1, InvCorrect, NextReturns, PTL DEF Spec
=============================================================================
