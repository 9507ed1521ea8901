--------------------------- MODULE PipelineProofs ---------------------------
(***************************************************************************)
(* Proofs about the pipeline, for every program, memory, latency and word  *)
(* width: types, and the shape of the queue.                               *)
(*                                                                         *)
(* The argument: a cycle leaves the slots that DecodedNow, ExecutedNow and *)
(* Accessed name in the stages behind theirs (AdvanceQueue). What is       *)
(* fetched is therefore a run of consecutive addresses with no gap but the *)
(* bubble of a pending delay (StructInv), and that run is what the         *)
(* constants of jal, jalr and the branches count on. It needs that no load *)
(* is followed by an instruction that reads its register twice             *)
(* (NoDoubleUse): the code inserts two delays there, and the shape is      *)
(* lost.                                                                   *)
(***************************************************************************)
EXTENDS Pipeline, SequenceTheorems, TLAPS

(* Integer division, with a remainder for every sign of the dividend.      *)
LEMMA DivModInt ==
  ASSUME NEW x \in Int, NEW n \in Nat \ {0}
  PROVE  /\ x \div n \in Int
         /\ x % n \in 0 .. n - 1
         /\ x = ((x \div n) * n) + (x % n)
OBVIOUS

(* The remainder is unique.                                                *)
LEMMA ModUnique ==
  ASSUME NEW q \in Int, NEW n \in Nat \ {0}, NEW r \in 0 .. n - 1
  PROVE  ((q * n) + r) % n = r
OBVIOUS

(* Multiplication distributes over a sum.                                  *)
LEMMA Distribute ==
  ASSUME NEW q \in Int, NEW p \in Int, NEW n \in Int
  PROVE  /\ (q + p) * n = (q * n) + (p * n)
         /\ q * n \in Int /\ p * n \in Int
OBVIOUS

(* Word reduces an integer to a word ...                                   *)
LEMMA WordType ==
  ASSUME NEW x \in Int
  PROVE  Word(x) \in Words
BY DivModInt, WordModAssumption DEF Word, Words

(* ... leaves a word alone ...                                             *)
LEMMA WordIsWord ==
  ASSUME NEW w \in Words
  PROVE  w \in Int /\ Word(w) = w
<1>1. w \in 0 .. WordMod - 1 /\ WordMod \in Nat \ {0}
  BY WordModAssumption DEF Words
<1> QED BY <1>1 DEF Word

(* ... and may be left out below another Word.                             *)
LEMMA WordPlus ==
  ASSUME NEW x \in Int, NEW k \in Int
  PROVE  Word(Word(x) + k) = Word(x + k)
<1> DEFINE n == WordMod
           y == Word(x) + k
           q == x \div n
           p == y \div n
<1>1. n \in Nat \ {0}
  BY WordModAssumption
<1>2. q \in Int /\ Word(x) \in 0 .. n - 1 /\ x = (q * n) + Word(x)
  BY <1>1, DivModInt DEF Word
<1>3. y \in Int /\ p \in Int /\ Word(y) \in 0 .. n - 1 /\ y = (p * n) + Word(y)
  BY <1>1, <1>2, DivModInt DEF Word
<1>4. x + k = ((q + p) * n) + Word(y)
  <2>1. (q + p) * n = (q * n) + (p * n) /\ q * n \in Int /\ p * n \in Int
    <3> HIDE DEF q, p, n
    <3> QED BY <1>1, <1>2, <1>3, Distribute
  <2> DEFINE a == q * n
             b == p * n
             c == (q + p) * n
  <2>2. c = a + b /\ a \in Int /\ b \in Int /\ x = a + Word(x)
        /\ Word(x) + k = b + Word(y)
    BY <2>1, <1>2, <1>3
  <2>3. x \in Int /\ k \in Int /\ Word(x) \in Int /\ Word(y) \in Int
    BY <1>2, <1>3
  <2> HIDE DEF a, b, c
  <2>4. x + k = c + Word(y)
    BY <2>2, <2>3
  <2> QED BY <2>4 DEF c
<1> HIDE DEF n, q, p
<1>5. q + p \in Int
  BY <1>2, <1>3
<1>6. (((q + p) * n) + Word(y)) % n = Word(y)
  BY <1>1, <1>3, <1>5, ModUnique
<1> QED BY <1>4, <1>6 DEF Word, n

(* A function from 1 .. n to slots is a queue of length n.                 *)
LEMMA IsQueue ==
  ASSUME NEW n \in Nat, NEW f \in [1 .. n -> Slots]
  PROVE  f \in Seq(Slots) /\ Len(f) = n
<1>1. f \in Seq(Slots)
  BY SeqDef
<1>2. DOMAIN f = 1 .. n /\ DOMAIN f = 1 .. Len(f) /\ Len(f) \in Nat
  BY <1>1, LenProperties
<1> QED BY <1>1, <1>2

(* The instructions behind each of the type tests.                         *)
LEMMA Kinds ==
  ASSUME NEW ins \in Instrs
  PROVE  /\ WritesToRd(ins) <=> ins.op \in {"add", "slli", "addi", "jalr", "lw", "lui", "jal"}
         /\ ReadsFromRs1(ins) <=> ins.op \in {"add", "slli", "addi", "jalr", "lw", "beq", "bne", "sw"}
         /\ ReadsFromRs2(ins) <=> ins.op \in {"add", "slli", "beq", "bne", "sw"}
         /\ MayChangeFlow(ins) <=> ins.op \in {"jal", "jalr", "beq", "bne"}
<1>1. ins.op \in Ops
  BY DEF Instrs
<1>2. InstructionType[ins.op] =
        CASE ins.op \in {"nop", "bad"}         -> "NoType"
      [] ins.op \in {"add", "slli"}        -> "RType"
      [] ins.op \in {"addi", "jalr", "lw"} -> "IType"
      [] ins.op = "lui"                    -> "UType"
      [] ins.op = "jal"                    -> "JType"
      [] ins.op \in {"beq", "bne"}         -> "BType"
      [] ins.op = "sw"                     -> "SType"
  BY <1>1 DEF InstructionType
<1> QED BY <1>1, <1>2 DEF Ops, WritesToRd, ReadsFromRs1, ReadsFromRs2, MayChangeFlow
-----------------------------------------------------------------------------
(* What the arithmetic of an instruction yields: words for registers and   *)
(* addresses, integers for the program counter.                            *)
LEMMA ComputedType ==
  ASSUME NEW ins \in Instrs, NEW v1 \in Words, NEW v2 \in Words, NEW p \in Words,
         Computes(ins)
  PROVE  Computed(ins, v1, v2, p) \in Words
<1>1. /\ v1 \in Int /\ v2 \in Int /\ p \in Int
      /\ ins.imm \in Int /\ ins.rs2 \in Nat
  BY WordIsWord DEF Instrs, Regs
<1>2. /\ Word(v1 + v2) \in Words
      /\ Word(v1 + ins.imm) \in Words
      /\ Word(ins.imm) \in Words
      /\ Word(p + LinkOffset) \in Words
  BY <1>1, WordType DEF LinkOffset, InstrBytes
<1>3. Word(v1 * 2 ^ ins.rs2) \in Words
  <2>1. 2 ^ ins.rs2 \in Int
    BY <1>1
  <2>2. v1 * 2 ^ ins.rs2 \in Int
    BY <2>1, <1>1
  <2> QED BY <2>2, WordType
<1> QED BY <1>2, <1>3 DEF Computed, Computes

(* The address of a load, a store or a jump through a register is a word.  *)
LEMMA AddressType ==
  ASSUME NEW ins \in Instrs, NEW v1 \in Words
  PROVE  Address(ins, v1) \in Words
<1> DEFINE sum == Word(v1 + ins.imm)
<1>1. sum \in Words
  BY WordIsWord, WordType DEF Instrs
<1>2. sum - (sum % 2) \in Words
  BY <1>1, WordModAssumption DEF Words
<1> QED BY <1>1, <1>2 DEF Address

(* The signed reading of a word is an integer.                             *)
LEMMA SignedType ==
  ASSUME NEW w \in Words
  PROVE  Signed(w) \in Int
BY WordModAssumption DEF Signed, Words

(* The target of a jump through a register is an integer: it may be        *)
(* negative.                                                               *)
LEMMA JumpType ==
  ASSUME NEW target \in Words
  PROVE  Jump(target) \in Int
BY WordIsWord, WordType, SignedType DEF Jump, PipelineOffset, InstrBytes

(* So is the target of a branch.                                           *)
LEMMA BranchOffsetType ==
  ASSUME NEW p \in Words, NEW offset \in Int
  PROVE  BranchOffset(p, offset) \in Int
BY SignedType DEF BranchOffset, PipelineOffset, InstrBytes

(* Writing a register keeps the register file one.                         *)
LEMMA WrittenType ==
  ASSUME NEW rf \in [Regs -> Words], NEW r \in Regs, NEW data \in Words
  PROVE  Written(rf, r, data) \in [Regs -> Words]
BY DEF Written
-----------------------------------------------------------------------------
(* A freshly fetched instruction fits a slot.                              *)
LEMMA NewSlotType ==
  ASSUME NEW ins \in Instrs, NEW a \in Words \cup {NoAddr}
  PROVE  NewSlot(ins, a) \in Slots
<1>1. 0 \in Words
  BY WordModAssumption DEF Words
<1> QED BY <1>1 DEF NewSlot, Slots

(* A bubble is a slot that holds a no-operation and changes no flow.       *)
LEMMA BubbleType ==
  /\ Nop \in Instrs
  /\ Bubble \in Slots /\ Bubble.ins = Nop /\ Bubble.addr = NoAddr
  /\ ~Bubble.branch
<1>1. Nop \in Instrs
  BY NumRegsAssumption DEF Nop, Instrs, Ops, Regs
<1>2. Bubble \in Slots
  BY <1>1, NewSlotType DEF Bubble
<1>3. Bubble.ins = Nop /\ Bubble.addr = NoAddr /\ ~Bubble.branch
  BY DEF Bubble, NewSlot
<1> QED BY <1>1, <1>2, <1>3

(* Decode fetches the operands and nothing else.                           *)
LEMMA DecodedSlot ==
  ASSUME NEW s \in Slots, NEW rf \in [Regs -> Words]
  PROVE  LET d == Decoded(s, rf)
         IN  /\ d \in Slots
             /\ d.ins = s.ins /\ d.addr = s.addr /\ d.branch = s.branch
             /\ ReadsFromRs1(s.ins) => d.v1 = rf[s.ins.rs1]
             /\ ReadsFromRs2(s.ins) => d.v2 = rf[s.ins.rs2]
<1>1. 0 \in Words
  BY WordModAssumption DEF Words
<1>2. s.ins.rd \in Regs /\ s.ins.rs1 \in Regs /\ s.ins.rs2 \in Regs
  BY DEF Slots, Instrs
<1>3. /\ rf[s.ins.rd] \in Words /\ rf[s.ins.rs1] \in Words
      /\ rf[s.ins.rs2] \in Words
  BY <1>2
<1> QED BY <1>1, <1>3 DEF Decoded, Slots

(* Execute computes the result, the address and the branch flag from the   *)
(* operands the slot has.                                                  *)
LEMMA ExecutedSlot ==
  ASSUME NEW s \in Slots, NEW p \in Words
  PROVE  LET x == Executed(s, p)
         IN  /\ x \in Slots
             /\ x.ins = s.ins /\ x.addr = s.addr
             /\ x.v1 = s.v1 /\ x.v2 = s.v2
             /\ Computes(s.ins) => x.rd = Computed(s.ins, s.v1, s.v2, p)
             /\ s.ins.op \in {"lw", "sw", "jalr"} => x.ea = Address(s.ins, s.v1)
             /\ x.branch = WillBranch(s.ins, s.v1, s.v2)
<1>1. s.ins \in Instrs /\ s.v1 \in Words /\ s.v2 \in Words
      /\ s.rd \in Words /\ s.ea \in Words
  BY DEF Slots
<1>2. Computes(s.ins) => Computed(s.ins, s.v1, s.v2, p) \in Words
  BY <1>1, ComputedType
<1>3. Address(s.ins, s.v1) \in Words
  BY <1>1, AddressType
<1>4. WillBranch(s.ins, s.v1, s.v2) \in BOOLEAN
  BY DEF WillBranch
<1> QED BY <1>1, <1>2, <1>3, <1>4 DEF Executed, Slots

(* The memory access changes the result of a load only.                    *)
LEMMA AccessedSlot ==
  ASSUME NEW s \in Slots, NEW word \in Words
  PROVE  LET m == MemoryAccessed(s, word)
         IN  /\ m \in Slots
             /\ m.ins = s.ins /\ m.addr = s.addr
             /\ m.v1 = s.v1 /\ m.v2 = s.v2 /\ m.ea = s.ea /\ m.branch = s.branch
             /\ m.rd = IF s.ins.op = "lw" THEN word ELSE s.rd
BY DEF MemoryAccessed, Slots

(* Forwarding changes the operands that the older instruction feeds.       *)
LEMMA ForwardedSlot ==
  ASSUME NEW s \in Slots, NEW from \in Slots
  PROVE  LET f == Forwarded(s, from)
         IN  /\ f \in Slots
             /\ f.ins = s.ins /\ f.addr = s.addr /\ f.branch = s.branch
             /\ f.v1 = IF FeedsRs1(from, s) THEN from.rd ELSE s.v1
             /\ f.v2 = IF FeedsRs2(from, s) THEN from.rd ELSE s.v2
BY DEF Forwarded, Slots

(* The program counter behind a slot is an integer.                        *)
LEMMA NextPcType ==
  ASSUME NEW s \in Slots, NEW p \in Words
  PROVE  NextPc(s, p) \in Int
<1>1. s.ins.imm \in Int /\ s.ea \in Words /\ p \in Int
  BY WordIsWord DEF Slots, Instrs
<1>2. BranchOffset(p, s.ins.imm) \in Int /\ Jump(s.ea) \in Int
  BY <1>1, BranchOffsetType, JumpType
<1> QED BY <1>1, <1>2 DEF NextPc
-----------------------------------------------------------------------------
(* The slots of a queue.                                                   *)
LEMMA QueueSlots ==
  ASSUME NEW q \in Seq(Slots)
  PROVE  /\ Len(q) \in Nat
         /\ q \in [1 .. Len(q) -> Slots]
         /\ \A i \in 1 .. Len(q) : q[i] \in Slots
BY LenProperties

(* pop_back takes the oldest slot away.                                    *)
LEMMA PoppedQueue ==
  ASSUME NEW q \in Seq(Slots), Len(q) > 0
  PROVE  /\ Popped(q) \in Seq(Slots) /\ Len(Popped(q)) = Len(q) - 1
         /\ \A i \in 1 .. Len(q) - 1 : Popped(q)[i] = q[i]
<1>1. Len(q) - 1 \in Nat /\ Popped(q) \in [1 .. Len(q) - 1 -> Slots]
  BY QueueSlots DEF Popped
<1>2. \A i \in 1 .. Len(q) - 1 : Popped(q)[i] = q[i]
  BY DEF Popped
<1> QED BY <1>1, <1>2, IsQueue

(* push_front puts a slot in front and moves all others up.                *)
LEMMA PushedQueue ==
  ASSUME NEW q \in Seq(Slots), NEW s \in Slots
  PROVE  /\ Pushed(q, s) \in Seq(Slots) /\ Len(Pushed(q, s)) = Len(q) + 1
         /\ Pushed(q, s)[1] = s
         /\ \A i \in 2 .. Len(q) + 1 : Pushed(q, s)[i] = q[i - 1]
<1>1. Len(q) + 1 \in Nat /\ Pushed(q, s) \in [1 .. Len(q) + 1 -> Slots]
  BY QueueSlots DEF Pushed
<1>2. /\ Pushed(q, s)[1] = s
      /\ \A i \in 2 .. Len(q) + 1 : Pushed(q, s)[i] = q[i - 1]
  BY QueueSlots DEF Pushed
<1> QED BY <1>1, <1>2, IsQueue

(* A flush puts bubbles into the slots up to its stage.                    *)
LEMMA FlushedQueue ==
  ASSUME NEW q \in Seq(Slots), NEW stage \in Nat
  PROVE  /\ Flushed(q, stage) \in Seq(Slots) /\ Len(Flushed(q, stage)) = Len(q)
         /\ \A i \in 1 .. Len(q) :
              Flushed(q, stage)[i] = IF i <= stage THEN Bubble ELSE q[i]
<1>1. Len(q) \in Nat /\ Flushed(q, stage) \in [1 .. Len(q) -> Slots]
  BY QueueSlots, BubbleType DEF Flushed
<1>2. \A i \in 1 .. Len(q) :
        Flushed(q, stage)[i] = IF i <= stage THEN Bubble ELSE q[i]
  BY DEF Flushed
<1> QED BY <1>1, <1>2, IsQueue

(* n delays put n bubbles at their stage and move the rest up.             *)
LEMMA DelayedQueue ==
  ASSUME NEW q \in Seq(Slots), NEW stage \in 1 .. Len(q), NEW n \in Nat
  PROVE  /\ Delayed(q, stage, n) \in Seq(Slots)
         /\ Len(Delayed(q, stage, n)) = Len(q) + n
         /\ \A i \in 1 .. stage - 1 : Delayed(q, stage, n)[i] = q[i]
         /\ \A i \in stage .. stage + n - 1 : Delayed(q, stage, n)[i] = Bubble
         /\ \A i \in stage .. Len(q) : Delayed(q, stage, n)[i + n] = q[i]
<1> DEFINE d == Delayed(q, stage, n)
<1>0. Len(q) \in Nat /\ \A i \in 1 .. Len(q) : q[i] \in Slots
  BY QueueSlots
<1>1. \A i \in 1 .. Len(q) + n :
        d[i] = IF i < stage THEN q[i]
               ELSE IF i < stage + n THEN Bubble ELSE q[i - n]
  BY <1>0 DEF Delayed
<1>2. d \in [1 .. Len(q) + n -> Slots]
  BY <1>0, BubbleType DEF Delayed
<1>3. \A i \in 1 .. stage - 1 : d[i] = q[i]
  BY <1>0, <1>1
<1>4. \A i \in stage .. stage + n - 1 : d[i] = Bubble
  BY <1>0, <1>1
<1>5. ASSUME NEW i \in stage .. Len(q) PROVE d[i + n] = q[i]
  BY <1>0, <1>1
<1>6. d \in Seq(Slots) /\ Len(d) = Len(q) + n
  <2> HIDE DEF d
  <2> QED BY <1>0, <1>2, IsQueue
<1> QED BY <1>3, <1>4, <1>5, <1>6

(* A bubble reads nothing, so nothing is forwarded to it.                  *)
LEMMA ForwardedBubble ==
  ASSUME NEW from \in Slots
  PROVE  Forwarded(Bubble, from) = Bubble
<1>1. ~ReadsFromRs1(Bubble.ins) /\ ~ReadsFromRs2(Bubble.ins)
  BY BubbleType, Kinds DEF Nop
<1>2. ~FeedsRs1(from, Bubble) /\ ~FeedsRs2(from, Bubble)
  BY <1>1 DEF FeedsRs1, FeedsRs2
<1> QED BY <1>2, BubbleType DEF Forwarded, Slots

(* What the data hazard unit makes of a queue: forwarding to the slot in   *)
(* decode, up to two bubbles behind it.                                    *)
LEMMA HazardQueue ==
  ASSUME NEW q \in Seq(Slots), Len(q) >= NumStages
  PROVE  LET n == LoadDelays(q[DecodeStage], q[ExecuteStage])
             r == AfterDataHazard(q)
         IN  /\ n \in 0 .. 2
             /\ r \in Seq(Slots) /\ Len(r) = Len(q) + n
             /\ r[1] = q[1]
             /\ r[2] = Forwarded(Forwarded(q[2], q[4]), q[3])
             /\ \A i \in 3 .. 2 + n : r[i] = Bubble
             /\ \A i \in 3 .. Len(q) : r[i + n] = q[i]
<1> DEFINE n == LoadDelays(q[DecodeStage], q[ExecuteStage])
           f == Forwarded(Forwarded(q[2], q[4]), q[3])
           e == [q EXCEPT ![2] = f]
<1> USE DEF NumStages, DecodeStage, ExecuteStage, MemoryAccessStage
<1>1. n \in 0 .. 2
  BY DEF LoadDelays
<1>2. f \in Slots
  <2>1. q[2] \in Slots /\ q[3] \in Slots /\ q[4] \in Slots
    BY QueueSlots
  <2> QED BY <2>1, ForwardedSlot
<1>3. e \in Seq(Slots) /\ Len(e) = Len(q)
      /\ e[2] = f /\ \A i \in 1 .. Len(q) : i # 2 => e[i] = q[i]
  <2> HIDE DEF f
  <2>1. Len(q) \in Nat /\ q \in [1 .. Len(q) -> Slots]
    BY QueueSlots
  <2>2. e \in [1 .. Len(q) -> Slots]
    BY <2>1, <1>2
  <2>3. e \in Seq(Slots) /\ Len(e) = Len(q)
    <3> HIDE DEF e
    <3> QED BY <2>1, <2>2, IsQueue
  <2> QED BY <2>1, <2>3
<1>4. AfterDataHazard(q) = Delayed(e, 3, n)
  BY DEF AfterDataHazard
<1> HIDE DEF n, f, e
<1>5. 3 \in 1 .. Len(e) /\ n \in Nat
  BY <1>1, <1>3, QueueSlots
<1>6. /\ Delayed(e, 3, n) \in Seq(Slots)
      /\ Len(Delayed(e, 3, n)) = Len(e) + n
      /\ \A i \in 1 .. 3 - 1 : Delayed(e, 3, n)[i] = e[i]
      /\ \A i \in 3 .. 3 + n - 1 : Delayed(e, 3, n)[i] = Bubble
      /\ \A i \in 3 .. Len(e) : Delayed(e, 3, n)[i + n] = e[i]
  <2> DEFINE stage == 3
  <2>1. stage \in 1 .. Len(e)
    BY <1>5
  <2> HIDE DEF stage
  <2>2. /\ Delayed(e, stage, n) \in Seq(Slots)
        /\ Len(Delayed(e, stage, n)) = Len(e) + n
        /\ \A i \in 1 .. stage - 1 : Delayed(e, stage, n)[i] = e[i]
        /\ \A i \in stage .. stage + n - 1 : Delayed(e, stage, n)[i] = Bubble
        /\ \A i \in stage .. Len(e) : Delayed(e, stage, n)[i + n] = e[i]
    BY <1>3, <1>5, <2>1, DelayedQueue
  <2> QED BY <2>2 DEF stage
<1>7. Len(q) \in Nat
  BY QueueSlots
<1> QED BY <1>1, <1>3, <1>4, <1>6, <1>7 DEF n, f
-----------------------------------------------------------------------------
(* The inductive part of TypeOK: a delay is pending only in a queue that   *)
(* is longer than the pipeline, so that popping it leaves a slot per       *)
(* stage.                                                                  *)
TypeInv == /\ TypeOK
           /\ delay => Len(queue) > NumStages

(* The slots that a moving cycle leaves behind: the instruction past its   *)
(* memory access, the one past execute, the one past decode before and     *)
(* after forwarding; and the number of delays inserted.                    *)
Accessed == MemoryAccessed(MemoryDue, LoadedWord)
ExecutedNow == Executed(Shifted[ExecuteStage], MovedPc)
DecodedNow == Decoded(Shifted[DecodeStage], WrittenRegs)
ForwardedNow == Forwarded(Forwarded(DecodedNow, Accessed), ExecutedNow)
Inserted == LoadDelays(DecodedNow, ExecutedNow)

(* The queue the stages run on: the old one, moved up by a fetch or, when  *)
(* a delay is pending, popped only.                                        *)
LEMMA ShiftedQueue ==
  ASSUME TypeInv, ~FetchFaults
  PROVE  /\ Shifted \in Seq(Slots)
         /\ Len(Shifted) >= NumStages
         /\ Len(Shifted) = IF delay THEN Len(queue) - 1 ELSE Len(queue)
         /\ ~delay => /\ pc \in DOMAIN imem /\ imem[pc].op # "bad"
                      /\ Shifted[1] = NewSlot(imem[pc], pc)
         /\ \A i \in 1 .. Len(Shifted) :
              /\ Shifted[i] \in Slots
              /\ delay => Shifted[i] = queue[i]
              /\ ~delay /\ i > 1 => Shifted[i] = queue[i - 1]
<1> USE DEF NumStages
<1>1. /\ queue \in Seq(Slots) /\ Len(queue) \in Nat /\ Len(queue) >= 5
      /\ delay \in BOOLEAN /\ (delay => Len(queue) >= 6)
  BY QueueSlots DEF TypeInv, TypeOK
<1>2. /\ Popped(queue) \in Seq(Slots) /\ Len(Popped(queue)) = Len(queue) - 1
      /\ \A i \in 1 .. Len(queue) - 1 : Popped(queue)[i] = queue[i]
  BY <1>1, PoppedQueue
<1>3. CASE delay
  <2>1. Shifted = Popped(queue)
    BY <1>3 DEF Shifted
  <2> QED BY <1>1, <1>2, <1>3, <2>1, QueueSlots
<1>4. CASE ~delay
  <2> DEFINE s == NewSlot(imem[pc], pc)
  <2>1. pc \in DOMAIN imem /\ imem[pc].op # "bad"
    BY <1>4 DEF FetchFaults
  <2>2. s \in Slots
    BY <2>1, NewSlotType DEF TypeInv, TypeOK, IsProgram
  <2>3. Shifted = Pushed(Popped(queue), s)
    BY <1>4 DEF Shifted
  <2> HIDE DEF s
  <2> DEFINE p == Popped(queue)
  <2>5. p \in Seq(Slots) /\ Len(p) = Len(queue) - 1 /\ Shifted = Pushed(p, s)
    BY <1>1, <1>2, <2>3
  <2> HIDE DEF p
  <2>6. /\ Shifted \in Seq(Slots) /\ Len(Shifted) = Len(p) + 1 /\ Shifted[1] = s
        /\ \A i \in 2 .. Len(p) + 1 : Shifted[i] = p[i - 1]
    BY <2>2, <2>5, PushedQueue
  <2>4. /\ Shifted \in Seq(Slots) /\ Len(Shifted) = Len(queue) /\ Shifted[1] = s
        /\ \A i \in 2 .. Len(queue) : Shifted[i] = Popped(queue)[i - 1]
    BY <1>1, <2>5, <2>6 DEF p
  <2>7. Len(Shifted) >= NumStages /\ (\A i \in 1 .. Len(Shifted) : Shifted[i] \in Slots)
    BY <1>1, <2>4, QueueSlots
  <2>8. ASSUME NEW i \in 1 .. Len(Shifted), i > 1
        PROVE  Shifted[i] = queue[i - 1]
    <3>1. i \in 2 .. Len(queue) /\ i - 1 \in 1 .. Len(queue) - 1
      BY <1>1, <2>4, <2>8
    <3> QED BY <1>2, <2>4, <3>1
  <2>9. Shifted[1] = NewSlot(imem[pc], pc)
    BY <2>4 DEF s
  <2> QED BY <1>4, <2>1, <2>4, <2>7, <2>8, <2>9
<1> QED BY <1>3, <1>4

(* A cycle that does not die computes words and slots.                     *)
LEMMA StepTypes ==
  ASSUME TypeInv, ~FetchFaults, ~MemoryFaults
  PROVE  /\ MemoryDue = Shifted[MemoryAccessStage] /\ MemoryDue \in Slots
         /\ FetchedPc \in Words /\ MovedPc \in Words
         /\ LoadedWord \in Words
         /\ WrittenRegs \in [Regs -> Words]
         /\ Accessed \in Slots /\ ExecutedNow \in Slots
         /\ DecodedNow \in Slots /\ ForwardedNow \in Slots
<1> USE DEF NumStages, DecodeStage, ExecuteStage, MemoryAccessStage, WriteBackStage
<1>1. /\ Len(Shifted) \in Nat /\ Len(Shifted) >= 5
      /\ \A i \in 1 .. 5 : Shifted[i] \in Slots
  BY ShiftedQueue, QueueSlots
<1>2. MemoryDue = Shifted[4]
  BY <1>1, ShiftedQueue DEF MemoryDue
<1>3. MemoryDue \in Slots
  BY <1>1, <1>2
<1>4. FetchedPc \in Words
  BY WordIsWord, WordType DEF FetchedPc, TypeInv, TypeOK, InstrBytes
<1>5. MovedPc \in Words
  BY <1>2, <1>3, <1>4, NextPcType, WordType DEF MovedPc
<1>6. LoadedWord \in Words
  <2>1. 0 \in Words
    BY WordModAssumption DEF Words
  <2>2. MemoryDue.ins.op = "lw" => MemoryDue.ea \in DataAddrs
    BY DEF MemoryFaults, IsMemoryAccess
  <2> QED BY <2>1, <2>2 DEF LoadedWord, TypeInv, TypeOK
<1>7. WrittenRegs \in [Regs -> Words]
  <2>1. Shifted[5].ins.rd \in Regs /\ Shifted[5].rd \in Words
    BY <1>1 DEF Slots, Instrs
  <2> QED BY <2>1, WrittenType DEF WrittenRegs, TypeInv, TypeOK
<1>8. Accessed \in Slots
  BY <1>3, <1>6, AccessedSlot DEF Accessed
<1>9. ExecutedNow \in Slots
  BY <1>1, <1>5, ExecutedSlot DEF ExecutedNow
<1>10. DecodedNow \in Slots
  BY <1>1, <1>7, DecodedSlot DEF DecodedNow
<1>11. ForwardedNow \in Slots
  BY <1>8, <1>9, <1>10, ForwardedSlot DEF ForwardedNow
<1> QED BY <1>2, <1>3, <1>4, <1>5, <1>6, <1>7, <1>8, <1>9, <1>10, <1>11

(* The queue when the stages have run.                                     *)
LEMMA StagesQueue ==
  ASSUME TypeInv, ~FetchFaults, ~MemoryFaults
  PROVE  LET q == StagesRun(LoadedWord)
         IN  /\ q \in Seq(Slots) /\ Len(q) = Len(Shifted)
             /\ q[1] = Shifted[1]
             /\ q[2] = DecodedNow /\ q[3] = ExecutedNow /\ q[4] = Accessed
<1> USE DEF NumStages, DecodeStage, ExecuteStage, MemoryAccessStage
<1> DEFINE q == StagesRun(LoadedWord)
<1>1. /\ Shifted \in Seq(Slots) /\ Len(Shifted) \in Nat /\ Len(Shifted) >= 5
      /\ Shifted \in [1 .. Len(Shifted) -> Slots]
  BY ShiftedQueue, QueueSlots
<1>2. q = [Shifted EXCEPT ![4] = Accessed, ![3] = ExecutedNow, ![2] = DecodedNow]
  <2>1. /\ Accessed = MemoryAccessed(Shifted[4], LoadedWord)
        /\ ExecutedNow = Executed(Shifted[3], MovedPc)
        /\ DecodedNow = Decoded(Shifted[2], WrittenRegs)
    BY StepTypes DEF Accessed, ExecutedNow, DecodedNow
  <2> QED BY <1>1, <2>1 DEF StagesRun
<1> HIDE DEF q
<1>3. q \in [1 .. Len(Shifted) -> Slots]
  BY <1>1, <1>2, StepTypes
<1>4. q \in Seq(Slots) /\ Len(q) = Len(Shifted)
  BY <1>1, <1>3, IsQueue
<1>5. q[1] = Shifted[1] /\ q[2] = DecodedNow /\ q[3] = ExecutedNow /\ q[4] = Accessed
  BY <1>1, <1>2
<1> QED BY <1>4, <1>5 DEF q

(* What a moving cycle does, with the latencies left out.                  *)
LEMMA AdvanceStep ==
  ASSUME TypeInv, Advance
  PROVE  /\ ~FetchFaults /\ ~MemoryFaults
         /\ pc' = MovedPc /\ regs' = WrittenRegs /\ lat' \in Nat
         /\ queue' = AfterDataHazard(AfterControlHazard(StagesRun(LoadedWord)))
         /\ LET ctl == AfterControlHazard(StagesRun(LoadedWord))
            IN  IF LoadDelays(ctl[DecodeStage], ctl[ExecuteStage]) > 0
                THEN delay' = TRUE ELSE delay' = FALSE
         /\ UNCHANGED <<imem, status>>
<1>1. PICK fetchLat \in Latencies, memLat \in Latencies :
        Moves(LoadedWord, fetchLat, memLat)
  BY DEF Advance
<1>2. fetchLat \in Nat /\ memLat \in Nat
  BY LatenciesAssumption
<1> DEFINE ctl == AfterControlHazard(StagesRun(LoadedWord))
           n == LoadDelays(ctl[DecodeStage], ctl[ExecuteStage])
<1>3. /\ pc' = MovedPc /\ regs' = WrittenRegs /\ lat' \in Nat
      /\ queue' = AfterDataHazard(ctl)
      /\ delay' = (n > 0)
  BY <1>1, <1>2 DEF Moves
<1>4. IF n > 0 THEN delay' = TRUE ELSE delay' = FALSE
  <2> DEFINE positive == n > 0
  <2>1. positive \in BOOLEAN
    OBVIOUS
  <2>2. delay' = positive
    BY <1>3
  <2> HIDE DEF positive
  <2>3. IF positive THEN delay' = TRUE ELSE delay' = FALSE
    BY <2>1, <2>2, Zenon
  <2> QED BY <2>3 DEF positive
<1> QED BY <1>3, <1>4 DEF Advance

(* The queue after a moving cycle: three bubbles behind an instruction     *)
(* that changed the flow; otherwise the four youngest instructions, with   *)
(* the inserted delays in front of the one past execute.                   *)
LEMMA AdvanceQueue ==
  ASSUME TypeInv, Advance
  PROVE  /\ queue' \in Seq(Slots)
         /\ Inserted \in 0 .. 2
         /\ IF ChangesFlow(Accessed)
            THEN /\ ~delay'
                 /\ Len(queue') = Len(Shifted)
                 /\ queue'[1] = Bubble /\ queue'[2] = Bubble /\ queue'[3] = Bubble
                 /\ queue'[4] = Accessed
            ELSE /\ delay' <=> Inserted > 0
                 /\ Len(queue') = Len(Shifted) + Inserted
                 /\ queue'[1] = Shifted[1] /\ queue'[2] = ForwardedNow
                 /\ \A i \in 3 .. 2 + Inserted : queue'[i] = Bubble
                 /\ queue'[3 + Inserted] = ExecutedNow
                 /\ queue'[4 + Inserted] = Accessed
<1> USE DEF NumStages, DecodeStage, ExecuteStage, MemoryAccessStage
<1> DEFINE run == StagesRun(LoadedWord)
           ctl == AfterControlHazard(run)
<1>1. /\ queue' = AfterDataHazard(ctl)
      /\ IF LoadDelays(ctl[2], ctl[3]) > 0 THEN delay' = TRUE ELSE delay' = FALSE
      /\ ~FetchFaults /\ ~MemoryFaults
  BY AdvanceStep
<1>2. /\ run \in Seq(Slots) /\ Len(run) = Len(Shifted)
      /\ run[1] = Shifted[1] /\ run[2] = DecodedNow /\ run[3] = ExecutedNow
      /\ run[4] = Accessed
  BY <1>1, StagesQueue
<1>3. Len(run) \in Nat /\ Len(run) >= 5
  BY <1>1, <1>2, ShiftedQueue, QueueSlots
<1>4. Inserted \in 0 .. 2
  BY DEF Inserted, LoadDelays
<1> HIDE DEF run
<1>5. CASE ChangesFlow(Accessed)
  <2>1. ctl = Flushed(run, 3)
    BY <1>2, <1>5 DEF AfterControlHazard
  <2> HIDE DEF ctl
  <2>2. /\ ctl \in Seq(Slots) /\ Len(ctl) = Len(run)
        /\ ctl[1] = Bubble /\ ctl[2] = Bubble /\ ctl[3] = Bubble
        /\ ctl[4] = Accessed
    BY <1>2, <1>3, <2>1, FlushedQueue
  <2>3. LoadDelays(Bubble, Bubble) = 0
    BY BubbleType DEF LoadDelays, Nop
  <2>4. Forwarded(Forwarded(ctl[2], ctl[4]), ctl[3]) = Bubble
    BY <1>1, <2>2, ForwardedBubble, BubbleType, StepTypes
  <2>5. /\ queue' \in Seq(Slots) /\ Len(queue') = Len(ctl)
        /\ queue'[1] = ctl[1] /\ queue'[2] = Bubble
        /\ \A i \in 3 .. Len(ctl) : queue'[i + 0] = ctl[i]
    BY <1>1, <1>3, <2>2, <2>3, <2>4, HazardQueue, QueueSlots
  <2>6. queue'[3] = Bubble /\ queue'[4] = Accessed
    BY <1>3, <2>2, <2>5
  <2>7. ~delay'
    BY <1>1, <2>2, <2>3
  <2> QED BY <1>2, <1>4, <1>5, <2>2, <2>5, <2>6, <2>7
<1>6. CASE ~ChangesFlow(Accessed)
  <2>1. ctl = run
    BY <1>2, <1>6 DEF AfterControlHazard
  <2> HIDE DEF ctl
  <2>2. LoadDelays(ctl[2], ctl[3]) = Inserted
    BY <1>2, <2>1 DEF Inserted
  <2>3. Forwarded(Forwarded(ctl[2], ctl[4]), ctl[3]) = ForwardedNow
    BY <1>2, <2>1 DEF ForwardedNow
  <2>4. /\ queue' \in Seq(Slots) /\ Len(queue') = Len(run) + Inserted
        /\ queue'[1] = Shifted[1] /\ queue'[2] = ForwardedNow
        /\ \A i \in 3 .. 2 + Inserted : queue'[i] = Bubble
        /\ \A i \in 3 .. Len(run) : queue'[i + Inserted] = run[i]
    BY <1>1, <1>2, <1>3, <2>1, <2>2, <2>3, HazardQueue
  <2>5. queue'[3 + Inserted] = ExecutedNow /\ queue'[4 + Inserted] = Accessed
    BY <1>2, <1>3, <1>4, <2>4
  <2> QED BY <1>1, <1>2, <1>4, <1>6, <2>2, <2>4, <2>5
<1> QED BY <1>4, <1>5, <1>6
-----------------------------------------------------------------------------
(* The empty pipeline is a queue of bubbles.                               *)
LEMMA EmptyQueue ==
  LET q == [i \in 1 .. NumStages |-> Bubble]
  IN  q \in Seq(Slots) /\ Len(q) = NumStages
<1>1. NumStages \in Nat /\ [i \in 1 .. NumStages |-> Bubble] \in [1 .. NumStages -> Slots]
  BY BubbleType DEF NumStages
<1> QED BY <1>1, IsQueue

(* Types hold at the start ...                                             *)
LEMMA InitType == Init => TypeInv
<1> SUFFICES ASSUME Init PROVE TypeInv
  OBVIOUS
<1>1. IsProgram(imem) /\ delay \in BOOLEAN /\ ~delay /\ lat \in Nat
      /\ status \in {"running", "aborted"}
  BY ImagesAssumption DEF Init
<1>2. /\ pc \in Words /\ regs \in [Regs -> Words]
      /\ dmem \in [DataAddrs -> Words]
  BY WordModAssumption DEF Init, ZeroRegs, Words
<1>3. queue \in Seq(Slots) /\ Len(queue) >= NumStages
  BY EmptyQueue DEF Init, NumStages
<1> QED BY <1>1, <1>2, <1>3 DEF TypeInv, TypeOK

(* ... and are kept by cycles and resets.                                  *)
LEMMA NextType == TypeInv /\ [Next]_vars => TypeInv'
<1> SUFFICES ASSUME TypeInv, [Next]_vars PROVE TypeInv'
  OBVIOUS
<1> USE DEF NumStages
<1>1. CASE Advance
  <2>1. ~FetchFaults /\ ~MemoryFaults /\ UNCHANGED <<imem, status>>
        /\ pc' = MovedPc /\ regs' = WrittenRegs /\ lat' \in Nat
    BY <1>1, AdvanceStep
  <2>2. pc' \in Words /\ regs' \in [Regs -> Words]
    BY <2>1, StepTypes
  <2>3. dmem' \in [DataAddrs -> Words]
    <3>1. MemoryDue.v2 \in Words
      BY <2>1, StepTypes DEF Slots
    <3>2. dmem \in [DataAddrs -> Words]
      BY DEF TypeInv, TypeOK
    <3> QED BY <1>1, <3>1, <3>2 DEF Advance
  <2>4. /\ queue' \in Seq(Slots) /\ Len(queue') >= 5
        /\ delay' \in BOOLEAN /\ (delay' => Len(queue') > 5)
    <3>1. Len(Shifted) \in Nat /\ Len(Shifted) >= 5
      BY <2>1, ShiftedQueue, QueueSlots
    <3>2. Inserted \in 0 .. 2
      BY <1>1, AdvanceQueue
    <3>3. delay' \in BOOLEAN
      BY <1>1, AdvanceStep
    <3>4. CASE ChangesFlow(Accessed)
      BY <1>1, <3>1, <3>3, <3>4, AdvanceQueue
    <3>5. CASE ~ChangesFlow(Accessed)
      BY <1>1, <3>1, <3>2, <3>3, <3>5, AdvanceQueue
    <3> QED BY <3>4, <3>5
  <2> QED BY <2>1, <2>2, <2>3, <2>4 DEF TypeInv, TypeOK
<1>2. CASE Wait
  BY <1>2 DEF Wait, TypeInv, TypeOK
<1>3. CASE Abort
  BY <1>3 DEF Abort, TypeInv, TypeOK
<1>4. CASE Reset
  <2>1. queue \in Seq(Slots) /\ Len(queue) >= 5
    BY DEF TypeInv, TypeOK
  <2>2. queue' \in Seq(Slots) /\ Len(queue') >= 5
    BY <1>4, <2>1, FlushedQueue DEF Reset, WriteBackStage
  <2>3. pc' \in Words /\ regs' \in [Regs -> Words]
    BY <1>4, WordModAssumption DEF Reset, ZeroRegs, Words
  <2> QED BY <1>4, <2>2, <2>3 DEF Reset, TypeInv, TypeOK
<1>5. CASE UNCHANGED vars
  BY <1>5 DEF vars, TypeInv, TypeOK
<1> QED BY <1>1, <1>2, <1>3, <1>4, <1>5 DEF Next, Cycle

(* Every value of the CPU stays in its range, and the queue never gets     *)
(* shorter than the pipeline: Instruction(stage) always finds a slot.      *)
THEOREM TypeCorrect == Spec => []TypeOK
<1>1. TypeInv => TypeOK
  BY DEF TypeInv
<1> QED BY InitType, NextType, <1>1, PTL DEF Spec
-----------------------------------------------------------------------------
(* A slot holds the program's instruction at its address, or a bubble.     *)
Genuine(m, s) ==
  IF s.addr = NoAddr THEN s.ins = Nop /\ ~s.branch
  ELSE s.addr \in DOMAIN m /\ s.ins = m[s.addr] /\ s.ins.op # "bad"

(* b is the address behind a, unless a is that of a bubble.                *)
Follows(b, a) == a # NoAddr => b = Word(a + InstrBytes)

(* From the program counter back to the oldest pending slot the addresses  *)
(* are consecutive; the only gap is the bubble of a pending delay, and     *)
(* that is behind a load.                                                  *)
Sequential ==
  /\ Follows(pc, queue[1].addr)
  /\ Follows(queue[1].addr, queue[2].addr)
  /\ IF delay
     THEN /\ queue[3].addr = NoAddr
          /\ queue[4].addr # NoAddr /\ queue[4].ins.op = "lw"
          /\ Follows(queue[2].addr, queue[4].addr)
     ELSE /\ Follows(queue[2].addr, queue[3].addr)
          /\ LoadDelays(queue[2], queue[3]) = 0

(* The shape of the queue.                                                 *)
StructInv ==
  /\ SingleUse(imem)
  /\ \A i \in 1 .. LastPending + 1 : Genuine(imem, queue[i])
  /\ Sequential

(* The address of a bubble is no word.                                     *)
LEMMA NoAddrNoWord == NoAddr \notin Words
BY DEF NoAddr, Words

(* In front of an instruction there is another one.                        *)
LEMMA FollowsWord ==
  ASSUME NEW b, NEW a \in Words \cup {NoAddr}, a # NoAddr, Follows(b, a)
  PROVE  a \in Words /\ b \in Words /\ b # NoAddr
BY WordIsWord, WordType, NoAddrNoWord DEF Follows, InstrBytes

(* A bubble fits every program.                                            *)
LEMMA BubbleGenuine == \A m : Genuine(m, Bubble)
BY BubbleType DEF Genuine

(* A load delays the instruction behind it once at most: here SingleUse is *)
(* needed.                                                                 *)
LEMMA OneDelay ==
  ASSUME TypeOK, SingleUse(imem), NEW dec \in Slots, NEW ex \in Slots,
         Genuine(imem, dec), Genuine(imem, ex), Follows(dec.addr, ex.addr)
  PROVE  LoadDelays(dec, ex) \in {0, 1}
<1> SUFFICES ASSUME ex.ins.op = "lw", FeedsRs1(ex, dec), FeedsRs2(ex, dec)
             PROVE  FALSE
  BY DEF LoadDelays
<1>1. ex.addr # NoAddr
  BY DEF Genuine, Nop
<1>2. ex.addr \in DOMAIN imem /\ ex.ins = imem[ex.addr]
  BY <1>1 DEF Genuine
<1>3. dec.addr = Word(ex.addr + InstrBytes) /\ dec.addr # NoAddr
  BY <1>1, FollowsWord DEF Follows, Slots
<1>4. dec.addr \in DOMAIN imem /\ dec.ins = imem[dec.addr]
  BY <1>3 DEF Genuine
<1>5. DoubleUse(ex.ins, dec.ins)
  BY DEF DoubleUse, FeedsRs1, FeedsRs2
<1> QED BY <1>2, <1>3, <1>4, <1>5 DEF SingleUse

(* The slots the stages are about to run on.                               *)
LEMMA ShiftedShape ==
  ASSUME TypeInv, StructInv, ~FetchFaults
  PROVE  /\ \A i \in 1 .. 4 : Genuine(imem, Shifted[i])
         /\ Shifted[1].addr # NoAddr
         /\ Follows(FetchedPc, Shifted[1].addr)
         /\ Follows(Shifted[1].addr, Shifted[2].addr)
         /\ Follows(Shifted[2].addr, Shifted[3].addr)
         /\ delay => /\ Shifted[3].addr = NoAddr
                     /\ Shifted[4].addr # NoAddr /\ Shifted[4].ins.op = "lw"
                     /\ Follows(Shifted[2].addr, Shifted[4].addr)
         /\ ~delay => /\ Follows(Shifted[3].addr, Shifted[4].addr)
                      /\ LoadDelays(Shifted[3], Shifted[4]) = 0
<1> USE DEF NumStages
<1>1. /\ Len(Shifted) \in Nat /\ Len(Shifted) >= 5
      /\ \A i \in 1 .. 4 : Shifted[i] \in Slots
  BY ShiftedQueue, QueueSlots
<1>2. pc \in Words
  BY DEF TypeInv, TypeOK
<1>3. CASE delay
  <2>1. \A i \in 1 .. 4 : Shifted[i] = queue[i]
    BY <1>1, <1>3, ShiftedQueue
  <2>2. \A i \in 1 .. 4 : Genuine(imem, Shifted[i])
    BY <1>3, <2>1 DEF StructInv, LastPending, MemoryAccessStage
  <2>3. FetchedPc = pc
    BY <1>3 DEF FetchedPc
  <2>4. /\ Follows(FetchedPc, Shifted[1].addr)
        /\ Follows(Shifted[1].addr, Shifted[2].addr)
        /\ Shifted[3].addr = NoAddr
        /\ Shifted[4].addr # NoAddr /\ Shifted[4].ins.op = "lw"
        /\ Follows(Shifted[2].addr, Shifted[4].addr)
    BY <1>3, <2>1, <2>3 DEF StructInv, Sequential
  <2>5. Shifted[2].addr # NoAddr
    BY <1>1, <2>4, FollowsWord DEF Slots
  <2>6. Shifted[1].addr # NoAddr
    BY <1>1, <2>4, <2>5, FollowsWord DEF Slots
  <2> QED BY <1>3, <2>2, <2>4, <2>6 DEF Follows
<1>4. CASE ~delay
  <2> DEFINE new == NewSlot(imem[pc], pc)
  <2>1. /\ Shifted[1] = new /\ pc \in DOMAIN imem /\ imem[pc].op # "bad"
        /\ Shifted[2] = queue[1] /\ Shifted[3] = queue[2] /\ Shifted[4] = queue[3]
    BY <1>1, <1>4, ShiftedQueue
  <2>2. new.addr = pc /\ new.ins = imem[pc]
    BY DEF NewSlot
  <2> HIDE DEF new
  <2>3. pc # NoAddr
    BY <1>2, NoAddrNoWord
  <2>4. Genuine(imem, Shifted[1])
    BY <2>1, <2>2, <2>3 DEF Genuine
  <2>5. \A i \in 1 .. 4 : Genuine(imem, Shifted[i])
    <3>1. Genuine(imem, queue[1]) /\ Genuine(imem, queue[2]) /\ Genuine(imem, queue[3])
      BY <1>4 DEF StructInv, LastPending, ExecuteStage
    <3> QED BY <2>1, <2>4, <3>1
  <2>6. Follows(FetchedPc, Shifted[1].addr)
    BY <1>4, <2>1, <2>2 DEF Follows, FetchedPc
  <2>7. /\ Follows(Shifted[1].addr, Shifted[2].addr)
        /\ Follows(Shifted[2].addr, Shifted[3].addr)
        /\ Follows(Shifted[3].addr, Shifted[4].addr)
        /\ LoadDelays(Shifted[3], Shifted[4]) = 0
    BY <1>4, <2>1, <2>2 DEF StructInv, Sequential
  <2> QED BY <1>4, <2>1, <2>2, <2>3, <2>5, <2>6, <2>7
<1> QED BY <1>3, <1>4

(* The same slots when the stages have run.                                *)
LEMMA StagesShape ==
  ASSUME TypeInv, StructInv, ~FetchFaults, ~MemoryFaults
  PROVE  /\ Accessed.ins = Shifted[4].ins /\ Accessed.addr = Shifted[4].addr
         /\ Accessed.branch = Shifted[4].branch
         /\ ExecutedNow.ins = Shifted[3].ins /\ ExecutedNow.addr = Shifted[3].addr
         /\ DecodedNow.ins = Shifted[2].ins /\ DecodedNow.addr = Shifted[2].addr
         /\ ForwardedNow.ins = Shifted[2].ins /\ ForwardedNow.addr = Shifted[2].addr
         /\ Genuine(imem, Accessed) /\ Genuine(imem, ExecutedNow)
         /\ Genuine(imem, ForwardedNow)
         /\ Inserted \in {0, 1}
         /\ LoadDelays(ForwardedNow, ExecutedNow) = Inserted
<1> USE DEF NumStages, DecodeStage, ExecuteStage, MemoryAccessStage
<1>1. /\ Len(Shifted) \in Nat /\ Len(Shifted) >= 5
      /\ \A i \in 1 .. 4 : Shifted[i] \in Slots
  BY ShiftedQueue, QueueSlots
<1>2. \A i \in 1 .. 4 : Genuine(imem, Shifted[i])
  BY ShiftedShape
<1>3. MemoryDue = Shifted[4] /\ LoadedWord \in Words /\ MovedPc \in Words
      /\ WrittenRegs \in [Regs -> Words]
      /\ Accessed \in Slots /\ ExecutedNow \in Slots /\ DecodedNow \in Slots
  BY StepTypes
<1>4. Accessed.ins = Shifted[4].ins /\ Accessed.addr = Shifted[4].addr
      /\ Accessed.branch = Shifted[4].branch
  BY <1>1, <1>3, AccessedSlot DEF Accessed
<1>5. /\ ExecutedNow.ins = Shifted[3].ins /\ ExecutedNow.addr = Shifted[3].addr
      /\ ExecutedNow.branch = WillBranch(Shifted[3].ins, Shifted[3].v1, Shifted[3].v2)
  <2>1. Shifted[3] \in Slots /\ MovedPc \in Words
    BY <1>1, <1>3
  <2> QED BY <2>1, ExecutedSlot DEF ExecutedNow
<1>6. /\ DecodedNow.ins = Shifted[2].ins /\ DecodedNow.addr = Shifted[2].addr
      /\ DecodedNow.branch = Shifted[2].branch
  BY <1>1, <1>3, DecodedSlot DEF DecodedNow
<1>7. ForwardedNow.ins = Shifted[2].ins /\ ForwardedNow.addr = Shifted[2].addr
      /\ ForwardedNow.branch = Shifted[2].branch
  <2> DEFINE f == Forwarded(DecodedNow, Accessed)
  <2>1. f \in Slots /\ f.ins = Shifted[2].ins /\ f.addr = Shifted[2].addr
        /\ f.branch = Shifted[2].branch
    BY <1>3, <1>6, ForwardedSlot
  <2> HIDE DEF f
  <2>2. ForwardedNow = Forwarded(f, ExecutedNow)
    BY DEF ForwardedNow, f
  <2> QED BY <1>3, <2>1, <2>2, ForwardedSlot
<1>8. Genuine(imem, Accessed) /\ Genuine(imem, ForwardedNow)
      /\ Genuine(imem, DecodedNow)
  BY <1>1, <1>2, <1>4, <1>6, <1>7 DEF Genuine
<1>9. Genuine(imem, ExecutedNow)
  BY <1>1, <1>2, <1>5 DEF Genuine, WillBranch, Nop
<1>10. Inserted \in {0, 1}
  <2>1. TypeOK /\ SingleUse(imem)
    BY DEF TypeInv, StructInv
  <2>2. Follows(DecodedNow.addr, ExecutedNow.addr)
    BY <1>5, <1>6, ShiftedShape
  <2> QED BY <1>3, <1>8, <1>9, <2>1, <2>2, OneDelay DEF Inserted
<1>11. LoadDelays(ForwardedNow, ExecutedNow) = Inserted
  BY <1>6, <1>7 DEF Inserted, LoadDelays, FeedsRs1, FeedsRs2
<1> QED BY <1>4, <1>5, <1>6, <1>7, <1>8, <1>9, <1>10, <1>11

(* A moving cycle keeps the shape: after a change of flow all is empty,    *)
(* otherwise the run has moved on by one instruction or by one delay.      *)
LEMMA AdvanceStruct ==
  ASSUME TypeInv, StructInv, Advance
  PROVE  StructInv'
<1> USE DEF NumStages, DecodeStage, ExecuteStage, MemoryAccessStage
<1>0. ~FetchFaults /\ ~MemoryFaults /\ imem' = imem /\ pc' = MovedPc
  BY AdvanceStep
<1>1. SingleUse(imem')
  BY <1>0 DEF StructInv
<1>2. ~ChangesFlow(Accessed) => pc' = FetchedPc
  <2>1. SUFFICES ASSUME ~ChangesFlow(Accessed) PROVE pc' = FetchedPc
    OBVIOUS
  <2>2. NextPc(Shifted[4], FetchedPc) = FetchedPc
    BY <1>0, <2>1, StagesShape DEF NextPc, ChangesFlow
  <2> QED BY <1>0, <2>2, StepTypes, WordIsWord DEF MovedPc
<1>3. CASE ChangesFlow(Accessed)
  <2>1. ~delay' /\ queue'[1] = Bubble /\ queue'[2] = Bubble /\ queue'[3] = Bubble
        /\ queue'[4] = Accessed
    BY <1>3, AdvanceQueue
  <2>2. \A i \in 1 .. LastPending' + 1 : Genuine(imem', queue'[i])
    <3>1. LastPending' = 3
      BY <2>1 DEF LastPending
    <3>2. \A i \in 1 .. 4 : Genuine(imem', queue'[i])
      BY <1>0, <2>1, BubbleGenuine, StagesShape
    <3> QED BY <3>1, <3>2
  <2>3. LoadDelays(Bubble, Bubble) = 0
    BY BubbleType DEF LoadDelays, Nop
  <2>4. Sequential'
    BY <2>1, <2>3, BubbleType DEF Sequential, Follows
  <2> QED BY <1>1, <2>2, <2>4 DEF StructInv
<1>4. CASE ~ChangesFlow(Accessed) /\ Inserted = 0
  <2>1. ~delay' /\ queue'[1] = Shifted[1] /\ queue'[2] = ForwardedNow
        /\ queue'[3] = ExecutedNow /\ queue'[4] = Accessed
    BY <1>4, AdvanceQueue
  <2>2. \A i \in 1 .. LastPending' + 1 : Genuine(imem', queue'[i])
    <3>1. LastPending' = 3
      BY <2>1 DEF LastPending
    <3>2. \A i \in 1 .. 4 : Genuine(imem', queue'[i])
      BY <1>0, <2>1, ShiftedShape, StagesShape
    <3> QED BY <3>1, <3>2
  <2>3. Sequential'
    BY <1>0, <1>2, <1>4, <2>1, ShiftedShape, StagesShape DEF Sequential
  <2> QED BY <1>1, <2>2, <2>3 DEF StructInv
<1>5. CASE ~ChangesFlow(Accessed) /\ Inserted = 1
  <2>1. delay' /\ queue'[1] = Shifted[1] /\ queue'[2] = ForwardedNow
        /\ queue'[3] = Bubble /\ queue'[4] = ExecutedNow /\ queue'[5] = Accessed
    BY <1>5, AdvanceQueue
  <2>2. \A i \in 1 .. LastPending' + 1 : Genuine(imem', queue'[i])
    <3>1. LastPending' = 4
      BY <2>1 DEF LastPending
    <3>2. \A i \in 1 .. 5 : Genuine(imem', queue'[i])
      BY <1>0, <2>1, ShiftedShape, StagesShape, BubbleGenuine
    <3> QED BY <3>1, <3>2
  <2>3. ExecutedNow.ins.op = "lw" /\ ExecutedNow.addr # NoAddr
    <3>1. ExecutedNow.ins.op = "lw"
      BY <1>5 DEF Inserted, LoadDelays
    <3> QED BY <1>0, <3>1, StagesShape DEF Genuine, Nop
  <2>4. Sequential'
    BY <1>0, <1>2, <1>5, <2>1, <2>3, BubbleType, ShiftedShape, StagesShape
    DEF Sequential
  <2> QED BY <1>1, <2>2, <2>4 DEF StructInv
<1> QED BY <1>0, <1>3, <1>4, <1>5, StagesShape

(* No program has an instruction that reads the register of the load right *)
(* in front of it through both operands.  For such a program the pipeline  *)
(* is wrong: the run PipelineDoubleUse shows it.                           *)
NoDoubleUse == \A m \in Images : SingleUse(m)

(* The shape holds at the start ...                                        *)
LEMMA InitStruct == NoDoubleUse /\ Init => StructInv
<1> SUFFICES ASSUME NoDoubleUse, Init PROVE StructInv
  OBVIOUS
<1>1. SingleUse(imem) /\ ~delay
  BY DEF NoDoubleUse, Init
<1>2. \A i \in 1 .. 5 : queue[i] = Bubble
  BY DEF Init, NumStages
<1>3. LoadDelays(Bubble, Bubble) = 0
  BY BubbleType DEF LoadDelays, Nop
<1>4. Sequential
  BY <1>1, <1>2, <1>3, BubbleType DEF Sequential, Follows
<1> QED BY <1>1, <1>2, <1>4, BubbleGenuine DEF StructInv, LastPending, ExecuteStage

(* ... and is kept by every step.                                          *)
LEMMA NextStruct == TypeInv /\ StructInv /\ [Next]_vars => StructInv'
<1> SUFFICES ASSUME TypeInv, StructInv, [Next]_vars PROVE StructInv'
  OBVIOUS
<1>1. CASE Advance
  BY <1>1, AdvanceStruct
<1>2. CASE UNCHANGED <<imem, pc, queue, delay>>
  BY <1>2 DEF StructInv, Sequential, LastPending
<1>3. CASE Reset
  <2>1. queue \in Seq(Slots) /\ Len(queue) \in Nat /\ Len(queue) >= 5
    BY QueueSlots DEF TypeInv, TypeOK, NumStages
  <2>2. imem' = imem /\ ~delay' /\ queue' = Flushed(queue, 5)
    BY <1>3 DEF Reset, WriteBackStage
  <2>3. \A i \in 1 .. 5 : queue'[i] = Bubble
    BY <2>1, <2>2, FlushedQueue
  <2>4. LoadDelays(Bubble, Bubble) = 0
    BY BubbleType DEF LoadDelays, Nop
  <2>5. Sequential'
    BY <2>2, <2>3, <2>4, BubbleType DEF Sequential, Follows
  <2>6. \A i \in 1 .. LastPending' + 1 : Genuine(imem', queue'[i])
    BY <2>2, <2>3, BubbleGenuine DEF LastPending, ExecuteStage
  <2> QED BY <2>2, <2>5, <2>6 DEF StructInv
<1> QED BY <1>1, <1>2, <1>3 DEF Next, Cycle, Wait, Abort, vars

(* Types and shape are invariants.                                         *)
LEMMA StructCorrect == NoDoubleUse => (Spec => [](TypeInv /\ StructInv))
<1> SUFFICES ASSUME NoDoubleUse PROVE Spec => [](TypeInv /\ StructInv)
  OBVIOUS
<1>1. Init => TypeInv /\ StructInv
  BY InitType, InitStruct
<1>2. TypeInv /\ StructInv /\ [Next]_vars => TypeInv' /\ StructInv'
  BY NextType, NextStruct
<1> QED BY <1>1, <1>2, PTL DEF Spec

(* An uninterrupted run is a run.                                          *)
LEMMA RunIsSpec == RunSpec => Spec
<1>1. [Cycle]_vars => [Next]_vars
  BY DEF Next
<1> QED BY <1>1, PTL DEF RunSpec, Spec

(* Addresses one, two and three instructions on.                           *)
LEMMA WordSteps ==
  ASSUME NEW a \in Words
  PROVE  /\ Word(Word(a + 4) + 4) = Word(a + 8)
         /\ Word(Word(a + 8) + 4) = Word(a + 12)
         /\ Word(Word(a + 12) + 4) = Word(a + 16)
<1> DEFINE b == a + 4
           c == a + 8
           d == a + 12
<1>1. b \in Int /\ c \in Int /\ d \in Int /\ 4 \in Int
      /\ b + 4 = c /\ c + 4 = d /\ d + 4 = a + 16
  BY WordIsWord
<1> HIDE DEF b, c, d
<1>2. /\ Word(Word(b) + 4) = Word(b + 4)
      /\ Word(Word(c) + 4) = Word(c + 4)
      /\ Word(Word(d) + 4) = Word(d + 4)
  BY <1>1, WordPlus, Zenon
<1>3. /\ Word(Word(b) + 4) = Word(c)
      /\ Word(Word(c) + 4) = Word(d)
      /\ Word(Word(d) + 4) = Word(a + 16)
  BY <1>1, <1>2
<1> QED BY <1>3 DEF b, c, d

(* The shape says where the program counter is.                            *)
LEMMA StructOffsets == TypeInv /\ StructInv => OffsetsExact
<1> SUFFICES ASSUME TypeInv, StructInv,
                    NEW i \in 1 .. LastPending,
                    queue[i].addr # NoAddr, ~(delay /\ i > DecodeStage)
             PROVE  pc = Word(queue[i].addr + i * InstrBytes)
  BY DEF OffsetsExact
<1>1. /\ queue[1].addr \in Words \cup {NoAddr}
      /\ queue[2].addr \in Words \cup {NoAddr}
      /\ queue[3].addr \in Words \cup {NoAddr}
  <2>1. queue \in Seq(Slots) /\ Len(queue) \in Nat /\ Len(queue) >= 5
    BY QueueSlots DEF TypeInv, TypeOK, NumStages
  <2>2. queue[1] \in Slots /\ queue[2] \in Slots /\ queue[3] \in Slots
    BY <2>1, QueueSlots
  <2> QED BY <2>2 DEF Slots
<1>2. Follows(pc, queue[1].addr) /\ Follows(queue[1].addr, queue[2].addr)
      /\ (~delay => Follows(queue[2].addr, queue[3].addr))
  BY DEF StructInv, Sequential
<1>3. i \in 1 .. 3 /\ (i = 3 => ~delay)
  BY DEF LastPending, ExecuteStage, MemoryAccessStage, DecodeStage
<1>4. CASE i = 1
  BY <1>2, <1>4 DEF Follows, InstrBytes
<1>5. CASE i = 2
  <2>1. queue[1].addr = Word(queue[2].addr + 4) /\ pc = Word(queue[1].addr + 4)
    BY <1>1, <1>2, <1>5, FollowsWord DEF Follows, InstrBytes
  <2>2. pc = Word(queue[2].addr + 8)
    BY <1>1, <1>5, <2>1, WordSteps
  <2> QED BY <1>5, <2>2 DEF InstrBytes
<1>6. CASE i = 3
  <2>1. /\ queue[2].addr = Word(queue[3].addr + 4)
        /\ queue[1].addr = Word(queue[2].addr + 4)
        /\ pc = Word(queue[1].addr + 4)
    BY <1>1, <1>2, <1>3, <1>6, FollowsWord DEF Follows, InstrBytes
  <2>2. pc = Word(queue[3].addr + 12)
    BY <1>1, <1>6, <2>1, WordSteps
  <2> QED BY <1>6, <2>2 DEF InstrBytes
<1> QED BY <1>3, <1>4, <1>5, <1>6

(* The constants LinkOffset and PipelineOffset are exact: whenever an      *)
(* instruction in the pipeline is one that may change the flow, the        *)
(* program counter is as many instructions ahead of it as it is stages.    *)
THEOREM BranchesCountRight == NoDoubleUse => (Spec => []OffsetsExact)
<1> SUFFICES ASSUME NoDoubleUse PROVE Spec => []OffsetsExact
  OBVIOUS
<1> QED BY StructCorrect, StructOffsets, PTL

(* A cycle keeps the queue at five slots, or six while a delay is pending. *)
LEMMA CycleDepth ==
  TypeInv /\ StructInv /\ QueueDepth /\ [Cycle]_vars => QueueDepth'
<1> SUFFICES ASSUME TypeInv, StructInv, QueueDepth, [Cycle]_vars PROVE QueueDepth'
  OBVIOUS
<1>1. CASE Advance
  <2>1. ~FetchFaults /\ ~MemoryFaults
    BY <1>1, AdvanceStep
  <2>2. Len(Shifted) = 5
    BY <2>1, ShiftedQueue DEF QueueDepth, NumStages
  <2>3. Inserted \in {0, 1}
    BY <2>1, StagesShape
  <2>4. CASE ChangesFlow(Accessed)
    BY <1>1, <2>2, <2>4, AdvanceQueue DEF QueueDepth, NumStages
  <2>5. CASE ~ChangesFlow(Accessed)
    <3>1. Len(queue') = 5 + Inserted /\ (delay' <=> Inserted > 0)
      BY <1>1, <2>2, <2>5, AdvanceQueue
    <3>2. CASE Inserted = 0
      BY <3>1, <3>2 DEF QueueDepth, NumStages
    <3>3. CASE Inserted = 1
      BY <3>1, <3>3 DEF QueueDepth, NumStages
    <3> QED BY <2>3, <3>2, <3>3
  <2> QED BY <2>4, <2>5
<1>2. CASE UNCHANGED <<queue, delay>>
  BY <1>2 DEF QueueDepth
<1> QED BY <1>1, <1>2 DEF Cycle, Wait, Abort, vars

(* Without resets the queue of the 5-stage pipeline holds five slots, and  *)
(* six while a delay is pending. A reset that finds a delay pending        *)
(* forgets the delay but not its slot, hence RunSpec.                      *)
THEOREM FiveOrSixSlots == NoDoubleUse => (RunSpec => []QueueDepth)
<1> SUFFICES ASSUME NoDoubleUse PROVE RunSpec => []QueueDepth
  OBVIOUS
<1>1. Init => QueueDepth
  <2>1. SUFFICES ASSUME Init PROVE QueueDepth
    OBVIOUS
  <2>2. Len(queue) = 5 /\ ~delay
    <3> DEFINE q == [i \in 1 .. NumStages |-> Bubble]
    <3>1. Len(q) = NumStages
      BY EmptyQueue
    <3> HIDE DEF q
    <3>2. queue = q /\ ~delay
      BY <2>1 DEF Init, q
    <3> QED BY <3>1, <3>2 DEF NumStages
  <2> QED BY <2>2 DEF QueueDepth, NumStages
<1> QED BY <1>1, StructCorrect, RunIsSpec, CycleDepth, PTL DEF RunSpec
=============================================================================
