---------------------------- MODULE SystemProofs ----------------------------
(***************************************************************************)
(* The machine with its caches is the pipeline over a plain memory, and    *)
(* therefore runs every program one instruction at a time.                 *)
(*                                                                         *)
(* The argument: what is proved about Cache and about Pipeline is          *)
(* instantiated with the machine's variables (DP, NP, PP).  A cycle of the *)
(* caches and a read leave the bytes seen through the data cache alone, a  *)
(* write changes those of its word, and a word is its four bytes           *)
(* (LoadsSeen, StoresSeen).  So a step of the machine is a step of the     *)
(* pipeline whose data memory is what is seen through the cache, or none.  *)
(* The invariant SysInv is the conjunction of the parts' invariants.       *)
(***************************************************************************)
EXTENDS System, TLAPS

(* The data cache, the instruction cache and the pipeline with their       *)
(* theorems.                                                               *)
DP == INSTANCE CacheRefinement WITH
        MemSize <- DataSize, Byte <- 0 .. ByteMod - 1, Latency <- CacheLatency,
        Addrs <- DataAddrs, Accesses <- {InstrBytes},
        WriteData <- [0 .. InstrBytes - 1 -> 0 .. ByteMod - 1],
        mem <- dmain, caches <- dcaches, cycle <- dcycle, lastLatency <- dlast,
        out <- dout, alive <- dalive

NP == INSTANCE CacheProofs WITH
        MemSize <- InstrSize, Byte <- {0}, Latency <- CacheLatency,
        Addrs <- 0 .. InstrSize - 1, Accesses <- {InstrBytes}, WriteData <- {},
        mem <- imain, caches <- icaches, cycle <- icycle, lastLatency <- ilast,
        out <- iout, alive <- ialive

PP == INSTANCE PipelineRefinement WITH dmem <- DataWords

(* The policy under which a word that is written is not lost.              *)
WritesBack == PolicyFlag # "write_back"

(* The invariant of the machine: those of its parts, and in the middle of a*)
(* cycle the pipeline is not waiting.                                      *)
SysInv ==
  /\ PP!TypeInv
  /\ DP!Copies /\ DP!DroppedAgrees
  /\ NP!TypeOK
  /\ imem \in Images
  /\ ilast \in Latencies
  /\ phase \in Phases
  /\ resets \in 0 .. MaxResets
  /\ phase = "moving" => lat = 0
-----------------------------------------------------------------------------
(* An instance's operators are the machine's, definition by definition:    *)
(* what the pipeline takes from an instruction ...                         *)
LEMMA SameInstructions ==
  /\ P!Bubble = PP!Bubble /\ P!ZeroRegs = PP!ZeroRegs
  /\ P!DataAddrs = PP!DataAddrs
  /\ \A i : /\ P!WritesToRd(i) <=> PP!WritesToRd(i)
            /\ P!ReadsFromRs1(i) <=> PP!ReadsFromRs1(i)
            /\ P!ReadsFromRs2(i) <=> PP!ReadsFromRs2(i)
            /\ P!Computes(i) <=> PP!Computes(i)
  /\ \A i, v, w, p : P!Computed(i, v, w, p) = PP!Computed(i, v, w, p)
  /\ \A i, v : P!Address(i, v) = PP!Address(i, v)
  /\ \A p, o : P!BranchOffset(p, o) = PP!BranchOffset(p, o)
  /\ \A t : P!Jump(t) = PP!Jump(t)
  /\ \A w : P!Word(w) = PP!Word(w)
  /\ \A rf, r, d : P!Written(rf, r, d) = PP!Written(rf, r, d)
<1>1. /\ P!Bubble = PP!Bubble /\ P!ZeroRegs = PP!ZeroRegs
      /\ P!DataAddrs = PP!DataAddrs
  BY DEF P!Bubble, PP!Bubble, P!NewSlot, PP!NewSlot, P!Nop, PP!Nop, P!NoAddr,
         PP!NoAddr, P!ZeroRegs, PP!ZeroRegs, P!Regs, PP!Regs, P!DataAddrs,
         PP!DataAddrs, P!InstrBytes, PP!InstrBytes
<1>2. ASSUME NEW i
      PROVE  /\ P!WritesToRd(i) <=> PP!WritesToRd(i)
             /\ P!ReadsFromRs1(i) <=> PP!ReadsFromRs1(i)
             /\ P!ReadsFromRs2(i) <=> PP!ReadsFromRs2(i)
             /\ P!Computes(i) <=> PP!Computes(i)
  BY DEF P!WritesToRd, PP!WritesToRd, P!ReadsFromRs1, PP!ReadsFromRs1,
         P!ReadsFromRs2, PP!ReadsFromRs2, P!Computes, PP!Computes,
         P!InstructionType, PP!InstructionType, P!Ops, PP!Ops
<1>3. ASSUME NEW i, NEW v, NEW w, NEW p
      PROVE  P!Computed(i, v, w, p) = PP!Computed(i, v, w, p)
  BY DEF P!Computed, PP!Computed, P!Word, PP!Word, P!LinkOffset, PP!LinkOffset,
         P!InstrBytes, PP!InstrBytes
<1>4. ASSUME NEW p, NEW o
      PROVE  /\ P!Address(p, o) = PP!Address(p, o)
             /\ P!BranchOffset(p, o) = PP!BranchOffset(p, o)
             /\ P!Jump(p) = PP!Jump(p)
             /\ P!Word(p) = PP!Word(p)
  BY DEF P!Address, PP!Address, P!BranchOffset, PP!BranchOffset, P!Jump, PP!Jump,
         P!Signed, PP!Signed, P!Word, PP!Word, P!PipelineOffset,
         PP!PipelineOffset, P!InstrBytes, PP!InstrBytes
<1>5. ASSUME NEW rf, NEW r, NEW d PROVE P!Written(rf, r, d) = PP!Written(rf, r, d)
  BY DEF P!Written, PP!Written
<1> QED BY <1>1, <1>2, <1>3, <1>4, <1>5

(* ... what it does to one slot ...                                        *)
LEMMA SameSlots ==
  /\ \A s, rf : P!Decoded(s, rf) = PP!Decoded(s, rf)
  /\ \A s, p : P!Executed(s, p) = PP!Executed(s, p)
  /\ \A s, w : P!MemoryAccessed(s, w) = PP!MemoryAccessed(s, w)
  /\ \A s, p : P!NextPc(s, p) = PP!NextPc(s, p)
  /\ \A s : P!IsMemoryAccess(s) <=> PP!IsMemoryAccess(s)
  /\ \A s : P!ChangesFlow(s) <=> PP!ChangesFlow(s)
  /\ \A s, t : P!LoadDelays(s, t) = PP!LoadDelays(s, t)
  /\ \A s, t : P!Forwarded(s, t) = PP!Forwarded(s, t)
  /\ \A i, a : P!NewSlot(i, a) = PP!NewSlot(i, a)
<1>1. ASSUME NEW s, NEW t
      PROVE  /\ P!Decoded(s, t) = PP!Decoded(s, t)
             /\ P!MemoryAccessed(s, t) = PP!MemoryAccessed(s, t)
             /\ P!IsMemoryAccess(s) <=> PP!IsMemoryAccess(s)
             /\ P!ChangesFlow(s) <=> PP!ChangesFlow(s)
             /\ P!NewSlot(s, t) = PP!NewSlot(s, t)
  BY SameInstructions
     DEF P!Decoded, PP!Decoded, P!MemoryAccessed, PP!MemoryAccessed,
         P!IsMemoryAccess, PP!IsMemoryAccess, P!ChangesFlow, PP!ChangesFlow,
         P!NewSlot, PP!NewSlot
<1>2. ASSUME NEW s, NEW p PROVE P!Executed(s, p) = PP!Executed(s, p)
  BY SameInstructions DEF P!Executed, PP!Executed, P!WillBranch, PP!WillBranch
<1>3. ASSUME NEW s, NEW p PROVE P!NextPc(s, p) = PP!NextPc(s, p)
  BY SameInstructions DEF P!NextPc, PP!NextPc
<1>4. ASSUME NEW s, NEW t
      PROVE  /\ P!FeedsRs1(s, t) <=> PP!FeedsRs1(s, t)
             /\ P!FeedsRs2(s, t) <=> PP!FeedsRs2(s, t)
  BY SameInstructions
     DEF P!FeedsRs1, PP!FeedsRs1, P!FeedsRs2, PP!FeedsRs2
<1>5. ASSUME NEW s, NEW t
      PROVE  /\ P!LoadDelays(s, t) = PP!LoadDelays(s, t)
             /\ P!Forwarded(s, t) = PP!Forwarded(s, t)
  BY <1>4 DEF P!LoadDelays, PP!LoadDelays, P!Forwarded, PP!Forwarded
<1> QED BY <1>1, <1>2, <1>3, <1>5

(* ... to the queue ...                                                    *)
LEMMA SameQueues ==
  /\ \A q, n : P!Flushed(q, n) = PP!Flushed(q, n)
  /\ \A q : P!AfterControlHazard(q) = PP!AfterControlHazard(q)
  /\ \A q : P!AfterDataHazard(q) = PP!AfterDataHazard(q)
  /\ P!Shifted = PP!Shifted
<1>1. ASSUME NEW q, NEW n, NEW k
      PROVE  /\ P!Flushed(q, n) = PP!Flushed(q, n)
             /\ P!Delayed(q, n, k) = PP!Delayed(q, n, k)
             /\ P!Pushed(q, n) = PP!Pushed(q, n)
             /\ P!Popped(q) = PP!Popped(q)
  <2>1. P!Bubble = PP!Bubble
    BY SameInstructions
  <2> QED BY <2>1 DEF P!Flushed, PP!Flushed, P!Delayed, PP!Delayed, P!Pushed,
                      PP!Pushed, P!Popped, PP!Popped
<1>2. ASSUME NEW q PROVE P!AfterControlHazard(q) = PP!AfterControlHazard(q)
  BY <1>1, SameSlots
     DEF P!AfterControlHazard, PP!AfterControlHazard, P!MemoryAccessStage,
         PP!MemoryAccessStage, P!ExecuteStage, PP!ExecuteStage
<1>3. ASSUME NEW q PROVE P!AfterDataHazard(q) = PP!AfterDataHazard(q)
  BY <1>1, SameSlots
     DEF P!AfterDataHazard, PP!AfterDataHazard, P!MemoryAccessStage,
         PP!MemoryAccessStage, P!ExecuteStage, PP!ExecuteStage, P!DecodeStage,
         PP!DecodeStage
<1>4. P!Shifted = PP!Shifted
  BY <1>1, SameSlots DEF P!Shifted, PP!Shifted
<1> QED BY <1>1, <1>2, <1>3, <1>4

(* ... in one cycle ...                                                    *)
LEMMA SameStages ==
  /\ P!MemoryDue = PP!MemoryDue
  /\ P!FetchFaults <=> PP!FetchFaults
  /\ P!MemoryFaults <=> PP!MemoryFaults
  /\ P!WrittenRegs = PP!WrittenRegs
  /\ P!MovedPc = PP!MovedPc
  /\ P!LoadedWord = PP!LoadedWord
  /\ \A w : P!StagesRun(w) = PP!StagesRun(w)
<1> USE DEF P!DecodeStage, PP!DecodeStage, P!ExecuteStage, PP!ExecuteStage,
            P!MemoryAccessStage, PP!MemoryAccessStage, P!WriteBackStage,
            PP!WriteBackStage
<1>1. P!MemoryDue = PP!MemoryDue /\ P!FetchedPc = PP!FetchedPc
  BY SameInstructions
     DEF P!MemoryDue, PP!MemoryDue, P!FetchedPc, PP!FetchedPc, P!InstrBytes,
         PP!InstrBytes
<1>2. /\ P!FetchFaults <=> PP!FetchFaults
      /\ P!MemoryFaults <=> PP!MemoryFaults
  BY <1>1, SameInstructions, SameSlots
     DEF P!FetchFaults, PP!FetchFaults, P!MemoryFaults, PP!MemoryFaults
<1>3. P!WrittenRegs = PP!WrittenRegs
  BY SameInstructions, SameQueues DEF P!WrittenRegs, PP!WrittenRegs
<1>4. P!MovedPc = PP!MovedPc
  BY <1>1, SameInstructions, SameSlots, SameQueues DEF P!MovedPc, PP!MovedPc
<1>5. P!LoadedWord = PP!LoadedWord
  BY <1>1 DEF P!LoadedWord, PP!LoadedWord
<1>6. ASSUME NEW w PROVE P!StagesRun(w) = PP!StagesRun(w)
  BY <1>3, <1>4, SameSlots, SameQueues DEF P!StagesRun, PP!StagesRun
<1> QED BY <1>1, <1>2, <1>3, <1>4, <1>5, <1>6

(* ... its steps, its initial states and its types.                        *)
LEMMA SamePipeline ==
  /\ P!Next <=> PP!Next
  /\ P!Init <=> PP!Init
  /\ P!TypeOK <=> PP!TypeOK
  /\ UNCHANGED P!vars <=> UNCHANGED PP!vars
<1>1. ASSUME NEW w, NEW f, NEW m
      PROVE  P!Moves(w, f, m) <=> PP!Moves(w, f, m)
  BY SameSlots, SameQueues, SameStages
     DEF P!Moves, PP!Moves, P!DecodeStage, PP!DecodeStage, P!ExecuteStage,
         PP!ExecuteStage
<1>2. P!Running <=> PP!Running
  BY DEF P!Running, PP!Running
<1>3. P!Advance <=> PP!Advance
  BY <1>1, <1>2, SameStages DEF P!Advance, PP!Advance
<1>4. (P!Wait <=> PP!Wait) /\ (P!Abort <=> PP!Abort)
  BY <1>2, SameStages DEF P!Wait, PP!Wait, P!Abort, PP!Abort
<1>5. P!Reset <=> PP!Reset
  BY <1>2, SameInstructions, SameQueues
     DEF P!Reset, PP!Reset, P!WriteBackStage, PP!WriteBackStage
<1>6. P!Init <=> PP!Init
  BY SameInstructions DEF P!Init, PP!Init, P!NumStages, PP!NumStages
<1>7. P!TypeOK <=> PP!TypeOK
  BY SameInstructions
     DEF P!TypeOK, PP!TypeOK, P!IsProgram, PP!IsProgram, P!Instrs, PP!Instrs,
         P!Ops, PP!Ops, P!Words, PP!Words, P!Regs, PP!Regs, P!Slots, PP!Slots,
         P!NoAddr, PP!NoAddr, P!NumStages, PP!NumStages
<1>8. UNCHANGED P!vars <=> UNCHANGED PP!vars
  BY DEF P!vars, PP!vars
<1> QED BY <1>3, <1>4, <1>5, <1>6, <1>7, <1>8
        DEF P!Next, PP!Next, P!Cycle, PP!Cycle

(* The same for the data cache ...                                         *)
LEMMA SameDataCache ==
  /\ D!TypeOK <=> DP!TypeOK
  /\ D!Init <=> DP!Init
  /\ D!AbsMem = DP!AbsMem
  /\ D!AbsMem' = DP!AbsMem'
  /\ D!ExecuteCycle <=> DP!ExecuteCycle
  /\ \A a, n : D!Read(a, n) <=> DP!Read(a, n)
  /\ \A a, n, d : D!Write(a, n, d) <=> DP!Write(a, n, d)
<1> USE DEF D!Sets, DP!Sets, D!Lines, DP!Lines, D!Offsets, DP!Offsets,
            D!MemAddrs, DP!MemAddrs, D!NoData, DP!NoData, D!WritePolicy,
            DP!WritePolicy, D!SwapinMax, DP!SwapinMax, D!WordBytes,
            DP!WordBytes, D!GetTag, DP!GetTag, D!GetLineIndex,
            DP!GetLineIndex, D!GetLineOffset, DP!GetLineOffset,
            D!GetAddress, DP!GetAddress, D!Line, DP!Line, D!EmptyLine,
            DP!EmptyLine, D!LineAt, DP!LineAt, D!Hit, DP!Hit, D!Missed,
            DP!Missed, D!Found, DP!Found, D!Evicts, DP!Evicts, D!Located,
            DP!Located, D!EvictedMem, DP!EvictedMem, D!LocatedMem,
            DP!LocatedMem, D!LocatedLine, DP!LocatedLine, D!AccessLatency,
            DP!AccessLatency, D!InLine, DP!InLine, D!ThroughBytes,
            DP!ThroughBytes, D!WrittenLine, DP!WrittenLine, D!WrittenMem,
            DP!WrittenMem, D!AbsMem, DP!AbsMem
<1>1. (D!TypeOK <=> DP!TypeOK) /\ (D!Init <=> DP!Init)
  BY DEF D!TypeOK, DP!TypeOK, D!Init, DP!Init
<1>2. D!AbsMem = DP!AbsMem /\ D!AbsMem' = DP!AbsMem'
  OBVIOUS
<1>3. D!ExecuteCycle <=> DP!ExecuteCycle
  BY DEF D!ExecuteCycle, DP!ExecuteCycle
<1>4. ASSUME NEW a, NEW n PROVE D!Read(a, n) <=> DP!Read(a, n)
  BY DEF D!Read, DP!Read
<1>5. ASSUME NEW a, NEW n, NEW d PROVE D!Write(a, n, d) <=> DP!Write(a, n, d)
  BY DEF D!Write, DP!Write
<1> HIDE DEF D!Sets, DP!Sets, D!Lines, DP!Lines, D!Offsets, DP!Offsets,
            D!MemAddrs, DP!MemAddrs, D!NoData, DP!NoData, D!WritePolicy,
            DP!WritePolicy, D!SwapinMax, DP!SwapinMax, D!WordBytes,
            DP!WordBytes, D!GetTag, DP!GetTag, D!GetLineIndex,
            DP!GetLineIndex, D!GetLineOffset, DP!GetLineOffset,
            D!GetAddress, DP!GetAddress, D!Line, DP!Line, D!EmptyLine,
            DP!EmptyLine, D!LineAt, DP!LineAt, D!Hit, DP!Hit, D!Missed,
            DP!Missed, D!Found, DP!Found, D!Evicts, DP!Evicts, D!Located,
            DP!Located, D!EvictedMem, DP!EvictedMem, D!LocatedMem,
            DP!LocatedMem, D!LocatedLine, DP!LocatedLine, D!AccessLatency,
            DP!AccessLatency, D!InLine, DP!InLine, D!ThroughBytes,
            DP!ThroughBytes, D!WrittenLine, DP!WrittenLine, D!WrittenMem,
            DP!WrittenMem, D!AbsMem, DP!AbsMem
<1> QED BY <1>1, <1>2, <1>3, <1>4, <1>5

(* ... and for the instruction cache.                                      *)
LEMMA SameInstrCache ==
  /\ N!TypeOK <=> NP!TypeOK
  /\ N!Init <=> NP!Init
  /\ N!ExecuteCycle <=> NP!ExecuteCycle
  /\ \A a, n : N!Read(a, n) <=> NP!Read(a, n)
<1> USE DEF N!Sets, NP!Sets, N!Lines, NP!Lines, N!Offsets, NP!Offsets,
            N!MemAddrs, NP!MemAddrs, N!NoData, NP!NoData, N!WritePolicy,
            NP!WritePolicy, N!SwapinMax, NP!SwapinMax, N!WordBytes,
            NP!WordBytes, N!GetTag, NP!GetTag, N!GetLineIndex,
            NP!GetLineIndex, N!GetLineOffset, NP!GetLineOffset,
            N!GetAddress, NP!GetAddress, N!Line, NP!Line, N!EmptyLine,
            NP!EmptyLine, N!LineAt, NP!LineAt, N!Hit, NP!Hit, N!Missed,
            NP!Missed, N!Found, NP!Found, N!Evicts, NP!Evicts, N!Located,
            NP!Located, N!EvictedMem, NP!EvictedMem, N!LocatedMem,
            NP!LocatedMem, N!LocatedLine, NP!LocatedLine, N!AccessLatency,
            NP!AccessLatency, N!InLine, NP!InLine
<1>1. (N!TypeOK <=> NP!TypeOK) /\ (N!Init <=> NP!Init)
  BY DEF N!TypeOK, NP!TypeOK, N!Init, NP!Init
<1>2. N!ExecuteCycle <=> NP!ExecuteCycle
  BY DEF N!ExecuteCycle, NP!ExecuteCycle
<1>3. ASSUME NEW a, NEW n PROVE N!Read(a, n) <=> NP!Read(a, n)
  BY DEF N!Read, NP!Read
<1> HIDE DEF N!Sets, NP!Sets, N!Lines, NP!Lines, N!Offsets, NP!Offsets,
            N!MemAddrs, NP!MemAddrs, N!NoData, NP!NoData, N!WritePolicy,
            NP!WritePolicy, N!SwapinMax, NP!SwapinMax, N!WordBytes,
            NP!WordBytes, N!GetTag, NP!GetTag, N!GetLineIndex,
            NP!GetLineIndex, N!GetLineOffset, NP!GetLineOffset,
            N!GetAddress, NP!GetAddress, N!Line, NP!Line, N!EmptyLine,
            NP!EmptyLine, N!LineAt, NP!LineAt, N!Hit, NP!Hit, N!Missed,
            NP!Missed, N!Found, NP!Found, N!Evicts, NP!Evicts, N!Located,
            NP!Located, N!EvictedMem, NP!EvictedMem, N!LocatedMem,
            NP!LocatedMem, N!LocatedLine, NP!LocatedLine, N!AccessLatency,
            NP!AccessLatency, N!InLine, NP!InLine
<1> QED BY <1>1, <1>2, <1>3
-----------------------------------------------------------------------------
(* The machine's assumptions are those of its parts.                       *)
LEMMA DataCacheAssumptions ==
  /\ \E k \in 2 .. 16 : LineSize = 2 ^ k
  /\ \E k \in 0 .. 16 : NumLines = 2 ^ k
  /\ LineSize \in Nat \ {0} /\ NumLines \in Nat \ {0}
  /\ SetAssociativity \in Nat \ {0}
  /\ DataSize \in Nat \ {0} /\ DataSize % LineSize = 0
  /\ CacheLatency \in Nat /\ MainLatency \in Nat /\ SubsequentLatency \in Nat
  /\ PolicyFlag \in {"write_back", "write_through"}
  /\ 0 \in 0 .. ByteMod - 1
  /\ DataAddrs \subseteq Nat
  /\ {InstrBytes} \subseteq {1, 2, 4}
  /\ \A d \in [0 .. InstrBytes - 1 -> 0 .. ByteMod - 1] :
       \E n \in {InstrBytes} : d \in [0 .. n - 1 -> 0 .. ByteMod - 1]
  /\ MaxCycles \in Nat
<1>1. 0 \in 0 .. ByteMod - 1 /\ DataAddrs \subseteq Nat
  BY WordIsFourBytes, DataSizeAssumption DEF DataAddrs
<1>2. {InstrBytes} \subseteq {1, 2, 4}
  BY DEF InstrBytes
<1>3. \A d \in [0 .. InstrBytes - 1 -> 0 .. ByteMod - 1] :
       \E n \in {InstrBytes} : d \in [0 .. n - 1 -> 0 .. ByteMod - 1]
  OBVIOUS
<1> QED BY <1>1, <1>2, <1>3, CachesFit, LatenciesCount, PolicyIsOne, BoundsCount, Zenon

LEMMA InstrCacheAssumptions ==
  /\ \E k \in 2 .. 16 : LineSize = 2 ^ k
  /\ \E k \in 0 .. 16 : NumLines = 2 ^ k
  /\ LineSize \in Nat \ {0} /\ NumLines \in Nat \ {0}
  /\ SetAssociativity \in Nat \ {0}
  /\ InstrSize \in Nat \ {0} /\ InstrSize % LineSize = 0
  /\ CacheLatency \in Nat /\ MainLatency \in Nat /\ SubsequentLatency \in Nat
  /\ PolicyFlag \in {"write_back", "write_through"}
  /\ 0 \in {0}
  /\ 0 .. InstrSize - 1 \subseteq Nat
  /\ {InstrBytes} \subseteq {1, 2, 4}
  /\ \A d \in {} : \E n \in {InstrBytes} : d \in [0 .. n - 1 -> {0}]
  /\ MaxCycles \in Nat
<1>1. 0 \in {0} /\ 0 .. InstrSize - 1 \subseteq Nat
  BY CachesFit
<1>2. {InstrBytes} \subseteq {1, 2, 4}
  BY DEF InstrBytes
<1>3. \A d \in {} : \E n \in {InstrBytes} : d \in [0 .. n - 1 -> {0}]
  OBVIOUS
<1> QED BY <1>1, <1>2, <1>3, CachesFit, LatenciesCount, PolicyIsOne, BoundsCount, Zenon

LEMMA PipelineAssumptions ==
  /\ NumRegs \in Nat \ {0}
  /\ WordMod \in Nat \ {0} /\ WordMod % 8 = 0 /\ WordMod >= 32
  /\ DataSize \in Nat /\ DataSize <= WordMod
  /\ \A m \in Images : PP!IsProgram(m)
  /\ Latencies # {} /\ Latencies \subseteq Nat
  /\ MaxDepth \in Nat
<1>1. \A m \in Images : PP!IsProgram(m)
  BY ImagesFill
     DEF IsProgram, PP!IsProgram, Words, PP!Words, Instrs, PP!Instrs, Ops, PP!Ops,
         Regs, PP!Regs
<1>2. Latencies # {} /\ Latencies \subseteq Nat
  BY LatenciesCount DEF Latencies
<1> QED BY <1>1, <1>2, NumRegsAssumption, WordModAssumption, DataSizeAssumption,
           BoundsCount

(* The latency of an access is one the pipeline allows for.                *)
LEMMA AccessLatencies ==
  /\ \A s, a : D!AccessLatency(s, a) \in Latencies
  /\ \A s, a : N!AccessLatency(s, a) \in Latencies
BY LatenciesCount DEF D!AccessLatency, N!AccessLatency, Latencies
-----------------------------------------------------------------------------
(* Integer division by the number of values of a byte.                     *)
LEMMA ByteDiv ==
  ASSUME NEW x \in Nat, NEW b \in Nat, x < ByteMod * b
  PROVE  /\ x \div ByteMod \in Nat /\ x \div ByteMod < b
         /\ x % ByteMod \in 0 .. ByteMod - 1
         /\ x = (x % ByteMod) + ByteMod * (x \div ByteMod)
<1> DEFINE q == x \div ByteMod
<1>1. ByteMod \in Nat \ {0}
  BY WordIsFourBytes
<1>2. q \in Nat /\ x % ByteMod \in 0 .. ByteMod - 1 /\ x = (x % ByteMod) + ByteMod * q
  BY <1>1
<1> HIDE DEF q
<1>3. ByteMod * q < ByteMod * b
  BY <1>1, <1>2
<1>4. q < b
  BY <1>1, <1>2, <1>3
<1> QED BY <1>2, <1>4 DEF q

(* A word is its four bytes.                                               *)
LEMMA WordBytes ==
  ASSUME NEW w \in Words
  PROVE  /\ BytesOf(w) \in [0 .. 3 -> 0 .. ByteMod - 1]
         /\ WordOf(BytesOf(w)) = w
<1> DEFINE m == ByteMod
           x == w \div m
           y == x \div m
           z == y \div m
<1>1. m \in Nat \ {0} /\ w \in Nat /\ w < m * (m * (m * m))
  BY WordIsFourBytes DEF Words
<1>2. m * m \in Nat /\ m * (m * m) \in Nat
  BY <1>1
<1>3. x \in Nat /\ x < m * (m * m) /\ w % m \in 0 .. m - 1 /\ w = (w % m) + m * x
  BY <1>1, <1>2, ByteDiv
<1>4. y \in Nat /\ y < m * m /\ x % m \in 0 .. m - 1 /\ x = (x % m) + m * y
  BY <1>1, <1>2, <1>3, ByteDiv
<1>5. z \in Nat /\ z < m /\ y % m \in 0 .. m - 1 /\ y = (y % m) + m * z
  BY <1>1, <1>2, <1>4, ByteDiv
<1>6. z % m = z /\ z \in 0 .. m - 1
  BY <1>1, <1>5
<1>7. BytesOf(w) = [o \in 0 .. 3 |-> <<w, x, y, z>>[o + 1] % m]
  BY DEF BytesOf
<1> HIDE DEF x, y, z, m
<1>8. /\ BytesOf(w)[0] = w % m /\ BytesOf(w)[1] = x % m
      /\ BytesOf(w)[2] = y % m /\ BytesOf(w)[3] = z
  BY <1>6, <1>7
<1>9. BytesOf(w) \in [0 .. 3 -> 0 .. m - 1]
  <2>1. \A o \in 0 .. 3 : BytesOf(w)[o] \in 0 .. m - 1
    BY <1>3, <1>4, <1>5, <1>6, <1>8
  <2> QED BY <1>7, <2>1
<1>10. WordOf(BytesOf(w)) = (w % m) + m * ((x % m) + m * ((y % m) + m * z))
  BY <1>8 DEF WordOf, m
<1> QED BY <1>3, <1>4, <1>5, <1>9, <1>10 DEF m
-----------------------------------------------------------------------------
(* The bytes of an aligned word are in the data memory.                    *)
LEMMA WordInMemory ==
  ASSUME NEW a \in DataAddrs, NEW o \in 0 .. 3
  PROVE  a \in DP!MemAddrs /\ a + o \in DP!MemAddrs
<1> DEFINE k == DataSize \div LineSize
           j == LineSize \div 4
           i == a \div 4
<1>1. /\ LineSize \in Nat \ {0} /\ LineSize % 4 = 0
      /\ DataSize \in Nat \ {0} /\ DataSize % LineSize = 0
      /\ a \in 0 .. DataSize - 1 /\ a % 4 = 0
  BY CachesFit DEF DataAddrs, InstrBytes
<1>2. k \in Nat /\ j \in Nat /\ DataSize = k * LineSize /\ LineSize = j * 4
      /\ i \in Nat /\ a = i * 4
  BY <1>1
<1> HIDE DEF k, j, i
<1>3. k * j \in Nat /\ DataSize = (k * j) * 4
  BY <1>2
<1>4. a + 4 <= DataSize
  BY <1>1, <1>2, <1>3
<1> QED BY <1>1, <1>4 DEF DP!MemAddrs

(* The words that the program sees change only with the bytes seen through *)
(* the data cache.                                                         *)
LEMMA SameWords == DP!AbsMem' = DP!AbsMem => DataWords' = DataWords
<1> SUFFICES ASSUME DP!AbsMem' = DP!AbsMem PROVE DataWords' = DataWords
  OBVIOUS
<1>1. D!AbsMem' = D!AbsMem
  BY SameDataCache
<1> QED BY <1>1 DEF DataWords, WordOf

(* A cycle of the data cache is not seen ...                               *)
LEMMA CyclesUnseen ==
  ASSUME DP!Copies, DP!Copies', D!ExecuteCycle
  PROVE  DataWords' = DataWords
<1>1. DP!ExecuteCycle
  BY SameDataCache
<1>2. UNCHANGED DP!B!vars
  BY <1>1, DP!CyclesUnseen, DataCacheAssumptions
<1> QED BY <1>2, SameWords DEF DP!B!vars

(* Nor is a step seen that leaves the cache and its memory as they are.    *)
LEMMA DataKept == UNCHANGED <<dmain, dcaches>> => DataWords' = DataWords
<1> SUFFICES ASSUME UNCHANGED <<dmain, dcaches>> PROVE DataWords' = DataWords
  OBVIOUS
<1>1. DP!AbsMem' = DP!AbsMem
  BY DEF DP!AbsMem, DP!Missed, DP!Hit, DP!LineAt
<1> QED BY <1>1, SameWords

(* ... a load gets the word that is seen, and changes none ...             *)
LEMMA LoadsSeen ==
  ASSUME DP!Copies, DP!Copies', DP!DroppedAgrees, NEW a \in DataAddrs,
         D!Read(a, InstrBytes)
  PROVE  DataWords' = DataWords /\ WordOf(LoadedBytes) = DataWords[a]
<1>1. DP!Read(a, InstrBytes) /\ a \in DP!MemAddrs
  BY SameDataCache, WordInMemory
<1>2. DP!B!Read(a, InstrBytes)
  BY <1>1, DP!ReadRefines, DataCacheAssumptions
<1>3. DP!AbsMem' = DP!AbsMem /\ dout' = [o \in 0 .. 3 |-> DP!AbsMem[a + o]]
  BY <1>2 DEF DP!B!Read, DP!B!Bytes, InstrBytes
<1>4. D!AbsMem = DP!AbsMem
  BY SameDataCache
<1> QED BY <1>3, <1>4, SameWords DEF DataWords, LoadedBytes, WordOf

(* ... and a store changes the word at its address.                        *)
LEMMA StoresSeen ==
  ASSUME WritesBack, DP!Copies, DP!Copies', DP!DroppedAgrees, NEW a \in DataAddrs,
         NEW w \in Words, D!Write(a, InstrBytes, BytesOf(w))
  PROVE  DataWords' = [DataWords EXCEPT ![a] = w]
<1> DEFINE d == BytesOf(w)
<1>1. DP!Write(a, InstrBytes, d) /\ a \in DP!MemAddrs
  BY SameDataCache, WordInMemory
<1>2. d \in [0 .. InstrBytes - 1 -> 0 .. ByteMod - 1] /\ WordOf(d) = w
  BY WordBytes DEF InstrBytes
<1> HIDE DEF d
<1>3. DP!NoWordThrough
  BY DEF WritesBack, DP!NoWordThrough, DP!WritePolicy
<1>4. DP!B!Write(a, InstrBytes, d)
  BY <1>1, <1>2, <1>3, DP!WriteRefines, DataCacheAssumptions
<1>5. \A x \in DP!MemAddrs :
        DP!AbsMem'[x] = IF x \in a .. a + 3 THEN d[x - a] ELSE DP!AbsMem[x]
  <2>1. DP!AbsMem' = DP!B!Stored(DP!AbsMem, a, 4, d)
    BY <1>4 DEF DP!B!Write, InstrBytes
  <2> QED BY <2>1 DEF DP!B!Stored, DP!B!MemAddrs, DP!MemAddrs
<1>6. D!AbsMem = DP!AbsMem /\ D!AbsMem' = DP!AbsMem'
  BY SameDataCache
<1>7. ASSUME NEW x \in DataAddrs
      PROVE  WordOf([o \in 0 .. 3 |-> DP!AbsMem'[x + o]])
               = IF x = a THEN w ELSE WordOf([o \in 0 .. 3 |-> DP!AbsMem[x + o]])
  <2>1. x \in Nat /\ a \in Nat /\ x % 4 = 0 /\ a % 4 = 0
    BY DataSizeAssumption DEF DataAddrs, InstrBytes
  <2>2. CASE x = a
    <3>1. \A o \in 0 .. 3 : DP!AbsMem'[x + o] = d[o]
      BY <1>5, <2>1, <2>2, WordInMemory
    <3> QED BY <1>2, <2>2, <3>1 DEF WordOf
  <2>3. CASE x # a
    <3>1. \A o \in 0 .. 3 : x + o \notin a .. a + 3
      BY <2>1, <2>3
    <3>2. \A o \in 0 .. 3 : DP!AbsMem'[x + o] = DP!AbsMem[x + o]
      BY <1>5, <3>1, WordInMemory
    <3> QED BY <2>3, <3>2 DEF WordOf
  <2> QED BY <2>2, <2>3
<1> QED BY <1>6, <1>7 DEF DataWords
-----------------------------------------------------------------------------
(* The instruction whose memory access is due holds words.                 *)
LEMMA DueWords ==
  ASSUME PP!TypeInv, ~P!FetchFaults, ~P!MemoryFaults
  PROVE  P!MemoryDue.v2 \in Words
<1>1. PP!MemoryDue \in PP!Slots
  BY SameStages, PP!StepTypes, PipelineAssumptions
<1> QED BY <1>1, SameStages DEF PP!Slots, PP!Words, Words

(* What a step of the machine does to the data cache ...                   *)
LEMMA DataSteps ==
  ASSUME SysInv, [SystemNext]_systemVars
  PROVE  [DP!Next]_(DP!vars)
<1>1. P!DataAddrs = DataAddrs
  BY DEF P!DataAddrs, DataAddrs, P!InstrBytes, InstrBytes
<1>2. CASE Hold \/ Begin
  <2>1. DP!ExecuteCycle
    BY <1>2, SameDataCache DEF Hold, Begin, CachesCycle
  <2> QED BY <2>1 DEF DP!Next
<1>3. CASE Finish
  <2> DEFINE s == P!MemoryDue
  <2>1. P!IsMemoryAccess(s) => s.ea \in DataAddrs
    BY <1>1, <1>3 DEF Finish, P!MemoryFaults
  <2>2. CASE s.ins.op = "lw" /\ D!Read(s.ea, InstrBytes)
    <3>1. DP!Read(s.ea, InstrBytes) /\ s.ea \in DataAddrs
      BY <2>1, <2>2, SameDataCache DEF P!IsMemoryAccess
    <3> QED BY <3>1 DEF DP!Next
  <2>3. CASE s.ins.op = "sw" /\ D!Write(s.ea, InstrBytes, BytesOf(s.v2))
    <3>1. DP!Write(s.ea, InstrBytes, BytesOf(s.v2)) /\ s.ea \in DataAddrs
      BY <2>1, <2>3, SameDataCache DEF P!IsMemoryAccess
    <3>2. s.v2 \in Words
      BY <1>3, DueWords DEF SysInv, Finish
    <3>3. BytesOf(s.v2) \in [0 .. InstrBytes - 1 -> 0 .. ByteMod - 1]
      BY <3>2, WordBytes DEF InstrBytes
    <3> QED BY <3>1, <3>3 DEF DP!Next
  <2>4. CASE UNCHANGED data
    BY <2>4 DEF data, DP!vars
  <2> QED BY <1>3, <2>2, <2>3, <2>4 DEF Finish
<1>4. CASE Die \/ Restart \/ UNCHANGED systemVars
  BY <1>4 DEF Die, Restart, systemVars, data, DP!vars
<1> QED BY <1>2, <1>3, <1>4 DEF SystemNext

(* ... and to the instruction cache.                                       *)
LEMMA InstrSteps ==
  ASSUME SysInv, [SystemNext]_systemVars
  PROVE  [NP!Next]_(NP!vars) /\ ilast' \in Latencies
<1>1. CASE Hold \/ Begin
  <2>1. NP!ExecuteCycle
    BY <1>1, SameInstrCache DEF Hold, Begin, CachesCycle
  <2> QED BY <2>1 DEF NP!Next, NP!ExecuteCycle, SysInv
<1>2. CASE Finish /\ ~delay
  <2>1. N!Read(pc, InstrBytes) /\ pc \in DOMAIN imem
    BY <1>2 DEF Finish, Fetch, P!FetchFaults
  <2>2. pc \in 0 .. InstrSize - 1
    BY <2>1, ImagesFill DEF SysInv
  <2>3. NP!Next
    BY <2>1, <2>2, SameInstrCache DEF NP!Next
  <2>4. ilast' \in Latencies
    BY <2>1, AccessLatencies DEF N!Read
  <2> QED BY <2>3, <2>4
<1>3. CASE Finish /\ delay
  BY <1>3 DEF Finish, Fetch, instr, NP!vars, SysInv
<1>4. CASE Die \/ Restart \/ UNCHANGED systemVars
  BY <1>4 DEF Die, Restart, systemVars, instr, NP!vars, SysInv
<1> QED BY <1>1, <1>2, <1>3, <1>4 DEF SystemNext

(* The caches keep their invariants.                                       *)
LEMMA CachesKeep ==
  ASSUME WritesBack, SysInv, [SystemNext]_systemVars
  PROVE  DP!Copies' /\ DP!DroppedAgrees' /\ NP!TypeOK'
<1>1. [DP!Next]_(DP!vars) /\ [NP!Next]_(NP!vars)
  BY DataSteps, InstrSteps
<1>2. DP!NoWordThrough
  BY DEF WritesBack, DP!NoWordThrough, DP!WritePolicy
<1>3. DP!Copies'
  BY <1>1, DP!NextCopies, DataCacheAssumptions DEF SysInv
<1>4. DP!DroppedAgrees'
  BY <1>1, <1>2, DP!NextAgrees, DataCacheAssumptions DEF SysInv
<1>5. NP!TypeOK'
  BY <1>1, NP!NextType, InstrCacheAssumptions DEF SysInv
<1> QED BY <1>3, <1>4, <1>5

(* A cycle that moves the machine is one that moves the pipeline.          *)
LEMMA FinishAdvances ==
  ASSUME WritesBack, SysInv, DP!Copies', ilast' \in Latencies, Finish
  PROVE  P!Advance
<1> DEFINE s == P!MemoryDue
<1>1. /\ P!Running /\ lat = 0 /\ ~P!FetchFaults /\ ~P!MemoryFaults
      /\ UNCHANGED <<imem, status>>
  BY DEF Finish, SysInv
<1>2. P!IsMemoryAccess(s) => s.ea \in DataAddrs
  BY <1>1 DEF P!MemoryFaults, P!DataAddrs, DataAddrs, P!InstrBytes, InstrBytes
<1>3. CASE /\ s.ins.op = "lw"
           /\ D!Read(s.ea, InstrBytes)
           /\ P!Moves(WordOf(LoadedBytes), ilast', dlast')
  <2>1. s.ea \in DataAddrs
    BY <1>2, <1>3 DEF P!IsMemoryAccess
  <2>2. DataWords' = DataWords /\ WordOf(LoadedBytes) = DataWords[s.ea]
    BY <1>3, <2>1, LoadsSeen DEF SysInv
  <2>3. P!Moves(P!LoadedWord, ilast', dlast')
    BY <1>3, <2>2 DEF P!LoadedWord
  <2>4. dlast' \in Latencies
    BY <1>3, AccessLatencies DEF D!Read
  <2> QED BY <1>1, <1>3, <2>2, <2>3, <2>4 DEF P!Advance
<1>4. CASE /\ s.ins.op = "sw"
           /\ D!Write(s.ea, InstrBytes, BytesOf(s.v2))
           /\ P!Moves(0, ilast', dlast')
  <2>1. s.ea \in DataAddrs /\ s.v2 \in Words
    BY <1>1, <1>2, <1>4, DueWords DEF P!IsMemoryAccess, SysInv
  <2>2. DataWords' = [DataWords EXCEPT ![s.ea] = s.v2]
    BY <1>4, <2>1, StoresSeen DEF SysInv
  <2>3. P!Moves(P!LoadedWord, ilast', dlast')
    BY <1>4 DEF P!LoadedWord
  <2>4. dlast' \in Latencies
    BY <1>4, AccessLatencies DEF D!Write
  <2> QED BY <1>1, <1>4, <2>2, <2>3, <2>4 DEF P!Advance
<1>5. CASE /\ ~P!IsMemoryAccess(s)
           /\ P!Moves(0, ilast', 0)
           /\ UNCHANGED data
  <2>1. s.ins.op # "lw" /\ s.ins.op # "sw"
    BY <1>5 DEF P!IsMemoryAccess
  <2>2. DataWords' = DataWords
    <3>1. UNCHANGED <<dmain, dcaches>>
      BY <1>5 DEF data
    <3> QED BY <3>1, DataKept
  <2>3. P!Moves(P!LoadedWord, ilast', 0) /\ 0 \in Latencies
    BY <1>5, <2>1, LatenciesCount DEF P!LoadedWord, Latencies
  <2> QED BY <1>1, <2>1, <2>2, <2>3 DEF P!Advance
<1> QED BY <1>3, <1>4, <1>5 DEF Finish

(* Every step of the machine is one of the pipeline, or is not seen.       *)
LEMMA SystemRefines ==
  ASSUME WritesBack, SysInv, [SystemNext]_systemVars
  PROVE  [P!Next]_(P!vars)
<1>0. DP!Copies' /\ ilast' \in Latencies
  BY CachesKeep, InstrSteps
<1>1. CASE Hold
  <2>1. DataWords' = DataWords
    BY <1>0, <1>1, CyclesUnseen DEF Hold, CachesCycle, SysInv
  <2>2. P!Wait
    BY <1>1, <2>1 DEF Hold, CachesCycle, P!Wait
  <2> QED BY <2>2 DEF P!Next, P!Cycle
<1>2. CASE Begin
  <2>1. DataWords' = DataWords
    BY <1>0, <1>2, CyclesUnseen DEF Begin, CachesCycle, SysInv
  <2> QED BY <1>2, <2>1 DEF Begin, cpu, P!vars
<1>3. CASE Finish
  BY <1>0, <1>3, FinishAdvances DEF P!Next, P!Cycle
<1>4. CASE Die
  <2>1. DataWords' = DataWords
    BY <1>4, DataKept DEF Die, data
  <2>2. P!Abort
    BY <1>4, <2>1 DEF Die, P!Abort, SysInv
  <2> QED BY <2>2 DEF P!Next, P!Cycle
<1>5. CASE Restart
  <2>1. DataWords' = DataWords
    BY <1>5, DataKept DEF Restart, data
  <2>2. P!Reset
    BY <1>5, <2>1 DEF Restart, P!Reset
  <2> QED BY <2>2 DEF P!Next
<1>6. CASE UNCHANGED systemVars
  <2>1. DataWords' = DataWords
    BY <1>6, DataKept DEF systemVars, data
  <2> QED BY <1>6, <2>1 DEF systemVars, cpu, P!vars
<1> QED BY <1>1, <1>2, <1>3, <1>4, <1>5, <1>6 DEF SystemNext

(* The invariant holds at the start ...                                    *)
LEMMA InitSystem == SystemInit => SysInv
<1> SUFFICES ASSUME SystemInit PROVE SysInv
  OBVIOUS
<1>1. DP!Init /\ NP!Init /\ PP!Init
  BY SameDataCache, SameInstrCache, SamePipeline DEF SystemInit
<1>2. PP!TypeInv
  BY <1>1, PP!InitType, PipelineAssumptions
<1>3. DP!Copies /\ DP!DroppedAgrees
  BY <1>1, DP!InitCopies, DP!InitAgrees, DataCacheAssumptions
<1>4. NP!TypeOK
  BY <1>1, NP!InitType, InstrCacheAssumptions
<1>5. imem \in Images /\ ilast \in Latencies
  BY <1>1, LatenciesCount DEF NP!Init, PP!Init, Latencies
<1> QED BY <1>2, <1>3, <1>4, <1>5, BoundsCount DEF SystemInit, SysInv, Phases

(* ... and is kept by every step.                                          *)
LEMMA NextSystem == WritesBack /\ SysInv /\ [SystemNext]_systemVars => SysInv'
<1> SUFFICES ASSUME WritesBack, SysInv, [SystemNext]_systemVars PROVE SysInv'
  OBVIOUS
<1>1. PP!TypeInv'
  <2>1. [PP!Next]_(PP!vars)
    BY SystemRefines, SamePipeline
  <2> QED BY <2>1, PP!NextType, PipelineAssumptions DEF SysInv
<1>2. DP!Copies' /\ DP!DroppedAgrees' /\ NP!TypeOK' /\ ilast' \in Latencies
  BY CachesKeep, InstrSteps
<1>3. /\ imem' \in Images
      /\ phase' \in Phases
      /\ resets' \in 0 .. MaxResets
      /\ phase' = "moving" => lat' = 0
  BY BoundsCount
     DEF SysInv, SystemNext, Hold, Begin, CachesCycle, Finish, Die, Restart,
         systemVars, cpu, Phases
<1> QED BY <1>1, <1>2, <1>3 DEF SysInv

LEMMA SystemCorrect == WritesBack => (SystemSpec => []SysInv)
<1> SUFFICES ASSUME WritesBack PROVE SystemSpec => []SysInv
  OBVIOUS
<1> QED BY InitSystem, NextSystem, PTL DEF SystemSpec

(* Every value of the machine, its caches' lines among them, stays in its  *)
(* range.                                                                  *)
THEOREM MachineTypes == WritesBack => (SystemSpec => []SystemTypeOK)
<1>1. SysInv => SystemTypeOK
  BY SameDataCache, SameInstrCache, SamePipeline
     DEF SysInv, SystemTypeOK, PP!TypeInv, DP!Copies
<1> QED BY <1>1, SystemCorrect, PTL

(* The machine with its caches is the pipeline over a plain data memory:   *)
(* what is evicted, read in and written back in between, and how long it   *)
(* takes, changes nothing that the program can see.                        *)
THEOREM CachesAreUnseen == WritesBack => (SystemSpec => ImplementsPipeline)
<1> SUFFICES ASSUME WritesBack PROVE SystemSpec => ImplementsPipeline
  OBVIOUS
<1>1. SysInv /\ [SystemNext]_systemVars => [P!Next]_(P!vars)
  BY SystemRefines
<1> QED BY <1>1, SystemCorrect, PTL DEF SystemSpec, ImplementsPipeline

(* Hence the whole machine, caches and pipeline, runs every program as the *)
(* machine of Isa does, one instruction at a time.                         *)
THEOREM MachineIsSequential ==
  WritesBack /\ PP!NoDoubleUse => (SystemSpec => PP!ImplementsIsa)
<1> SUFFICES ASSUME WritesBack, PP!NoDoubleUse PROVE SystemSpec => PP!ImplementsIsa
  OBVIOUS
<1>1. SystemInit => PP!Init
  BY SamePipeline DEF SystemInit
<1>2. SysInv /\ [SystemNext]_systemVars => [PP!Next]_(PP!vars)
  BY SystemRefines, SamePipeline
<1>3. PP!Spec => PP!ImplementsIsa
  BY PP!PipelineIsSequential, PipelineAssumptions
<1> QED BY <1>1, <1>2, <1>3, SystemCorrect, PTL DEF SystemSpec, PP!Spec
=============================================================================
