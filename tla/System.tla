------------------------------ MODULE System ------------------------------
(***************************************************************************)
(* The whole machine: the pipelined CPU with an instruction cache and a    *)
(* data cache where Pipeline has memories of any latency.  One call of     *)
(* CPU::ExecuteCycle is one step while the pipeline waits and two when it  *)
(* moves: both caches have their cycle first, and are accessed after it.   *)
(*                                                                         *)
(* Instructions are taken from imem: nothing is written through the        *)
(* instruction cache, whose bytes are therefore left out (they are all 0)  *)
(* and which counts for its latencies only.                                *)
(***************************************************************************)
EXTENDS Instructions, Sequences

CONSTANTS
  Images,             \* as in Pipeline; every address below InstrSize is set
  MaxDepth,           \* as in Pipeline
  InstrSize,          \* bytes of instruction memory
  ByteMod,            \* bytes are the numbers below ByteMod (256 in the code)
  LineSize, NumLines, SetAssociativity, CacheLatency, MainLatency,
  SubsequentLatency,  \* geometry and latencies of both caches
  PolicyFlag,         \* the write_policy flag
  MaxCycles,          \* bound: cycles of a cache
  MaxResets           \* bound: resets of one run

ASSUME WordIsFourBytes ==
  /\ ByteMod \in Nat \ {0}
  /\ WordMod = ByteMod * ByteMod * ByteMod * ByteMod
ASSUME ImagesFill ==
  /\ InstrSize <= WordMod
  /\ \A m \in Images : /\ IsProgram(m)
                       /\ DOMAIN m = {a \in 0 .. InstrSize - 1 : a % InstrBytes = 0}
(* Lines hold whole words, memories whole lines.                           *)
ASSUME CachesFit ==
  /\ \E k \in 2 .. 16 : LineSize = 2 ^ k
  /\ \E k \in 0 .. 16 : NumLines = 2 ^ k
  /\ LineSize \in Nat \ {0} /\ LineSize % InstrBytes = 0
  /\ NumLines \in Nat \ {0}
  /\ SetAssociativity \in Nat \ {0}
  /\ DataSize \in Nat \ {0} /\ DataSize % LineSize = 0
  /\ InstrSize \in Nat \ {0} /\ InstrSize % LineSize = 0
ASSUME LatenciesCount ==
  CacheLatency \in Nat /\ MainLatency \in Nat /\ SubsequentLatency \in Nat
ASSUME PolicyIsOne == PolicyFlag \in {"write_back", "write_through"}
ASSUME BoundsCount == MaxDepth \in Nat /\ MaxCycles \in Nat /\ MaxResets \in Nat

VARIABLES
  imem, pc, regs, queue, delay, lat, status,         \* as in Pipeline
  dmain, dcaches, dcycle, dlast, dout, dalive,       \* the data cache
  imain, icaches, icycle, ilast, iout, ialive,       \* the instruction cache
  phase,                                             \* where the cycle is
  resets                                             \* resets so far

cpu == <<imem, pc, regs, queue, delay, lat, status>>
data == <<dmain, dcaches, dcycle, dlast, dout, dalive>>
instr == <<imain, icaches, icycle, ilast, iout, ialive>>
systemVars == <<cpu, data, instr, phase, resets>>

D == INSTANCE Cache WITH
       MemSize <- DataSize, Byte <- 0 .. ByteMod - 1, Latency <- CacheLatency,
       Addrs <- DataAddrs, Accesses <- {InstrBytes},
       WriteData <- [0 .. InstrBytes - 1 -> 0 .. ByteMod - 1],
       mem <- dmain, caches <- dcaches, cycle <- dcycle, lastLatency <- dlast,
       out <- dout, alive <- dalive

N == INSTANCE Cache WITH
       MemSize <- InstrSize, Byte <- {0}, Latency <- CacheLatency,
       Addrs <- 0 .. InstrSize - 1, Accesses <- {InstrBytes}, WriteData <- {},
       mem <- imain, caches <- icaches, cycle <- icycle, lastLatency <- ilast,
       out <- iout, alive <- ialive

(* A word and its bytes, lowest address first.                             *)
BytesOf(w) ==
  LET x == w \div ByteMod
      y == x \div ByteMod
      z == y \div ByteMod
  IN  [o \in 0 .. 3 |-> <<w, x, y, z>>[o + 1] % ByteMod]
WordOf(d) == d[0] + ByteMod * (d[1] + ByteMod * (d[2] + ByteMod * d[3]))

(* The data memory as the program sees it, through the cache.              *)
DataWords ==
  [a \in DataAddrs |-> WordOf([o \in 0 .. 3 |-> D!AbsMem[a + o]])]

Latencies == 0 .. CacheLatency + MainLatency + SubsequentLatency

P == INSTANCE Pipeline WITH dmem <- DataWords

Phases == {"cycle", "moving"}

SystemInit ==
  /\ D!Init /\ N!Init
  /\ P!Init
  /\ phase = "cycle"
  /\ resets = 0
-----------------------------------------------------------------------------
CachesCycle ==
  /\ P!Running /\ phase = "cycle"
  /\ D!ExecuteCycle
  /\ N!ExecuteCycle

(* The latency counter is counted down; nothing else moves.                *)
Hold ==
  /\ CachesCycle /\ lat > 0
  /\ lat' = lat - 1
  /\ UNCHANGED <<imem, pc, regs, queue, delay, status, phase, resets>>

Begin ==
  /\ CachesCycle /\ lat = 0
  /\ phase' = "moving"
  /\ UNCHANGED <<cpu, resets>>

(* With a delay pending nothing is fetched.                                *)
Fetch == IF delay THEN UNCHANGED instr ELSE N!Read(pc, InstrBytes)

(* Fault: the load reads the memory behind the cache.                      *)
LoadedBehindCache == [o \in 0 .. 3 |-> dmain'[P!MemoryDue.ea + o]]

(* The bytes a load has got from the data cache.                           *)
LoadedBytes == dout'

(* The fetch, the stages and the hazard units, with the access of the      *)
(* instruction in its memory-access stage; the latencies that are counted  *)
(* are those of these two accesses.                                        *)
Finish ==
  LET s == P!MemoryDue
  IN  /\ P!Running /\ phase = "moving"
      /\ ~P!FetchFaults /\ ~P!MemoryFaults
      /\ Fetch
      /\ \/ /\ s.ins.op = "lw"
            /\ D!Read(s.ea, InstrBytes)
            /\ P!Moves(WordOf(LoadedBytes), ilast', dlast')
         \/ /\ s.ins.op = "sw"
            /\ D!Write(s.ea, InstrBytes, BytesOf(s.v2))
            /\ P!Moves(0, ilast', dlast')
         \/ /\ ~P!IsMemoryAccess(s)
            /\ P!Moves(0, ilast', 0)
            /\ UNCHANGED data
      /\ phase' = "cycle"
      /\ UNCHANGED <<imem, status, resets>>

Die ==
  /\ P!Running /\ phase = "moving"
  /\ P!FetchFaults \/ P!MemoryFaults
  /\ status' = "aborted"
  /\ UNCHANGED <<imem, pc, regs, queue, delay, lat, data, instr, phase, resets>>

(* CPU::Reset between two cycles: it resets neither cache.                 *)
Restart ==
  /\ phase = "cycle" /\ resets < MaxResets
  /\ P!Running /\ Len(queue) <= MaxDepth
  /\ pc' = 0
  /\ regs' = P!ZeroRegs
  /\ queue' = P!Flushed(queue, P!WriteBackStage)
  /\ delay' = FALSE
  /\ resets' = resets + 1
  /\ UNCHANGED <<imem, lat, status, data, instr, phase>>

SystemNext == Hold \/ Begin \/ Finish \/ Die \/ Restart

SystemSpec == SystemInit /\ [][SystemNext]_systemVars
-----------------------------------------------------------------------------
SystemTypeOK ==
  /\ P!TypeOK /\ D!TypeOK /\ N!TypeOK
  /\ phase \in Phases
  /\ resets \in 0 .. MaxResets

(* The machine with its caches is the pipeline over a plain data memory,   *)
(* also when a reset restarts the program on caches full of dirty lines:   *)
(* whatever a line's fate, a load gets the word that the program stored    *)
(* last, and the two caches differ from a memory in their latencies only.  *)
(* (SystemInit has P!Init as a conjunct.)                                  *)
ImplementsPipeline == [][P!Next]_(P!vars)
=============================================================================
