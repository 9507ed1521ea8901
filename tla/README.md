# Jungle Falcon: a verification model

Jungle Falcon (`src/sim`) is a cycle-accurate simulator of a RISC-V processor: a
five-stage pipeline with two hazard units, a register file, a program counter,
an instruction and a data memory behind caches, and a small console. This
directory holds TLA+ modules for its core, TLC configurations that check them,
and proofs that TLAPS checks. Paths below are relative to `src/sim` unless they
say otherwise. Only the cycle-accurate build is modelled
(`__INSTRUCTION_ACCURATE__` is 0): the other one does not compile, because
`Pipeline::Fetch` does not exist.

Everything runs in one thread. What is hard here is not scheduling but *time*:
five instructions are in flight, each holding private copies of registers, a
program counter that has run ahead, memories that answer now and are waited for
later, and caches that keep the only copy of what was written.

## Inventory

| Component | State | Operations | Interacts with | What makes it correct |
|---|---|---|---|---|
| Pipeline, `pipeline.cpp` | `instruction_queue_`, `delay_inserted_`, `latency_counter_`, counters | `ExecuteCycle`, `Flush`, `InsertDelay`, `Reset` | fetches from the instruction memory, advances the program counter, runs every instruction's stage | a cycle is one instruction's effect or none; five slots, one more while a delay is pending; never stuck |
| Hazard units, `hazard_detection.cpp` | counters only | `HandleHazard` (control, then load delay, 1b, 1a) | read and write the queue's instructions | no stale operand; nothing behind a taken branch has an effect |
| Instructions, `*_type_instructions.cpp`, `instruction_factory.cpp` | register copies, immediate, target or address, `branch_` | `Decode`, `Execute`, `MemoryAccess`, `WriteBack`, `Create` | register file, program counter, data memory | link and branch offsets fit the pipeline's depth; each word gets its class, its immediate and the result RISC-V defines |
| Register file, program counter, `register_file.cpp` | `registers_`, `instruction_pointer_` | `Read`, `Write`, `ExecuteCycle`, `BranchOffset`, `Jump`, `Reset` | instructions, pipeline | x0 stays 0; targets are never negative |
| CPU, `cpu.cpp` | breakpoints, `at_bkpt_`, cycle counter | `ExecuteCycle`, `Reset`, breakpoints, `GetCPI` | memories, pipeline, hazard units, in this order | a breakpoint stops and costs nothing; the statistics add up; a reset starts over |
| Main memories, `memory.cpp`, `memory.hpp` | `mem_` | typed `Read` and `Write`, `LoadImage`, `CoreDump` | caches | reads return what was written |
| Caches, `memory.cpp`, `memory.hpp` | `caches_`, `cycle_counter_`, `last_latency_`, hit and miss counters | typed `Read` and `Write`, `ExecuteCycle`, `Reset` | a main memory, on a miss, an eviction and a write-through | as if the memory were accessed; one copy of an address; the oldest line leaves |
| Console, `commands.cpp`, `command_interpreter.cpp` | the input's number base | step, continue, reset, breakpoints, dumps, statistics | CPU, memories | a command does what its help says |
| Start-up, `main.cpp` | flags | builds the objects | all | the policy is the one asked for |

Not part of the core: `c/` and `asm/` (input programs and their scripts), `testing/`
(read for what it expects), the build files, the loading of images, logging and
formatting.

The places where this code is hard to test are listed in `PROJECT.json` under
`hazards`, each at its line, with the properties that watch it or the reason why
none does.

## Modules

    Bits                  32-bit words and C++'s operators on them
      RiscV               reference: encodings and results of the base set
        EncodingProofs    lemmas about words, operators and encodings
        Alu               factory, decoding, execution; conforms to RiscV
          MCAlu           inputs for TLC
          AluProofs       theorems about Alu, with EncodingProofs
    Instructions          the instruction set as the pipeline tells it apart
      Isa                 abstract: one instruction at a time
        Retirement        abstract: Isa with a count of its instructions
      Pipeline            the pipelined CPU; implements Isa
        MCPipeline        programs for TLC
        PipelineProofs    theorems about Pipeline: types, shape of the queue
          PipelineRefinement  theorems: Pipeline implements Isa; aborts; returns
        Cpu               breakpoints and statistics; implements Retirement
          Console         the commands and their input
            MCConsole     scripts and programs for TLC
            ConsoleProofs theorems about Console, with PipelineRefinement
      System              pipeline, instruction cache, data cache (instances of
                          Pipeline and Cache); implements Pipeline's steps
        MCSystem          programs for TLC
        SystemProofs      theorems about System, with instances of CacheProofs,
                          CacheRefinement and PipelineRefinement
    ByteMemory            abstract: an array of bytes
    Cache                 a cache and its main memory; implements ByteMemory
      MCCache             data for TLC
      CacheProofs         theorems about Cache: its invariants
        CacheRefinement   theorem: Cache implements ByteMemory

Operators named as a fault (their comment starts with "Fault:") are not used by
any specification. Each is a plausible mistake in the definition that follows
it; putting it in that definition's place makes the property named in
`PROJECT.json` fail, which shows that the property depends on the code.

### Instructions, Isa, Pipeline

`Instructions` keeps one opcode for each shape that the pipeline treats
differently: an R-type sum, a shift whose amount sits in the rs2 field (and is
taken for a register by the hazard units), an I-type sum, `lui`, both jumps, two
branches, `lw`, `sw`, "nop" for a word the factory does not know and "bad" for
one for which it returns `nullptr`. An instruction is a record; its bit fields
are left out. Registers and addresses are numbers modulo `WordMod`.
`WritesToRd`, `ReadsFromRs1` and `ReadsFromRs2` are the hazard units' functions.

`Isa` is what a program may expect. Its state is the program, the address of the
next instruction, the registers and the data memory; `Step` runs one instruction,
`Restart` starts over. It keeps the code's convention that the link register
holds the address of the call plus 20 and that a jump through a register lands
16 bytes below the register.

`Pipeline` has the code's variables (`queue`, `delay`, `lat`, `pc`, `regs`,
`dmem`, `imem`) and `status`, which is "aborted" after a failed CHECK or the use
of `nullptr`. One cycle of `CPU::ExecuteCycle` is one step:

- `Advance`: `latency_counter_` is 0. Pop, fetch unless a delay is pending, the
  stages from write back down to fetch, then the control hazard unit and the data
  hazard unit. Because the stages run from the oldest instruction on, write back
  precedes decode and the memory access moves the program counter before an
  execute reads it; `Advance` composes its parts in that order.
- `Wait`: the counter is positive; it is counted down and no hazard is looked at.
- `Abort`: the process dies. What the cycle did before cannot be seen.
- `Reset`: the console's reset between two cycles.

Latencies are arbitrary members of `Latencies` for every fetch and every memory
access; the caches decide them in the code. Data are one word per aligned
address; the code would also serve an unaligned one, which no program here asks
for.

The refinement mapping to `Isa`: an instruction has happened once its memory
access is over. `ArchPc` is the address of the oldest instruction that has not
got there (or the program counter, if there is none) and `ArchRegs` is the
register file with the one pending write back applied. With a delay pending the
queue has shifted by one, hence `LastPending`.

### ByteMemory, Cache

`ByteMemory` is an array of bytes with reads and writes of 1, 2 and 4 bytes that
die outside it.

`Cache` is `CacheBase` with the eviction of `LRUCache`; `DirectlyMappedCache` is
the case of one set. (The code calls "set" what is usually called a way; the
model keeps its word.) Each `Read` and `Write` is the whole call: `FindLine`,
`EvictLine` with its write-back, `ReadLine`, the time stamp, the latency, the
line's bytes and the write-through. `ExecuteCycle` counts the cycles and the
swap-in counters. `WritePolicy` is computed from the flag as `main` does it.

`LocateLine` is `Located(s, a)`: set s is the first that holds the address or,
when none does, the one `EvictLine` picks. `EvictedMem` and `LocatedLine` are what
it leaves in the main memory and in the line. Addresses are split with `\div` and
`%`; `PowersOfTwoAssumption` is the condition under which the code's shifts and
masks compute that (the code never checks it).

The refinement mapping to `ByteMemory` is `AbsMem`: a byte is the one in the line
that holds its address, or the one in the main memory if no line does.

### Retirement, Cpu, Console

`Cpu` adds to `Pipeline` what `CPU` and the counters keep: the breakpoint list,
`at_bkpt_`, the cycle counter, `instructions_completed_`, and both hazard units'
`delay_added_` (their `hazards_detected_` is only printed and left out). One call of
`CPU::ExecuteCycle` is `Stop` (a breakpoint is met, nothing moves), `Pass` (a pipeline
step, `Move` or `Hold`, with its counts) or `Die`. `since` and `stoppedAt` are history
that no action reads.
The hazard units' delays follow the handlers (`CountDelays`): three for a change of
flow, then one per load delay on the queue that the control unit left. `CpuReset`
leaves them as they are, as `CPU::Reset` does, and notes in `since.left` what it left.
`CyclesExplained` is about the numbers as `stat` prints them, and so speaks of runs
until a reset leaves something. From then on `stat` prints the delays of the earlier
run beside the cycles since the reset, and they do not add up: this contradicts the
help of `r` ("Completely reset the simulation", `commands.cpp:86`), as the surviving
`at_bkpt_` does (run ConsoleReset).

`Retirement` is `Isa` with a counter: the promise behind "Instructions Executed".
`Cpu` implements it with `completed`, plus one for the instruction whose write back
is still to come. So `CountsRetired` says at once that the count is right and that
stops, steps and resets change nothing that the program does.

`Console` is `MainLoop` with the commands. The input is a sequence of tokens and
ends of lines that the loop and the commands share; `Number` is `std::cin >> int`
with its three outcomes (a number, perhaps followed by the rest of its token; no
number; end of the input), and `base` is the number base of `std::cin`, which
`std::hex` sets for good. Commands that act are actions; all that only print are
`NoAction`. A step of the loop in `s` and `c` is `Call`. `typed` and `calls` are
history.

### Bits, RiscV, Alu

`Alu` follows one instruction word through `Create`, `Decode`, `Execute` and
`MemoryAccess` at the full width of 32 bits, all 37 instructions of the base set,
with the classes the factory picks, the masks and fields each format's `Decode`
puts together, and the expressions of each `Execute`. `RiscV` is the reference:
how the manual assembles words and what the instructions compute, the manual's link
included. Where an instruction goes is left to `Isa`. `ExecutesRiscV` is the manual's
claim for every instruction; the code breaks it for the rd of the six that `Deviating`
names (run AluRiscV). `ConformsElsewhere` is what is left:
the branch, the stored bytes and the address of every instruction, and the rd of all
the others.
Shifts by a register that holds more than 31 are undefined in the code; `Execute`
takes either outcome a processor gives, and `Defined` leaves them out of the
comparison. The inputs are the instructions an assembler can write: `Fits` says which
immediates a format has room for, and `Inputs` holds no others. The operators of
`Bits` are functions of the bits' numbers without recursion (a bit's carry is stated by
where it came from, `Carried`), so that they can be proved about.

### System

`System` puts two instances of `Cache` where `Pipeline` has memories of any latency.
A cycle that moves is two steps: both caches count their cycle (`Begin`), then the
pipeline fetches, runs its stages, accesses the data cache at most once, and takes
the latencies of these accesses (`Finish`). `P` is `Pipeline` with `dmem` read through
the data cache (`AbsMem`); `ImplementsPipeline` is the refinement, and it carries
every property of `Pipeline` over to the machine with caches. Nothing writes
through the instruction cache, so its bytes are left out and the instructions are
taken from the image. Both caches have the same geometry, and a word is the four
bytes `BytesOf` takes it apart into; the assumptions of `System` are those of its
parts, with lines of whole words and memories of whole lines.

## Runs

| Run | Question | Bounds |
|---|---|---|
| Pipeline | Are operands ever stale, does anything behind a taken branch have an effect, does the pipeline ever stop? `ImplementsIsa`, `OffsetsExact`, `QueueDepth`, `ReturnsToCaller`, `AbortJustified`, `Progress`, `TypeOK` | all bodies of 4 out of 8 loads, stores, sums and shifts over two registers and two cells; all bodies of 4 out of 8 branches both ways, calls, returns, loads, one outside the memory, and an undecodable word; all bodies of 3 out of a loop's 5 instructions; latencies 0 and 2, words modulo 64 |
| Console | Do commands, at any moment, disturb the program or the statistics? `CountsRetired`, `CyclesExplained`, `StepsAsTyped`, `ConsoleTypeOK` | a reset after each of 0 to 22 steps, breakpoints set, met, deleted and set again, missing arguments, dumps; bodies of 2 out of 6; latencies 0 and 1 |
| CacheBack | Is the write-back cache a byte memory? `ImplementsByteMemory`, `SingleCopy`, `DroppedAgrees`, `EvictsLeastRecentlyUsed`, `TypeOK` | 2 sets of one line of 4 bytes, 3 blocks, bytes and words, 2 cycles |
| CacheThrough | Is the main memory current under write-through? `WriteThroughCurrent`, `ImplementsByteMemory` | direct-mapped, two lines, bytes and halfwords, an address outside the memory, 1 cycle |
| System | Is the machine with its caches the pipeline over a plain memory? `ImplementsPipeline`, `SystemTypeOK` | direct-mapped write-back, two lines of 4 bytes each, 3 data blocks and 12 instruction words, bytes of 4 values, bodies of 3 out of 7, one reset |
| Alu | Does every instruction but `sra` get its class, its immediate, and, but for the rd of `Deviating`, the manual's result? `CreatesNamed`, `DecodesImmediate`, `ConformsElsewhere`, `AluTypeOK` | every twelve-bit immediate once for I, S and B, the powers of two and edges for J and U; ten operands at the edges of both signs, in pairs |

Why these bounds are enough to see what can go wrong: the pipeline holds five
instructions and the hazard units compare only neighbours and next neighbours,
so a body of four behind a prologue that fills the registers puts every pair of
instructions at every distance the code looks at, and a fifth, the padding,
behind them. Latencies 0 and 2 make the fetch the slower one, the memory access
the slower one, or neither. Three blocks in two ways are the smallest case in
which a victim is chosen, dirty or clean, and its block read again. The cycle
counter needs to distinguish older from newer stamps, so 2 cycles (three stamps)
do. A run of the console's programs takes fewer than 22 cycles without waiting,
so the resets fall on every stage of it. In `System` the blocks 0 and 2 of the
data, and most blocks of the instructions, compete for one line; MaxCycles = 200
is never reached by its programs, and MaxResets = 1 is the bound on resets.
`CHECK_DEADLOCK` is off: a run ends in the code, with an abort, with `q` or, for
the cache, when the bounded cycle counter stops.

`MaxDepth` bounds resets: none happens while the queue is longer. In the modelled
programs it never is longer than 6, so it excludes nothing; the run Pipeline does
not reset at all, the runs Console and System do.

Runs that find a disagreement between the code and what the repository says of
it; each is listed with its quotation under `findings`:

| Run | What it shows |
|---|---|
| AluRiscV | `auipc` loses the program counter, as the base class overwrites the sum; `sra` is taken for `srl` and shifts zeros in; `lb` and `lh` extend no sign; `jal` and `jalr` leave the address of the call plus 20 in rd, where RISC-V has the address plus 4. Each of the six alone violates the property. Returns land right (`ReturnsToCaller`), because `Jump` takes 16 off a link, but a program that looks at the register sees the difference. |
| PipelineDoubleUse | Two delays are inserted when the instruction behind a load reads the loaded register through both operands. The load is moved past its memory access and its register gets an old value. |
| CacheThroughWord | A word write hands only its first byte on to the main memory. |
| CacheLru | With several lines per set, the set is chosen by lines at other indexes: a younger line is replaced while an older or an empty one is free. |
| ConsoleDelete | A breakpoint's number is the list's length when it is set, so numbers repeat after a deletion, and deleting one breakpoint deletes two. |
| ConsoleReset | `CPU::Reset` keeps `at_bkpt_`: after a stop and a reset, a breakpoint at address 0 is passed. |

The passing runs over the pipeline exclude the programs of PipelineDoubleUse
(`SingleUsePrograms` and the like), Alu excludes `sra` (`NamedCases`) and says nothing
of the rd of `auipc`, `lb`, `lh`, `jal` and `jalr`, `CyclesExplained` says nothing after
a reset that has left delays in the counters, `AbortJustified` excuses a failing fetch
(`FetchFaults`), and the passing cache runs exclude words under write-through (System
runs write-back). `StepsAsTyped` is stated for base 10: after the first breakpoint or
dump, a step count is read in base 16 (`commands.cpp:104`). Nothing else is excluded.
Three more things the model shows by construction and no run asks about: a `jalr`
through a register that no call has set lands 16 bytes before its target
(`register_file.cpp:133`), and a reset leaves the data memory and the latency counter
as they are, and a word for which the factory returns `nullptr` kills the process as
soon as it is fetched, also behind a jump over it that the program always takes.
`WritePolicy` keeps what `main.cpp:52` does: the flag `write_back` selects
write-through and the other way round, so `CacheBack` is run with the flag
`write_through`. `EvictsLeastRecentlyUsed` passes in CacheBack because with one line
per set the code's choice is right.

## Fairness

Only `RunSpec` is fair: `WF_vars(Cycle)`. It describes an uninterrupted `continue`,
a loop that calls `ExecuteCycle` and does nothing else (`commands.cpp:75`), so a
cycle that can happen does happen. `Advance`, `Wait` and `Abort` exclude one
another, so weak fairness of their disjunction is the whole of it. The safety
properties of the run Pipeline use the same specification; every other run assumes
nothing.

## Proofs

Eight modules hold the proofs, `EncodingProofs` lemmas only. Each theorem holds
for every value of the constants that satisfies the named assumptions: every
program, number of registers, word width, size of the memories, latency, cache
geometry, input of the console, and every instruction with its immediate, operands
and memory cell (its registers and its address are fixed in `Alu`).

| Module | Theorem | Statement |
|---|---|---|
| `CacheProofs` | `TypeCorrect` | `Spec => []TypeOK` |
| | `NoSecondCopy` | `Spec => []SingleCopy` |
| | `WriteBacksInMemory` | `Spec => []LinesInMemory` |
| | `NothingLost` | `NoWordThrough => (Spec => []DroppedAgrees)` |
| | `ThroughReachesMemory` | `NoWordThrough => (Spec => []WriteThroughCurrent)` |
| | `LeastRecentlyUsed` | `OneChoice => (Spec => EvictsLeastRecentlyUsed)` |
| `CacheRefinement` | `CacheIsByteMemory` | `NoWordThrough => (Spec => ImplementsByteMemory)` |
| `PipelineProofs` | `TypeCorrect` | `Spec => []TypeOK` |
| | `BranchesCountRight` | `NoDoubleUse => (Spec => []OffsetsExact)` |
| | `FiveOrSixSlots` | `NoDoubleUse => (RunSpec => []QueueDepth)` |
| `PipelineRefinement` | `PipelineIsSequential` | `NoDoubleUse => (Spec => ImplementsIsa)` |
| | `DiesOnlyOfTheProgram` | `NoDoubleUse => (Spec => []AbortJustified)` |
| | `CallsReturn` | `NoDoubleUse /\ EvenAddresses => (Spec => []ReturnsToCaller)` |
| `ConsoleProofs` | `ConsoleRunsPipeline` | `NoDoubleUse => (ConsoleSpec => []Inv)` |
| | `StatisticsAddUp` | `NoDoubleUse => (ConsoleSpec => []CyclesExplained)` |
| | `CountsEveryInstruction` | `NoDoubleUse => (ConsoleSpec => CountsRetired)` |
| | `ConsoleTypes` | `ConsoleSpec => []ConsoleTypeOK` |
| | `StepsCount` | `NumbersInLines => (ConsoleSpec => StepsAsTyped)` |
| `SystemProofs` | `MachineTypes` | `WritesBack => (SystemSpec => []SystemTypeOK)` |
| | `CachesAreUnseen` | `WritesBack => (SystemSpec => ImplementsPipeline)` |
| | `MachineIsSequential` | `WritesBack /\ NoDoubleUse => (SystemSpec => ImplementsIsa)` |
| `AluProofs` | `WordsStayWords` | `AluSpec => []AluTypeOK` |
| | `ImmediatesDecoded` | `AluSpec => []DecodesImmediate` |
| | `InstructionsNamed` | no `sra` in `Cases` `=> (AluSpec => []CreatesNamed)` |
| | `ExecutesTheManual` | `AluSpec => []ConformsElsewhere` |

### Hypotheses

Each hypothesis leaves out one thing for which the theorem does not hold; where a run
shows it going wrong, the run is named:

- `NoDoubleUse`: in no program is a load followed by an instruction that reads the
  loaded register through both operands (run PipelineDoubleUse). The programs of the
  runs Pipeline and Console satisfy it. "Followed" is meant modulo `WordMod`, as the
  program counter wraps.
- `NoWordThrough`, `WritesBack`: the policy is write-back or no words are written.
  The run CacheThroughWord shows `WriteThroughCurrent` fail without it, and the byte
  that never reached the memory is lost at the next eviction. The machine of
  `System` accesses words only, so there it is the policy alone.
- `OneChoice`: one set, or one line per set (the geometry of CacheBack). The run
  CacheLru shows another.
- `NumbersInLines`: no script has a number on a line of its own behind an `s`. `>>`
  skips the end of the line and takes it, although the `s` itself means no steps. The
  scripts of the run Console satisfy it, those with an `s` without a number included.
- `EvenAddresses`: all instructions are at even addresses, as a jump through a
  register clears the lowest bit. Every image loaded has them at multiples of 4.
- `FiveOrSixSlots` is about `RunSpec`, without resets: a reset while a delay is
  pending forgets the delay and keeps its slot, so the queue has six slots from then
  on. All the other theorems allow resets at any moment and queues of any length.
- No `sra`: the factory makes an `srl` of it (run AluRiscV).

`ExecutesTheManual` and `StatisticsAddUp` need no hypothesis on the inputs for what
they leave out: `ConformsElsewhere` itself says nothing of the rd of the six
instructions in `Deviating` (run AluRiscV), and `CyclesExplained` nothing once a reset
has left delays in the counters.

`CasesAssumption` makes the inputs of `Alu` members of `Inputs`, instructions whose
immediate fits their format. `WordModAssumption` asks for words of at least 5 bits, so that `PipelineOffset`
is a positive signed number.

### The cache

`DivMod` and `DivModUnique` give `SplitAddress` and `JoinAddress`: tag,
index and offset determine an address and are determined by it. Hence a line
stands for one aligned block (`Block`), and the memory consists of whole blocks
(`WholeBlocks`), so reading a line in never leaves it. The types follow action by
action. `SingleCopy` with `LinesInMemory` is inductive given the types (`Copies`):
`LocateLine` fills a set only when no set holds the address (`OneCopy`).
`DroppedAgrees` is not inductive alone: a write-back of one line, or a
write-through, changes memory bytes, and only `SingleCopy` says that no other
valid line stands for those (`OthersUntouched`, `AccessInBlock`). The inductive
invariant is therefore `Copies /\ DroppedAgrees`.

The refinement compares what is seen through the cache before and after a line is
replaced, block by block. The located line holds what was seen of its block
(`LocatedLineSeen`), a read in leaves that as it was, a write changes the bytes of the
access (`OwnBlockSeen`, `AccessInMemory`), and every other block, the evicted one among
them, is seen as before (`OtherBlocksSeen`). The evicted block is where the invariant
is needed: written back it moves from the line to the memory, dropped it must have
been there already, which is `DroppedAgrees`, and no other set may hold it, which is
`SingleCopy`.

`LeastRecentlyUsed` needs the types only (`ReplacesOldest`). In a directly mapped
cache there is nothing to choose; in a fully associative one `EvictLine`'s oldest line
of all is the oldest at the one index.

### The pipeline

The inductive invariant `Inv` has three parts.

`TypeInv` is `TypeOK` and "a pending delay has lengthened the queue", without which
a cycle that fetches nothing would shorten it below five.

`StructInv` is the shape of the queue: the addresses in the slots that have not got
past their memory access are consecutive and end at the program counter, the only gap
is the bubble of a pending delay, and each slot's instruction is the program's.
`AdvanceQueue` says what a moving cycle leaves in each slot, `OneDelay` that at
most one delay is inserted; this is where `NoDoubleUse` enters, and with two delays
the shape is lost. `OffsetsExact` follows (`StructOffsets`): the constants of
`jal`, `jalr` and the branches are right because there is no gap.

`DataInv` says what the slots hold: the instruction that has been executed was
executed on the operands the program sees (`Ready`), and the one behind it has them
once the result of the former is forwarded (`SuppliedBy`). It is kept because
forwarding gives what reading the registers after the write back would give
(`AfterRead`), the 1a hazard last, and because a load delays the one instruction
that could not wait for it.

With `Inv` a cycle in which a real instruction gets to its memory access is
that instruction's step of `Isa` (`DueReady`, `SuccessorIs`, `CanStepIs`,
`AdvanceSteps`), and every other one a stutter (`AdvanceStutters`). `CanStepIs`
also gives `AbortJustified`. `ReturnsToCaller` adds `LinkInv`: a register that only
calls write holds 0 or a link to one of the calls, and the 20 bytes of the link
and the 16 that a jump takes off again leave 4, with wrap-around (`JumpBack`).

### The console

All the console can do to the pipeline is move it, let it wait, reset it or leave it
alone (`ConsoleSteps`), whatever is typed, so it keeps `Inv`. `CyclesInv` is the equation of
`CyclesExplained` with what the last reset left taken off the counters, and their
types; where nothing was left it is the equation as printed. It is inductive with `Inv`: a moving
cycle either completes the instruction it has under way or adds what the hazard
units count (`DelaysNext`, `UnderWayNext`), and a flush removes real instructions
only, three of them (`FlushedAreReal`), which is why counting three cycles for
each is right. `CountsRetired` is the pipeline's refinement with the counter
followed along (`MoveRetires`, `MoveCounts`).

The input is cut by the places of its tokens and ends of lines. Whatever a command
takes, what it leaves is an end of what was typed (`FromKeeps`, `SkippedKeeps`,
`LineDroppedKeeps`, `NumberKeeps`), so types and `NumbersInLine` are kept. A deletion
leaves a list of breakpoints, because the number of others up to a place takes every
value once (`OthersAreBreakpoints`, by cardinalities). `ConsoleTypeInv` is inductive
without `NoDoubleUse`. `StepsAsTyped` follows from `StepsInv`: the number read is
the one in the line (`ReadAsTyped`), and while a step command runs, calls made and
calls to come add up to it.

### The machine

`SystemProofs` instantiates `CacheRefinement` with the data cache (`DP`),
`CacheProofs` with the instruction cache (`NP`) and `PipelineRefinement` with the
pipeline whose data memory is what is seen through the data cache (`PP`). Its first
lemmas show that the instances define the same steps as those of `System`. The
invariant `SysInv` is the conjunction of the parts' invariants (`TypeInv`, `Copies`,
`DroppedAgrees`) and "the pipeline is not waiting in the middle of a cycle". A load
gets the word that is seen (`LoadsSeen`), a store changes it and no other
(`StoresSeen`): aligned words do not overlap, and a word is its four bytes
(`WordBytes`). So every step is one of the pipeline's or unseen (`SystemRefines`), and
`PipelineIsSequential` carries over to the whole machine.

### The instruction set

The first half is about the reference. An encoding writes every field of its format
to bits of their own, so that each field reads back as it was written (`FieldKept`, then
`RFields` to `JFields`, one per format), and a field of a constant is that constant
(`SevenBits`, `FiveBits`, `ThreeBits`). So the opcode and the function fields of an
encoded instruction determine it, and the factory's tests on them pick its class
(`CreatedName`). An immediate that fits is the sign extension of its field
(`ShortSigns`), and the masks and shifts of each `Decode` put the same bits together
(`IDecoded` to `JDecoded`, `ImmediateDecoded`; `ShiftDecoded` for shifts, whose upper
bits hold the function).

The inductive invariant `AluInv` is `AluTypeOK` with what the stages passed leave
behind: the class is the one created from the encoding, and the immediate is the
instruction's. `ExecInv` adds that after `Execute` the result is the manual's
(`ExecuteRd`, for the instructions that are not `Deviating`), and the branch and the
address are (`ExecuteEffects`, for all), and after `MemoryAccess` the word loaded and
the bytes stored (`MemoryAccessConforms`). Two places are not the same expression in
code and manual: `srai`, which is put together from a logical shift and a mask
(`MaskedShift`), and the target of a `jalr` (`EvenTarget`).

Sums in the code and in the manual are the same operator `Plus`. That it adds,
carry by carry, as integers do is an induction over the bits and is not proved.

### Only model-checked

- `Progress`: liveness under fairness.
- Everything that depends on the contents of a particular program or script.

## Plan

Done: every component of the core is modelled and checked; the cache, the pipeline,
the statistics, their composition and the instruction set are proved. What could follow:

1. The refinement of `System` for `CPU`'s breakpoints and counters, by putting
   `Cpu` where `System` has `Pipeline`; its proof is `SystemProofs` with
   `ConsoleSteps`.

## Not modelled

Image loading, logs, instruction names and what dumps and statistics print are I/O
and formatting. `CacheBase::Reset` is called by nothing, the caches' hit and miss
counters and `branches_taken_` are read by nothing, and `GetCPI` is a quotient that
is only printed. The instruction-accurate build does not compile. Unaligned accesses
that run over the end of a cache line are undefined behaviour in the code; `InLine`
excludes them. Cache geometries that are not powers of two are excluded by an
assumption for the same reason. The unit tests, the example programs with their
scripts and the build files are not part of the simulator.
