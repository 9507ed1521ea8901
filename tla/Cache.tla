------------------------------- MODULE Cache -------------------------------
(***************************************************************************)
(* A cache in front of a main memory: CacheBase with the eviction of       *)
(* LRUCache, and of DirectlyMappedCache, which is the case of one set.     *)
(* "Set" is the code's word for what is usually called a way: caches_ is a *)
(* vector of sets, each with num_lines_ lines.                             *)
(*                                                                         *)
(* Addresses are split with \div and %, which is what the shifts by        *)
(* __builtin_ctz and the masks compute for the powers of two that          *)
(* PowersOfTwoAssumption asks for.  An access that runs over the end of    *)
(* its line reads and writes past a vector's buffer in the code; InLine    *)
(* leaves it out (an aligned access never does).                           *)
(***************************************************************************)
EXTENDS Integers

CONSTANTS
  MemSize,            \* bytes of main memory
  Byte,               \* the values of a byte
  LineSize,           \* line_size_bytes_
  NumLines,           \* num_lines_: lines per set
  SetAssociativity,   \* set_associativity_
  Latency,            \* latency_ of the cache
  MainLatency,        \* latency_ of the main memory
  SubsequentLatency,  \* subsequent_latency_
  PolicyFlag,         \* the write_policy flag of the command line
  Addrs,              \* the addresses that are accessed
  Accesses,           \* the sizes of the accesses
  WriteData,          \* the bytes that are written
  MaxCycles           \* bound: the cycle counter stops here

ASSUME PowersOfTwoAssumption ==
  /\ \E k \in 2 .. 16 : LineSize = 2 ^ k
  /\ \E k \in 0 .. 16 : NumLines = 2 ^ k
ASSUME GeometryAssumption ==
  /\ LineSize \in Nat \ {0}
  /\ NumLines \in Nat \ {0}
  /\ SetAssociativity \in Nat \ {0}
  /\ MemSize \in Nat \ {0} /\ MemSize % LineSize = 0
ASSUME LatencyAssumption ==
  Latency \in Nat /\ MainLatency \in Nat /\ SubsequentLatency \in Nat
ASSUME PolicyAssumption == PolicyFlag \in {"write_back", "write_through"}
ASSUME DataAssumption ==
  /\ 0 \in Byte
  /\ Addrs \subseteq Nat
  /\ Accesses \subseteq {1, 2, 4}
  /\ \A d \in WriteData : \E n \in Accesses : d \in [0 .. n - 1 -> Byte]
ASSUME MaxCyclesAssumption == MaxCycles \in Nat

VARIABLES
  mem,          \* the bytes of main_mem_
  caches,       \* caches_: set, line index -> line
  cycle,        \* cycle_counter_
  lastLatency,  \* last_latency_
  out,          \* what the last read returned
  alive         \* FALSE once a CHECK has ended the process

vars == <<mem, caches, cycle, lastLatency, out, alive>>

WordBytes == 4
Sets == 0 .. SetAssociativity - 1
Lines == 0 .. NumLines - 1
Offsets == 0 .. LineSize - 1
MemAddrs == 0 .. MemSize - 1
NoData == <<>>

(* main compares the flag and takes the result of compare for equality.    *)
WritePolicy == IF PolicyFlag # "write_back" THEN "WriteBack" ELSE "WriteThrough"

SwapinMax == (LineSize \div WordBytes) * SubsequentLatency

GetTag(a) == (a \div LineSize) \div NumLines
GetLineIndex(a) == (a \div LineSize) % NumLines
GetLineOffset(a) == a % LineSize
GetAddress(tag, i, o) == (tag * NumLines + i) * LineSize + o

Line == [tag : Nat, line : [Offsets -> Byte], dirty_bit : BOOLEAN,
         valid_bit : BOOLEAN, timestamp : Nat, swapin_counter : Nat]

EmptyLine == [tag |-> 0, line |-> [o \in Offsets |-> 0], dirty_bit |-> FALSE,
              valid_bit |-> FALSE, timestamp |-> 0, swapin_counter |-> 0]

TypeOK ==
  /\ mem \in [MemAddrs -> Byte]
  /\ caches \in [Sets -> [Lines -> Line]]
  /\ cycle \in Nat
  /\ lastLatency \in Nat
  /\ out \in (UNION {[0 .. n - 1 -> Byte] : n \in Accesses}) \cup {NoData}
  /\ alive \in BOOLEAN

Init ==
  /\ mem = [x \in MemAddrs |-> 0]
  /\ caches = [s \in Sets |-> [i \in Lines |-> EmptyLine]]
  /\ cycle = 0
  /\ lastLatency = 0
  /\ out = NoData
  /\ alive = TRUE
-----------------------------------------------------------------------------
(* The line of set s that an address maps to, and whether it holds it.     *)
LineAt(s, a) == caches[s][GetLineIndex(a)]

(* Fault: the tag is not compared.                                         *)
HitAnyTag(s, a) == LineAt(s, a).valid_bit

Hit(s, a) == LineAt(s, a).valid_bit /\ LineAt(s, a).tag = GetTag(a)

(* FindLine: the first set that holds the address.                         *)
Found(s, a) == Hit(s, a) /\ \A t \in Sets : t < s => ~Hit(t, a)

(* Fault: only the first set is looked at.                                 *)
MissedInFirst(a) == ~Hit(0, a)

Missed(a) == \A s \in Sets : ~Hit(s, a)

(* Fault: the newest line is taken.                                        *)
EvictsNewest(s) ==
  \E i \in Lines :
    \A t \in Sets, j \in Lines : caches[s][i].timestamp >= caches[t][j].timestamp

(* EvictLine takes the first set whose oldest line, over all indexes, is   *)
(* as old as any line of the cache.                                        *)
Evicts(s) ==
  \E i \in Lines :
    /\ \A t \in Sets, j \in Lines : caches[s][i].timestamp <= caches[t][j].timestamp
    /\ \A t \in Sets, j \in Lines :
         t < s => caches[s][i].timestamp < caches[t][j].timestamp

(* LocateLine uses set s for address a.                                    *)
Located(s, a) == IF Missed(a) THEN Evicts(s) ELSE Found(s, a)

(* Fault: the victim is written to the address that replaces it.           *)
EvictedToNew(s, a) ==
  LET old  == LineAt(s, a)
      base == GetAddress(GetTag(a), GetLineIndex(a), 0)
  IN  IF old.valid_bit /\ old.dirty_bit /\ WritePolicy = "WriteBack"
      THEN [x \in MemAddrs |-> IF x \in base .. base + LineSize - 1
                               THEN old.line[x - base] ELSE mem[x]]
      ELSE mem

(* Main memory after the victim in set s is written back, if it has to be. *)
EvictedMem(s, a) ==
  LET old  == LineAt(s, a)
      base == GetAddress(old.tag, GetLineIndex(a), 0)
  IN  IF old.valid_bit /\ old.dirty_bit /\ WritePolicy = "WriteBack"
      THEN [x \in MemAddrs |-> IF x \in base .. base + LineSize - 1
                               THEN old.line[x - base] ELSE mem[x]]
      ELSE mem

LocatedMem(s, a) == IF Missed(a) THEN EvictedMem(s, a) ELSE mem

(* Fault: a hit clears the dirty bit.                                      *)
LocatedClean(s, a) ==
  LET base == GetAddress(GetTag(a), GetLineIndex(a), 0)
      read == [LineAt(s, a) EXCEPT
                 !.tag = GetTag(a),
                 !.line = [o \in Offsets |-> EvictedMem(s, a)[base + o]],
                 !.valid_bit = TRUE, !.swapin_counter = 0]
  IN  [(IF Missed(a) THEN read ELSE LineAt(s, a)) EXCEPT
         !.timestamp = cycle, !.dirty_bit = FALSE]

(* The line LocateLine returns: read in on a miss, time-stamped.           *)
LocatedLine(s, a) ==
  LET base == GetAddress(GetTag(a), GetLineIndex(a), 0)
      read == [LineAt(s, a) EXCEPT
                 !.tag = GetTag(a),
                 !.line = [o \in Offsets |-> EvictedMem(s, a)[base + o]],
                 !.dirty_bit = FALSE, !.valid_bit = TRUE, !.swapin_counter = 0]
  IN  [(IF Missed(a) THEN read ELSE LineAt(s, a)) EXCEPT !.timestamp = cycle]

(* Fault: what a hit saves is taken from the latency.                      *)
AccessSaving(s, a) ==
  Latency - (IF Missed(a) THEN 0 ELSE MainLatency)

AccessLatency(s, a) ==
  Latency + (IF Missed(a) THEN MainLatency ELSE 0)
          + (IF LocatedLine(s, a).swapin_counter < SwapinMax
             THEN SubsequentLatency ELSE 0)

InLine(a, n) == GetLineOffset(a) + n <= LineSize

(* Fault: one byte is handed on, whatever the size.                        *)
ThroughOneByte(n) == 1

(* The bytes a write-through hands on: for a word only WriteByte is called.*)
ThroughBytes(n) == IF n = 4 THEN 1 ELSE n

(* What a write leaves in the line and in the main memory.                 *)
WrittenLine(s, a, n, d) ==
  LET off == GetLineOffset(a)
  IN  [LocatedLine(s, a) EXCEPT
         !.dirty_bit = TRUE,
         !.line = [o \in Offsets |-> IF o \in off .. off + n - 1
                                     THEN d[o - off] ELSE @[o]]]

WrittenMem(s, a, n, d) ==
  LET through == IF WritePolicy = "WriteThrough" THEN ThroughBytes(n) ELSE 0
  IN  [x \in MemAddrs |-> IF x \in a .. a + through - 1 THEN d[x - a]
                          ELSE LocatedMem(s, a)[x]]
-----------------------------------------------------------------------------
Read(a, n) ==
  /\ alive /\ a < MemSize /\ InLine(a, n)
  /\ \E s \in Sets :
       /\ Located(s, a)
       /\ mem' = LocatedMem(s, a)
       /\ caches' = [caches EXCEPT ![s][GetLineIndex(a)] = LocatedLine(s, a)]
       /\ lastLatency' = AccessLatency(s, a)
       /\ out' = [o \in 0 .. n - 1 |-> LocatedLine(s, a).line[GetLineOffset(a) + o]]
  /\ UNCHANGED <<cycle, alive>>

Write(a, n, d) ==
  /\ alive /\ a < MemSize /\ InLine(a, n)
  /\ \E s \in Sets :
       /\ Located(s, a)
       /\ mem' = WrittenMem(s, a, n, d)
       /\ caches' = [caches EXCEPT ![s][GetLineIndex(a)] = WrittenLine(s, a, n, d)]
       /\ lastLatency' = AccessLatency(s, a)
  /\ out' = NoData
  /\ UNCHANGED <<cycle, alive>>

(* An address outside the main memory is in no line; reading its line in   *)
(* fails a CHECK.                                                          *)
Abort(a) ==
  /\ alive /\ a >= MemSize
  /\ alive' = FALSE
  /\ UNCHANGED <<mem, caches, cycle, lastLatency, out>>

ExecuteCycle ==
  /\ alive /\ cycle < MaxCycles
  /\ caches' = [s \in Sets |-> [i \in Lines |->
       [caches[s][i] EXCEPT !.swapin_counter = IF @ < SwapinMax THEN @ + 1 ELSE @]]]
  /\ cycle' = cycle + 1
  /\ UNCHANGED <<mem, lastLatency, out, alive>>

Next ==
  \/ \E a \in Addrs, n \in Accesses : Read(a, n)
  \/ \E a \in Addrs, n \in Accesses : \E d \in WriteData :
       d \in [0 .. n - 1 -> Byte] /\ Write(a, n, d)
  \/ \E a \in Addrs : Abort(a)
  \/ ExecuteCycle

Spec == Init /\ [][Next]_vars
-----------------------------------------------------------------------------
(* The memory as a reader through the cache sees it.                       *)
AbsMem ==
  [x \in MemAddrs |->
     IF Missed(x) THEN mem[x]
     ELSE LineAt(CHOOSE s \in Sets : Hit(s, x), x).line[GetLineOffset(x)]]

B == INSTANCE ByteMemory WITH mem <- AbsMem

(* The cache is a byte memory: whatever is evicted, read in, written back  *)
(* or written through in between, every read returns the bytes last        *)
(* written, and nothing else changes.                                      *)
ImplementsByteMemory == B!Spec

(* No two sets hold the same address: there is one place to write to and   *)
(* FindLine's first match is the only one.                                 *)
SingleCopy ==
  \A s, t \in Sets, i \in Lines :
    (caches[s][i].valid_bit /\ caches[t][i].valid_bit
       /\ caches[s][i].tag = caches[t][i].tag) => s = t

(* The bytes of main memory that the valid line i of set s stands for.     *)
Agrees(s, i) ==
  \A o \in Offsets :
    caches[s][i].line[o] = mem[GetAddress(caches[s][i].tag, i, o)]

(* A line that EvictLine drops without writing it back loses nothing: it   *)
(* holds what main memory holds.                                           *)
DroppedAgrees ==
  \A s \in Sets, i \in Lines :
    (caches[s][i].valid_bit /\ ~(caches[s][i].dirty_bit /\ WritePolicy = "WriteBack"))
      => Agrees(s, i)

(* Under write-through main memory holds every byte that was written       *)
(* (write_through_test reads all of them back from the main memory).       *)
WriteThroughCurrent ==
  WritePolicy = "WriteThrough" =>
    \A s \in Sets, i \in Lines : caches[s][i].valid_bit => Agrees(s, i)

(* A valid line stands for an address of the main memory, so that writing  *)
(* it back fails no CHECK.                                                 *)
LinesInMemory ==
  \A s \in Sets, i \in Lines :
    caches[s][i].valid_bit => GetAddress(caches[s][i].tag, i, 0) \in MemAddrs

(* The time stamp is "used for LRU": a step that replaces a valid line     *)
(* replaces the least recently used of the lines the new address could go  *)
(* to.                                                                     *)
Replaces(s, i) ==
  caches[s][i].valid_bit /\ caches'[s][i].tag # caches[s][i].tag

ReplacesOldestOnly ==
  \A s \in Sets, i \in Lines : Replaces(s, i) =>
    \A t \in Sets : caches[s][i].timestamp <= caches[t][i].timestamp

EvictsLeastRecentlyUsed == [][ReplacesOldestOnly]_vars
=============================================================================
