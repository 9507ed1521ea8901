---------------------------- MODULE CacheProofs ----------------------------
(***************************************************************************)
(* Proofs about the cache, for every geometry, latency, policy and memory. *)
(* The argument: addresses split into tag, index and offset and back       *)
(* without loss; hence a line stands for one block of the memory, no block *)
(* is in two sets, and a line that needs no write back agrees with memory. *)
(* From these the memory seen through the cache changes by writes alone.   *)
(***************************************************************************)
EXTENDS Cache, TLAPS

-----------------------------------------------------------------------------
(* Integer division.                                                       *)
LEMMA DivMod ==
  ASSUME NEW a \in Nat, NEW n \in Nat \ {0}
  PROVE  /\ a \div n \in Nat
         /\ a % n \in 0 .. n - 1
         /\ a = ((a \div n) * n) + (a % n)
OBVIOUS

(* Quotient and remainder are unique.                                      *)
LEMMA DivModUnique ==
  ASSUME NEW q \in Nat, NEW n \in Nat \ {0}, NEW r \in 0 .. n - 1
  PROVE  /\ ((q * n) + r) \div n = q
         /\ ((q * n) + r) % n = r
OBVIOUS

(* A multiple of n is followed by the next one at a distance of n.         *)
LEMMA Multiples ==
  ASSUME NEW q \in Nat, NEW p \in Nat, NEW n \in Nat \ {0}, q < p
  PROVE  (q * n) + n <= p * n
OBVIOUS

(* Multiplication keeps the order.                                         *)
LEMMA Ordered ==
  ASSUME NEW q \in Nat, NEW p \in Nat, NEW n \in Nat, q <= p
  PROVE  q * n <= p * n
OBVIOUS

(* An address is the tag, the index and the offset it is split into ...    *)
LEMMA SplitAddress ==
  ASSUME NEW a \in Nat
  PROVE  /\ GetTag(a) \in Nat
         /\ GetLineIndex(a) \in Lines
         /\ GetLineOffset(a) \in Offsets
         /\ GetAddress(GetTag(a), GetLineIndex(a), GetLineOffset(a)) = a
<1> DEFINE b == a \div LineSize
<1>1. /\ b \in Nat /\ a % LineSize \in 0 .. LineSize - 1
      /\ a = (b * LineSize) + (a % LineSize)
  BY DivMod, GeometryAssumption
<1>2. /\ b \div NumLines \in Nat /\ b % NumLines \in 0 .. NumLines - 1
      /\ b = ((b \div NumLines) * NumLines) + (b % NumLines)
  BY <1>1, DivMod, GeometryAssumption
<1> QED
  BY <1>1, <1>2 DEF GetTag, GetLineIndex, GetLineOffset, GetAddress, Lines, Offsets

(* ... and these determine it.                                             *)
LEMMA JoinAddress ==
  ASSUME NEW tag \in Nat, NEW i \in Lines, NEW o \in Offsets
  PROVE  /\ GetAddress(tag, i, o) \in Nat
         /\ GetTag(GetAddress(tag, i, o)) = tag
         /\ GetLineIndex(GetAddress(tag, i, o)) = i
         /\ GetLineOffset(GetAddress(tag, i, o)) = o
         /\ GetAddress(tag, i, o) = GetAddress(tag, i, 0) + o
<1> DEFINE b == (tag * NumLines) + i
<1>1. /\ b \in Nat /\ b \div NumLines = tag /\ b % NumLines = i
  BY DivModUnique, GeometryAssumption DEF Lines
<1>2. /\ (b * LineSize) + o \in Nat
      /\ ((b * LineSize) + o) \div LineSize = b
      /\ ((b * LineSize) + o) % LineSize = o
  <2> HIDE DEF b
  <2> QED BY <1>1, DivModUnique, GeometryAssumption DEF Offsets
<1>3. GetAddress(tag, i, o) = (b * LineSize) + o
  BY DEF GetAddress
<1>4. GetAddress(tag, i, 0) = b * LineSize
  <2>1. b * LineSize \in Nat
    BY <1>1, GeometryAssumption
  <2> QED BY <2>1 DEF GetAddress
<1> HIDE DEF b
<1> QED
  BY <1>1, <1>2, <1>3, <1>4 DEF GetTag, GetLineIndex, GetLineOffset

(* Two addresses are in one block when they differ only in their offset.   *)
SameBlock(a, x) == GetTag(x) = GetTag(a) /\ GetLineIndex(x) = GetLineIndex(a)

(* The addresses of a block.                                               *)
LEMMA Block ==
  ASSUME NEW tag \in Nat, NEW i \in Lines, NEW x \in Nat
  PROVE  LET base == GetAddress(tag, i, 0)
         IN  /\ base \in Nat
             /\ x \in base .. base + LineSize - 1
                  <=> GetTag(x) = tag /\ GetLineIndex(x) = i
             /\ x \in base .. base + LineSize - 1 => x - base = GetLineOffset(x)
<1> DEFINE base == GetAddress(tag, i, 0)
<1>0. 0 \in Offsets /\ LineSize \in Nat \ {0}
  BY GeometryAssumption DEF Offsets
<1>1. base \in Nat
  BY <1>0, JoinAddress
<1>2. ASSUME x \in base .. base + LineSize - 1
      PROVE  GetTag(x) = tag /\ GetLineIndex(x) = i /\ x - base = GetLineOffset(x)
  <2> DEFINE o == x - base
  <2>1. o \in Offsets /\ base + o = x
    BY <1>0, <1>1, <1>2 DEF Offsets
  <2> QED BY <2>1, JoinAddress
<1>3. ASSUME GetTag(x) = tag, GetLineIndex(x) = i
      PROVE  x \in base .. base + LineSize - 1
  <2>1. GetLineOffset(x) \in Offsets /\ GetAddress(tag, i, GetLineOffset(x)) = x
    BY <1>3, SplitAddress
  <2>2. x = base + GetLineOffset(x)
    BY <2>1, JoinAddress
  <2> QED BY <1>0, <1>1, <2>1, <2>2 DEF Offsets
<1> QED BY <1>1, <1>2, <1>3

(* The memory consists of whole blocks.                                    *)
LEMMA WholeBlocks ==
  ASSUME NEW a \in MemAddrs, NEW o \in Offsets
  PROVE  GetAddress(GetTag(a), GetLineIndex(a), o) \in MemAddrs
<1> DEFINE b == a \div LineSize
           m == MemSize \div LineSize
           r == a % LineSize
<1>1. a \in Nat /\ MemSize \in Nat /\ LineSize \in Nat \ {0} /\ a < MemSize
  BY GeometryAssumption DEF MemAddrs
<1>2. b \in Nat /\ b * LineSize \in Nat /\ r \in Nat /\ a = (b * LineSize) + r
  BY <1>1, DivMod
<1>3. m \in Nat /\ m * LineSize \in Nat /\ MemSize = m * LineSize
  <2>1. m \in Nat /\ MemSize = (m * LineSize) + (MemSize % LineSize)
    BY <1>1, DivMod
  <2>2. m * LineSize \in Nat
    BY <2>1, <1>1
  <2> QED BY <2>1, <2>2, GeometryAssumption
<1>4. (GetTag(a) * NumLines) + GetLineIndex(a) = b
  <2>1. b \in Nat
    BY <1>2
  <2>2. b = ((b \div NumLines) * NumLines) + (b % NumLines)
    BY <2>1, DivMod, GeometryAssumption
  <2> QED BY <2>2 DEF GetTag, GetLineIndex
<1>5. GetAddress(GetTag(a), GetLineIndex(a), o) = (b * LineSize) + o
  BY <1>4 DEF GetAddress
<1> HIDE DEF b, m, r
<1>6. b < m
  <2>1. SUFFICES ASSUME m <= b PROVE FALSE
    BY <1>2, <1>3
  <2>2. m * LineSize <= b * LineSize
    BY <2>1, <1>1, <1>2, <1>3, Ordered
  <2> DEFINE bl == b * LineSize
             ml == m * LineSize
  <2>3. bl \in Nat /\ ml \in Nat /\ ml <= bl /\ a = bl + r /\ a < ml
    BY <2>2, <1>1, <1>2, <1>3
  <2> HIDE DEF bl, ml
  <2> QED BY <2>3, <1>2
<1>7. (b * LineSize) + LineSize <= m * LineSize
  BY <1>1, <1>2, <1>3, <1>6, Multiples
<1> QED BY <1>1, <1>2, <1>3, <1>5, <1>7 DEF MemAddrs, Offsets
-----------------------------------------------------------------------------
(* The operators of an access have the types of what they replace.         *)
LEMMA LineAtType ==
  ASSUME TypeOK, NEW s \in Sets, NEW a \in Nat
  PROVE  LineAt(s, a) \in Line /\ LineAt(s, a) = caches[s][GetLineIndex(a)]
<1>1. GetLineIndex(a) \in Lines
  BY SplitAddress
<1> QED BY <1>1 DEF TypeOK, LineAt

(* The memory stays a memory when a line is written back ...               *)
LEMMA EvictedMemType ==
  ASSUME TypeOK, NEW s \in Sets, NEW a \in Nat
  PROVE  EvictedMem(s, a) \in [MemAddrs -> Byte]
<1> DEFINE old == LineAt(s, a)
           base == GetAddress(old.tag, GetLineIndex(a), 0)
<1>1. old \in Line /\ mem \in [MemAddrs -> Byte]
  BY LineAtType DEF TypeOK
<1>2. base \in Nat /\ LineSize \in Nat
  <2>1. LineSize \in Nat /\ 0 \in Offsets
    BY GeometryAssumption DEF Offsets
  <2>2. old.tag \in Nat
    BY <1>1 DEF Line
  <2>3. GetLineIndex(a) \in Lines
    BY SplitAddress
  <2> QED BY <2>1, <2>2, <2>3, JoinAddress
<1>3. \A x \in base .. base + LineSize - 1 : old.line[x - base] \in Byte
  BY <1>1, <1>2 DEF Line, Offsets
<1> HIDE DEF old, base
<1> QED BY <1>1, <1>3 DEF EvictedMem, old, base

(* ... and when a line is looked up.                                       *)
LEMMA LocatedMemType ==
  ASSUME TypeOK, NEW s \in Sets, NEW a \in Nat
  PROVE  LocatedMem(s, a) \in [MemAddrs -> Byte]
BY EvictedMemType DEF LocatedMem, TypeOK

(* The line that an access works on is a line.                             *)
LEMMA LocatedLineType ==
  ASSUME TypeOK, NEW s \in Sets, NEW a \in MemAddrs
  PROVE  LocatedLine(s, a) \in Line
<1> DEFINE base == GetAddress(GetTag(a), GetLineIndex(a), 0)
           read == [o \in Offsets |-> EvictedMem(s, a)[base + o]]
<1>0. a \in Nat
  BY GeometryAssumption DEF MemAddrs
<1>1. a \in Nat /\ GetTag(a) \in Nat /\ LineAt(s, a) \in Line /\ cycle \in Nat
  BY <1>0, SplitAddress, LineAtType DEF TypeOK
<1>2. read \in [Offsets -> Byte]
  <2>1. ASSUME NEW o \in Offsets PROVE EvictedMem(s, a)[base + o] \in Byte
    <3>1. base + o \in MemAddrs
      BY <1>1, SplitAddress, JoinAddress, WholeBlocks
    <3> QED BY <3>1, <1>1, EvictedMemType
  <2> QED BY <2>1
<1> HIDE DEF read
<1> QED BY <1>1, <1>2 DEF LocatedLine, Line, read

(* The latency that is reported is a number.                               *)
LEMMA AccessLatencyType ==
  ASSUME TypeOK, NEW s \in Sets, NEW a \in MemAddrs
  PROVE  AccessLatency(s, a) \in Nat
BY LatencyAssumption DEF AccessLatency

(* An access that does not run over the end of its line.                   *)
LEMMA InLineOffsets ==
  ASSUME NEW a \in Nat, NEW n \in Accesses, InLine(a, n)
  PROVE  /\ n \in Nat \ {0}
         /\ \A o \in 0 .. n - 1 : GetLineOffset(a) + o \in Offsets
<1>1. n \in Nat \ {0} /\ LineSize \in Nat \ {0}
  BY DataAssumption, GeometryAssumption
<1>2. GetLineOffset(a) \in Offsets
  BY SplitAddress
<1> QED BY <1>1, <1>2 DEF InLine, Offsets

(* A write leaves a line in the cache ...                                  *)
LEMMA WrittenLineType ==
  ASSUME TypeOK, NEW s \in Sets, NEW a \in MemAddrs, NEW n \in Accesses,
         NEW d \in [0 .. n - 1 -> Byte]
  PROVE  WrittenLine(s, a, n, d) \in Line
<1> DEFINE off == GetLineOffset(a)
           new == [o \in Offsets |-> IF o \in off .. off + n - 1
                                     THEN d[o - off] ELSE LocatedLine(s, a).line[o]]
<1>0. a \in Nat /\ n \in Nat
  BY GeometryAssumption, DataAssumption DEF MemAddrs
<1>1. n \in Nat /\ off \in Nat
  BY <1>0, SplitAddress, GeometryAssumption DEF Offsets
<1>2. LocatedLine(s, a) \in Line
  BY LocatedLineType
<1>3. new \in [Offsets -> Byte]
  <2>1. \A o \in Offsets : o \in off .. off + n - 1 => d[o - off] \in Byte
    <3>1. ASSUME NEW o \in Offsets, o \in off .. off + n - 1
          PROVE  o - off \in 0 .. n - 1
      BY <1>1, <3>1 DEF Offsets
    <3> QED BY <3>1
  <2>2. \A o \in Offsets : LocatedLine(s, a).line[o] \in Byte
    BY <1>2 DEF Line
  <2> QED BY <2>1, <2>2
<1>4. WrittenLine(s, a, n, d) =
        [LocatedLine(s, a) EXCEPT !.dirty_bit = TRUE, !.line = new]
  BY <1>2 DEF WrittenLine, Line
<1> HIDE DEF new
<1> QED BY <1>2, <1>3, <1>4 DEF Line

(* ... and a memory behind it.                                             *)
LEMMA WrittenMemType ==
  ASSUME TypeOK, NEW s \in Sets, NEW a \in MemAddrs, NEW n \in Accesses,
         NEW d \in [0 .. n - 1 -> Byte]
  PROVE  WrittenMem(s, a, n, d) \in [MemAddrs -> Byte]
<1> DEFINE through == IF WritePolicy = "WriteThrough" THEN ThroughBytes(n) ELSE 0
<1>1. a \in Nat /\ n \in Nat /\ through \in Nat /\ through <= n
  BY GeometryAssumption, DataAssumption DEF MemAddrs, ThroughBytes
<1>2. LocatedMem(s, a) \in [MemAddrs -> Byte]
  BY <1>1, LocatedMemType
<1>3. \A x \in MemAddrs : x \in a .. a + through - 1 => d[x - a] \in Byte
  <2>1. ASSUME NEW x \in MemAddrs, x \in a .. a + through - 1
        PROVE  x - a \in 0 .. n - 1
    BY <1>1, <2>1 DEF MemAddrs
  <2> QED BY <2>1
<1>4. WrittenMem(s, a, n, d) =
        [x \in MemAddrs |-> IF x \in a .. a + through - 1 THEN d[x - a]
                            ELSE LocatedMem(s, a)[x]]
  BY DEF WrittenMem
<1> HIDE DEF through
<1> QED BY <1>2, <1>3, <1>4

(* The bytes that a read returns.                                          *)
LEMMA ReadType ==
  ASSUME TypeOK, NEW s \in Sets, NEW a \in MemAddrs, NEW n \in Accesses, InLine(a, n)
  PROVE  [o \in 0 .. n - 1 |-> LocatedLine(s, a).line[GetLineOffset(a) + o]]
           \in [0 .. n - 1 -> Byte]
<1>1. a \in Nat
  BY GeometryAssumption DEF MemAddrs
<1>2. \A o \in 0 .. n - 1 : GetLineOffset(a) + o \in Offsets
  BY <1>1, InLineOffsets
<1>3. \A o \in Offsets : LocatedLine(s, a).line[o] \in Byte
  BY LocatedLineType DEF Line
<1> QED BY <1>2, <1>3
-----------------------------------------------------------------------------
(* What a read returns.                                                    *)
Outputs == (UNION {[0 .. n - 1 -> Byte] : n \in Accesses}) \cup {NoData}

(* The bytes of a read are one of these, and so is no data.                *)
LEMMA OutputTypes ==
  /\ NoData \in Outputs
  /\ \A n \in Accesses : \A r \in [0 .. n - 1 -> Byte] : r \in Outputs
<1> DEFINE Results == {[0 .. n - 1 -> Byte] : n \in Accesses}
<1>1. ASSUME NEW n \in Accesses, NEW r \in [0 .. n - 1 -> Byte]
      PROVE  r \in UNION Results
  <2>1. [0 .. n - 1 -> Byte] \in Results
    OBVIOUS
  <2> HIDE DEF Results
  <2> QED BY <2>1
<1> HIDE DEF Results
<1>2. Outputs = (UNION Results) \cup {NoData}
  BY DEF Outputs, Results
<1>3. NoData \in Outputs
  BY <1>2
<1>4. ASSUME NEW n \in Accesses, NEW r \in [0 .. n - 1 -> Byte]
      PROVE  r \in Outputs
  BY <1>1, <1>2, Zenon
<1> QED BY <1>3, <1>4, Zenon

(* Every state of the cache has its types, for every geometry, latency,    *)
(* policy, set of addresses and data.                                      *)
LEMMA InitType == Init => TypeOK
<1> SUFFICES ASSUME Init PROVE TypeOK
  OBVIOUS
<1>1. EmptyLine \in Line
  BY DataAssumption DEF EmptyLine, Line
<1>2. mem \in [MemAddrs -> Byte]
  BY DataAssumption DEF Init
<1>3. caches \in [Sets -> [Lines -> Line]]
  BY <1>1 DEF Init
<1>4. out \in Outputs
  BY OutputTypes DEF Init
<1>5. cycle \in Nat /\ lastLatency \in Nat /\ alive \in BOOLEAN
  BY DEF Init
<1> QED BY <1>2, <1>3, <1>4, <1>5 DEF TypeOK, Outputs

(* ... and are kept by every step.                                         *)
LEMMA NextType == TypeOK /\ [Next]_vars => TypeOK'
<1> SUFFICES ASSUME TypeOK, [Next]_vars PROVE TypeOK'
  OBVIOUS
<1>1. ASSUME NEW a \in Addrs, NEW n \in Accesses, Read(a, n)
      PROVE  TypeOK'
  <2>1. a \in MemAddrs /\ a \in Nat
    BY <1>1, DataAssumption, GeometryAssumption DEF Read, MemAddrs
  <2>2. PICK s \in Sets :
          /\ mem' = LocatedMem(s, a)
          /\ caches' = [caches EXCEPT ![s][GetLineIndex(a)] = LocatedLine(s, a)]
          /\ lastLatency' = AccessLatency(s, a)
          /\ out' = [o \in 0 .. n - 1 |-> LocatedLine(s, a).line[GetLineOffset(a) + o]]
    BY <1>1 DEF Read
  <2>3. mem' \in [MemAddrs -> Byte]
    BY <2>1, <2>2, LocatedMemType
  <2>4. caches' \in [Sets -> [Lines -> Line]]
    BY <2>1, <2>2, LocatedLineType, SplitAddress DEF TypeOK
  <2>5. lastLatency' \in Nat
    BY <2>1, <2>2, AccessLatencyType
  <2>6. out' \in Outputs
    BY <2>1, <2>2, <1>1, ReadType, OutputTypes DEF Read
  <2>7. cycle' = cycle /\ alive' = alive
    BY <1>1 DEF Read
  <2> QED BY <2>3, <2>4, <2>5, <2>6, <2>7 DEF TypeOK, Outputs
<1>2. ASSUME NEW a \in Addrs, NEW n \in Accesses, NEW d \in [0 .. n - 1 -> Byte],
             Write(a, n, d)
      PROVE  TypeOK'
  <2>1. a \in MemAddrs /\ a \in Nat
    BY <1>2, DataAssumption, GeometryAssumption DEF Write, MemAddrs
  <2>2. PICK s \in Sets :
          /\ mem' = WrittenMem(s, a, n, d)
          /\ caches' = [caches EXCEPT ![s][GetLineIndex(a)] = WrittenLine(s, a, n, d)]
          /\ lastLatency' = AccessLatency(s, a)
    BY <1>2 DEF Write
  <2>3. mem' \in [MemAddrs -> Byte]
    BY <2>1, <2>2, WrittenMemType
  <2>4. caches' \in [Sets -> [Lines -> Line]]
    BY <2>1, <2>2, WrittenLineType, SplitAddress DEF TypeOK
  <2>5. lastLatency' \in Nat
    BY <2>1, <2>2, AccessLatencyType
  <2>6. out' \in Outputs
    BY <1>2, OutputTypes DEF Write
  <2>7. cycle' = cycle /\ alive' = alive
    BY <1>2 DEF Write
  <2> QED BY <2>3, <2>4, <2>5, <2>6, <2>7 DEF TypeOK, Outputs
<1>3. ASSUME NEW a \in Addrs, Abort(a)
      PROVE  TypeOK'
  BY <1>3 DEF Abort, TypeOK
<1>4. ASSUME ExecuteCycle
      PROVE  TypeOK'
  <2>1. SwapinMax \in Int
    BY LatencyAssumption, GeometryAssumption DEF SwapinMax, WordBytes
  <2>2. ASSUME NEW s \in Sets, NEW i \in Lines
        PROVE  [caches[s][i] EXCEPT !.swapin_counter =
                  IF @ < SwapinMax THEN @ + 1 ELSE @] \in Line
    <3> DEFINE l == caches[s][i]
               k == IF l.swapin_counter < SwapinMax THEN l.swapin_counter + 1
                    ELSE l.swapin_counter
    <3>1. l \in Line /\ l.swapin_counter \in Nat
      BY DEF TypeOK, Line
    <3>2. k \in Nat
      BY <3>1
    <3> HIDE DEF l, k
    <3>3. [l EXCEPT !.swapin_counter = k] \in Line
      BY <3>1, <3>2 DEF Line
    <3> QED BY <3>3 DEF l, k
  <2>3. caches' \in [Sets -> [Lines -> Line]]
    BY <1>4, <2>2 DEF ExecuteCycle
  <2> QED BY <1>4, <2>3 DEF ExecuteCycle, TypeOK
<1>5. CASE UNCHANGED vars
  BY <1>5 DEF vars, TypeOK
<1> QED BY <1>1, <1>2, <1>3, <1>4, <1>5 DEF Next

(* Every line, byte and latency stays in its range, whatever is evicted,   *)
(* read in, written back or written through.                               *)
THEOREM TypeCorrect == Spec => []TypeOK
BY InitType, NextType, PTL DEF Spec
-----------------------------------------------------------------------------
(* The inductive invariant.  SingleCopy needs the choice of LocateLine: a   *)
(* set is filled only with an address that no set holds.  DroppedAgrees     *)
(* needs SingleCopy: what is written to memory for one line would otherwise *)
(* part another line from it.                                               *)
LEMMA LocatedLineHolds ==
  ASSUME TypeOK, NEW s \in Sets, NEW a \in MemAddrs, Located(s, a)
  PROVE  /\ LocatedLine(s, a).tag = GetTag(a)
         /\ LocatedLine(s, a).valid_bit
<1>1. a \in Nat
  BY GeometryAssumption DEF MemAddrs
<1>2. LineAt(s, a) \in Line
  BY <1>1, LineAtType
<1>3. CASE Missed(a)
  BY <1>2, <1>3 DEF LocatedLine, Line
<1>4. CASE ~Missed(a)
  BY <1>2, <1>4 DEF LocatedLine, Line, Located, Found, Hit
<1> QED BY <1>3, <1>4

(* Putting a line for address a where LocateLine says keeps one copy of    *)
(* every address.                                                          *)
LEMMA OneCopy ==
  ASSUME TypeOK, SingleCopy, NEW s \in Sets, NEW a \in MemAddrs, Located(s, a),
         NEW l \in Line, l.tag = GetTag(a), l.valid_bit,
         caches' = [caches EXCEPT ![s][GetLineIndex(a)] = l]
  PROVE  SingleCopy'
<1> DEFINE k == GetLineIndex(a)
<1>1. k \in Lines
  BY SplitAddress, GeometryAssumption DEF MemAddrs
<1>2. \A t \in Sets, i \in Lines :
        caches'[t][i] = IF t = s /\ i = k THEN l ELSE caches[t][i]
  BY <1>1 DEF TypeOK
<1>3. ASSUME NEW t \in Sets, Hit(t, a) PROVE t = s
  <2>1. ~Missed(a)
    BY <1>3 DEF Missed
  <2>2. Hit(s, a)
    BY <2>1 DEF Located, Found
  <2> QED BY <1>1, <1>3, <2>2 DEF Hit, LineAt, SingleCopy
<1> SUFFICES ASSUME NEW t \in Sets, NEW u \in Sets, NEW i \in Lines,
                    caches'[t][i].valid_bit, caches'[u][i].valid_bit,
                    caches'[t][i].tag = caches'[u][i].tag
             PROVE  t = u
  BY DEF SingleCopy
<1>4. CASE i # k
  BY <1>2, <1>4 DEF SingleCopy
<1>5. CASE i = k /\ t # s /\ u # s
  BY <1>2, <1>5 DEF SingleCopy
<1>6. CASE i = k /\ t = s /\ u # s
  <2>1. Hit(u, a)
    BY <1>2, <1>6 DEF Hit, LineAt
  <2> QED BY <1>3, <1>6, <2>1
<1>7. CASE i = k /\ t # s /\ u = s
  <2>1. Hit(t, a)
    BY <1>2, <1>7 DEF Hit, LineAt
  <2> QED BY <1>3, <1>7, <2>1
<1> QED BY <1>4, <1>5, <1>6, <1>7

(* Filling a line with the block of a memory address keeps every valid     *)
(* line in the memory.                                                     *)
LEMMA StaysInMemory ==
  ASSUME TypeOK, LinesInMemory, NEW s \in Sets, NEW a \in MemAddrs,
         NEW l \in Line, l.tag = GetTag(a),
         caches' = [caches EXCEPT ![s][GetLineIndex(a)] = l]
  PROVE  LinesInMemory'
<1> DEFINE k == GetLineIndex(a)
<1>1. k \in Lines /\ 0 \in Offsets
  BY SplitAddress, GeometryAssumption DEF MemAddrs, Offsets
<1>2. \A t \in Sets, i \in Lines :
        caches'[t][i] = IF t = s /\ i = k THEN l ELSE caches[t][i]
  BY <1>1 DEF TypeOK
<1>3. GetAddress(GetTag(a), k, 0) \in MemAddrs
  BY <1>1, WholeBlocks
<1> HIDE DEF k
<1> QED BY <1>2, <1>3 DEF LinesInMemory

(* A step of the swap-in counters touches nothing the invariants speak of. *)
LEMMA CountersOnly ==
  ASSUME TypeOK, ExecuteCycle, NEW s \in Sets, NEW i \in Lines
  PROVE  /\ caches'[s][i].tag = caches[s][i].tag
         /\ caches'[s][i].line = caches[s][i].line
         /\ caches'[s][i].valid_bit = caches[s][i].valid_bit
         /\ caches'[s][i].dirty_bit = caches[s][i].dirty_bit
<1>1. caches[s][i] \in Line
  BY DEF TypeOK
<1>2. caches'[s][i] = [caches[s][i] EXCEPT !.swapin_counter =
                         IF @ < SwapinMax THEN @ + 1 ELSE @]
  BY DEF ExecuteCycle
<1> QED BY <1>1, <1>2 DEF Line

(* The inductive invariant of SingleCopy: a set is filled only for an      *)
(* address that no set holds.                                              *)
Copies == TypeOK /\ SingleCopy /\ LinesInMemory

(* It holds in an empty cache ...                                          *)
LEMMA InitCopies == Init => Copies
<1>1. ASSUME Init, NEW s \in Sets, NEW i \in Lines PROVE ~caches[s][i].valid_bit
  BY <1>1 DEF Init, EmptyLine
<1> QED BY <1>1, InitType DEF Copies, SingleCopy, LinesInMemory

(* ... and is kept by every step.                                          *)
LEMMA NextCopies == Copies /\ [Next]_vars => Copies'
<1> SUFFICES ASSUME Copies, [Next]_vars PROVE Copies'
  OBVIOUS
<1>0. TypeOK /\ TypeOK'
  BY NextType DEF Copies
<1>1. ASSUME NEW a \in Addrs, NEW n \in Accesses, Read(a, n)
      PROVE  SingleCopy' /\ LinesInMemory'
  <2>1. a \in MemAddrs
    BY <1>1, DataAssumption, GeometryAssumption DEF Read, MemAddrs
  <2>2. PICK s \in Sets :
          /\ Located(s, a)
          /\ caches' = [caches EXCEPT ![s][GetLineIndex(a)] = LocatedLine(s, a)]
    BY <1>1 DEF Read
  <2>3. LocatedLine(s, a) \in Line
    BY <1>0, <2>1, LocatedLineType
  <2> QED
    BY <1>0, <2>1, <2>2, <2>3, LocatedLineHolds, OneCopy, StaysInMemory DEF Copies
<1>2. ASSUME NEW a \in Addrs, NEW n \in Accesses, NEW d \in [0 .. n - 1 -> Byte],
             Write(a, n, d)
      PROVE  SingleCopy' /\ LinesInMemory'
  <2>1. a \in MemAddrs
    BY <1>2, DataAssumption, GeometryAssumption DEF Write, MemAddrs
  <2>2. PICK s \in Sets :
          /\ Located(s, a)
          /\ caches' = [caches EXCEPT ![s][GetLineIndex(a)] = WrittenLine(s, a, n, d)]
    BY <1>2 DEF Write
  <2>3. WrittenLine(s, a, n, d) \in Line
    BY <1>0, <2>1, WrittenLineType
  <2>4. WrittenLine(s, a, n, d).tag = GetTag(a) /\ WrittenLine(s, a, n, d).valid_bit
    <3>1. LocatedLine(s, a) \in Line
      BY <1>0, <2>1, LocatedLineType
    <3> QED BY <1>0, <2>1, <2>2, <3>1, LocatedLineHolds DEF WrittenLine, Line
  <2> QED
    BY <1>0, <2>1, <2>2, <2>3, <2>4, OneCopy, StaysInMemory DEF Copies
<1>3. ASSUME NEW a \in Addrs, Abort(a)
      PROVE  SingleCopy' /\ LinesInMemory'
  BY <1>3 DEF Abort, Copies, SingleCopy, LinesInMemory
<1>4. ASSUME ExecuteCycle
      PROVE  SingleCopy' /\ LinesInMemory'
  BY <1>0, <1>4, CountersOnly DEF Copies, SingleCopy, LinesInMemory
<1>5. CASE UNCHANGED vars
  BY <1>5 DEF vars, Copies, TypeOK, SingleCopy, LinesInMemory
<1> QED BY <1>0, <1>1, <1>2, <1>3, <1>4, <1>5 DEF Next, Copies

(* No address is ever held by two sets: FindLine's first match is the only *)
(* one, whatever was evicted before.                                       *)
THEOREM NoSecondCopy == Spec => []SingleCopy
<1>1. Copies => SingleCopy
  BY DEF Copies
<1> QED BY <1>1, InitCopies, NextCopies, PTL DEF Spec

(* A valid line always stands for an address of the main memory: writing   *)
(* it back fails no CHECK.                                                 *)
THEOREM WriteBacksInMemory == Spec => []LinesInMemory
<1>1. Copies => LinesInMemory
  BY DEF Copies
<1> QED BY <1>1, InitCopies, NextCopies, PTL DEF Spec
-----------------------------------------------------------------------------
(* Where a write-back changes the memory.                                  *)
LEMMA EvictedMemAt ==
  ASSUME TypeOK, NEW s \in Sets, NEW a \in MemAddrs, NEW x \in MemAddrs
  PROVE  EvictedMem(s, a)[x] =
           IF /\ LineAt(s, a).valid_bit /\ LineAt(s, a).dirty_bit
              /\ WritePolicy = "WriteBack"
              /\ GetTag(x) = LineAt(s, a).tag /\ GetLineIndex(x) = GetLineIndex(a)
           THEN LineAt(s, a).line[GetLineOffset(x)] ELSE mem[x]
<1> DEFINE old  == LineAt(s, a)
           base == GetAddress(old.tag, GetLineIndex(a), 0)
<1>1. a \in Nat /\ x \in Nat
  BY GeometryAssumption DEF MemAddrs
<1>2. old.tag \in Nat /\ GetLineIndex(a) \in Lines
  BY <1>1, LineAtType, SplitAddress DEF Line
<1>3. /\ x \in base .. base + LineSize - 1
           <=> GetTag(x) = old.tag /\ GetLineIndex(x) = GetLineIndex(a)
      /\ x \in base .. base + LineSize - 1 => x - base = GetLineOffset(x)
  BY <1>1, <1>2, Block
<1>4. EvictedMem(s, a)[x] =
        IF old.valid_bit /\ old.dirty_bit /\ WritePolicy = "WriteBack"
        THEN IF x \in base .. base + LineSize - 1 THEN old.line[x - base] ELSE mem[x]
        ELSE mem[x]
  BY DEF EvictedMem
<1> HIDE DEF base
<1> QED BY <1>3, <1>4

(* All bytes of a valid line are bytes of the memory.                      *)
LEMMA LineBytes ==
  ASSUME Copies, NEW s \in Sets, NEW i \in Lines, caches[s][i].valid_bit,
         NEW o \in Offsets
  PROVE  /\ GetAddress(caches[s][i].tag, i, o) \in MemAddrs
         /\ GetTag(GetAddress(caches[s][i].tag, i, o)) = caches[s][i].tag
         /\ GetLineIndex(GetAddress(caches[s][i].tag, i, o)) = i
         /\ GetLineOffset(GetAddress(caches[s][i].tag, i, o)) = o
<1> DEFINE tag  == caches[s][i].tag
           base == GetAddress(tag, i, 0)
<1>1. tag \in Nat
  BY DEF Copies, TypeOK, Line
<1>2. base \in MemAddrs /\ 0 \in Offsets
  BY GeometryAssumption DEF Copies, LinesInMemory, Offsets
<1>3. GetTag(base) = tag /\ GetLineIndex(base) = i
  BY <1>1, <1>2, JoinAddress
<1>4. GetAddress(tag, i, o) \in MemAddrs
  BY <1>2, <1>3, WholeBlocks
<1> HIDE DEF tag
<1>5. /\ GetTag(GetAddress(tag, i, o)) = tag
      /\ GetLineIndex(GetAddress(tag, i, o)) = i
      /\ GetLineOffset(GetAddress(tag, i, o)) = o
  BY <1>1, JoinAddress
<1> QED BY <1>4, <1>5 DEF tag

(* The other lines: locating an address for set s leaves their bytes of    *)
(* the memory alone, and their block is not the block of that address.     *)
LEMMA OthersUntouched ==
  ASSUME Copies, NEW s \in Sets, NEW a \in MemAddrs, Located(s, a),
         NEW t \in Sets, NEW i \in Lines, caches[t][i].valid_bit,
         t # s \/ i # GetLineIndex(a), NEW o \in Offsets
  PROVE  LET x == GetAddress(caches[t][i].tag, i, o)
         IN  /\ LocatedMem(s, a)[x] = mem[x]
             /\ ~(GetTag(x) = GetTag(a) /\ GetLineIndex(x) = GetLineIndex(a))
<1> DEFINE x == GetAddress(caches[t][i].tag, i, o)
           k == GetLineIndex(a)
<1>1. x \in MemAddrs /\ GetTag(x) = caches[t][i].tag /\ GetLineIndex(x) = i
  BY LineBytes
<1>2. k \in Lines
  BY SplitAddress, GeometryAssumption DEF MemAddrs
<1> HIDE DEF x
<1>3. LocatedMem(s, a)[x] = mem[x]
  <2>1. ASSUME LineAt(s, a).valid_bit, GetTag(x) = LineAt(s, a).tag, i = k
        PROVE  FALSE
    BY <1>1, <1>2, <2>1 DEF LineAt, Copies, SingleCopy
  <2>2. TypeOK
    BY DEF Copies
  <2>3. EvictedMem(s, a)[x] = mem[x]
    BY <1>1, <2>1, <2>2, EvictedMemAt
  <2> QED BY <2>3 DEF LocatedMem
<1>4. ASSUME GetTag(x) = GetTag(a), GetLineIndex(x) = k
      PROVE  FALSE
  <2>1. i = k /\ Hit(t, a)
    BY <1>1, <1>4 DEF Hit, LineAt
  <2>2. Hit(s, a)
    BY <2>1 DEF Located, Missed, Found
  <2> QED BY <1>2, <2>1, <2>2 DEF Hit, LineAt, Copies, SingleCopy
<1> QED BY <1>3, <1>4 DEF x

(* The line that was located agrees with the memory unless it is dirty.    *)
LEMMA LocatedAgrees ==
  ASSUME Copies, DroppedAgrees, NEW s \in Sets, NEW a \in MemAddrs, Located(s, a),
         ~(LocatedLine(s, a).dirty_bit /\ WritePolicy = "WriteBack"),
         NEW o \in Offsets
  PROVE  LocatedLine(s, a).line[o] =
           LocatedMem(s, a)[GetAddress(GetTag(a), GetLineIndex(a), o)]
<1> DEFINE k == GetLineIndex(a)
<1>1. a \in Nat
  BY GeometryAssumption DEF MemAddrs
<1>2. GetTag(a) \in Nat /\ k \in Lines /\ LineAt(s, a) \in Line /\ LineAt(s, a) = caches[s][k]
  BY <1>1, SplitAddress, LineAtType DEF Copies
<1>3. CASE Missed(a)
  <2>1. LocatedLine(s, a).line[o] =
          EvictedMem(s, a)[GetAddress(GetTag(a), k, 0) + o]
    BY <1>2, <1>3 DEF LocatedLine, Line
  <2>2. GetAddress(GetTag(a), k, 0) + o = GetAddress(GetTag(a), k, o)
    BY <1>2, JoinAddress
  <2> QED BY <1>3, <2>1, <2>2 DEF LocatedMem
<1>4. CASE ~Missed(a)
  <2>1. /\ LocatedLine(s, a).line = caches[s][k].line
        /\ LocatedLine(s, a).dirty_bit = caches[s][k].dirty_bit
    BY <1>2, <1>4 DEF LocatedLine, Line
  <2>2. caches[s][k].valid_bit /\ caches[s][k].tag = GetTag(a)
    BY <1>2, <1>4 DEF Located, Found, Hit
  <2>3. Agrees(s, k)
    BY <1>2, <2>1, <2>2 DEF DroppedAgrees
  <2> QED BY <1>4, <2>1, <2>2, <2>3 DEF Agrees, LocatedMem
<1> QED BY <1>3, <1>4

(* A read keeps the clean lines equal to the memory: the line read in is,  *)
(* and what is written back for its victim is in no other line.            *)
LEMMA ReadKeepsAgreement ==
  ASSUME Copies, DroppedAgrees, NEW a \in MemAddrs, NEW n \in Accesses, Read(a, n)
  PROVE  DroppedAgrees'
<1> DEFINE k == GetLineIndex(a)
<1>1. PICK s \in Sets :
        /\ Located(s, a)
        /\ mem' = LocatedMem(s, a)
        /\ caches' = [caches EXCEPT ![s][k] = LocatedLine(s, a)]
  BY DEF Read
<1>2. k \in Lines /\ TypeOK
  BY SplitAddress, GeometryAssumption DEF MemAddrs, Copies
<1>3. \A t \in Sets, i \in Lines :
        caches'[t][i] = IF t = s /\ i = k THEN LocatedLine(s, a) ELSE caches[t][i]
  BY <1>1, <1>2 DEF TypeOK
<1> SUFFICES ASSUME NEW t \in Sets, NEW i \in Lines, NEW o \in Offsets,
                    caches'[t][i].valid_bit,
                    ~(caches'[t][i].dirty_bit /\ WritePolicy = "WriteBack")
             PROVE  caches'[t][i].line[o] = mem'[GetAddress(caches'[t][i].tag, i, o)]
  BY DEF DroppedAgrees, Agrees
<1>4. CASE t = s /\ i = k
  <2>1. caches'[t][i] = LocatedLine(s, a)
    BY <1>3, <1>4
  <2>2. LocatedLine(s, a).tag = GetTag(a)
    BY <1>1, <1>2, LocatedLineHolds
  <2>3. LocatedLine(s, a).line[o] = LocatedMem(s, a)[GetAddress(GetTag(a), k, o)]
    BY <1>1, <2>1, LocatedAgrees
  <2> QED BY <1>1, <1>4, <2>1, <2>2, <2>3
<1>5. CASE ~(t = s /\ i = k)
  <2>1. caches'[t][i] = caches[t][i]
    BY <1>3, <1>5
  <2>2. LocatedMem(s, a)[GetAddress(caches[t][i].tag, i, o)] =
          mem[GetAddress(caches[t][i].tag, i, o)]
    BY <1>1, <1>5, <2>1, OthersUntouched
  <2> QED BY <1>1, <2>1, <2>2 DEF DroppedAgrees, Agrees
<1> QED BY <1>4, <1>5

(* What main hands on under write-through is the whole access, unless it    *)
(* is a word.                                                               *)
NoWordThrough == WritePolicy = "WriteBack" \/ 4 \notin Accesses

(* The byte of the memory at x after such a write.                          *)
WrittenByte(s, a, n, d, x) ==
  IF WritePolicy = "WriteThrough" /\ x \in a .. a + n - 1
  THEN d[x - a] ELSE LocatedMem(s, a)[x]

(* A write through changes the bytes it hands on, nothing else.            *)
LEMMA WrittenMemAt ==
  ASSUME NoWordThrough, NEW s \in Sets, NEW a \in MemAddrs, NEW n \in Accesses,
         NEW d \in [0 .. n - 1 -> Byte], NEW x \in MemAddrs
  PROVE  WrittenMem(s, a, n, d)[x] = WrittenByte(s, a, n, d, x)
<1>1. a \in Nat /\ n \in Nat /\ (WritePolicy = "WriteThrough" => ThroughBytes(n) = n)
  BY GeometryAssumption, DataAssumption
     DEF MemAddrs, NoWordThrough, ThroughBytes, WritePolicy
<1>2. a .. a + 0 - 1 = {}
  BY <1>1
<1> QED BY <1>1, <1>2 DEF WrittenMem, WrittenByte

(* The bytes of an access lie in the block of its address.                  *)
LEMMA AccessInBlock ==
  ASSUME NEW a \in MemAddrs, NEW n \in Accesses, InLine(a, n), NEW x \in a .. a + n - 1
  PROVE  /\ GetTag(x) = GetTag(a) /\ GetLineIndex(x) = GetLineIndex(a)
         /\ x - a = GetLineOffset(x) - GetLineOffset(a)
         /\ GetLineOffset(x) \in Offsets
<1> DEFINE base == GetAddress(GetTag(a), GetLineIndex(a), 0)
           off  == GetLineOffset(a)
<1>1. a \in Nat /\ n \in Nat /\ x \in Nat /\ LineSize \in Nat
  BY GeometryAssumption, DataAssumption DEF MemAddrs
<1>2. GetTag(a) \in Nat /\ GetLineIndex(a) \in Lines /\ off \in Offsets
  BY <1>1, SplitAddress
<1>3. base \in Nat /\ a = base + off
  <2>1. a = GetAddress(GetTag(a), GetLineIndex(a), off)
    BY <1>1, SplitAddress
  <2>2. GetAddress(GetTag(a), GetLineIndex(a), off) = base + off
    BY <1>2, JoinAddress
  <2>3. 0 \in Offsets
    BY GeometryAssumption DEF Offsets
  <2> QED BY <1>2, <2>1, <2>2, <2>3, JoinAddress
<1>4. off + n <= LineSize
  BY DEF InLine
<1> HIDE DEF base, off
<1>5. x \in base .. base + LineSize - 1
  BY <1>1, <1>2, <1>3, <1>4 DEF Offsets
<1>6. GetTag(x) = GetTag(a) /\ GetLineIndex(x) = GetLineIndex(a)
        /\ x - base = GetLineOffset(x)
  BY <1>1, <1>2, <1>5, Block DEF base
<1>7. GetLineOffset(x) \in Offsets
  BY <1>1, SplitAddress
<1> QED BY <1>1, <1>2, <1>3, <1>6, <1>7 DEF off, Offsets

(* So does a write: the written line is dirty under write-back, and under  *)
(* write-through the memory gets the same bytes.                           *)
LEMMA WriteKeepsAgreement ==
  ASSUME Copies, DroppedAgrees, NoWordThrough, NEW a \in MemAddrs, NEW n \in Accesses,
         NEW d \in [0 .. n - 1 -> Byte], Write(a, n, d)
  PROVE  DroppedAgrees'
<1> DEFINE k    == GetLineIndex(a)
           off  == GetLineOffset(a)
           base == GetAddress(GetTag(a), k, 0)
<1>1. PICK s \in Sets :
        /\ Located(s, a)
        /\ mem' = WrittenMem(s, a, n, d)
        /\ caches' = [caches EXCEPT ![s][k] = WrittenLine(s, a, n, d)]
  BY DEF Write
<1>2. k \in Lines /\ TypeOK /\ a \in Nat /\ InLine(a, n)
  BY SplitAddress, GeometryAssumption DEF MemAddrs, Copies, Write
<1>3. \A t \in Sets, i \in Lines :
        caches'[t][i] = IF t = s /\ i = k THEN WrittenLine(s, a, n, d) ELSE caches[t][i]
  BY <1>1, <1>2 DEF TypeOK
<1>4. \A x \in MemAddrs : mem'[x] = WrittenByte(s, a, n, d, x)
  BY <1>1, WrittenMemAt
<1> SUFFICES ASSUME NEW t \in Sets, NEW i \in Lines, NEW o \in Offsets,
                    caches'[t][i].valid_bit,
                    ~(caches'[t][i].dirty_bit /\ WritePolicy = "WriteBack")
             PROVE  caches'[t][i].line[o] = mem'[GetAddress(caches'[t][i].tag, i, o)]
  BY DEF DroppedAgrees, Agrees
<1>5. CASE t = s /\ i = k
  <2> DEFINE x == GetAddress(GetTag(a), k, o)
  <2>1. caches'[t][i] = WrittenLine(s, a, n, d)
    BY <1>3, <1>5
  <2>2. LocatedLine(s, a) \in Line /\ LocatedLine(s, a).tag = GetTag(a)
    BY <1>1, <1>2, LocatedLineHolds, LocatedLineType
  <2>3. /\ caches'[t][i].tag = GetTag(a)
        /\ caches'[t][i].dirty_bit
        /\ caches'[t][i].line[o] = IF o \in off .. off + n - 1 THEN d[o - off]
                                   ELSE LocatedLine(s, a).line[o]
    BY <2>1, <2>2 DEF WrittenLine, Line
  <2>4. WritePolicy = "WriteThrough"
    BY <2>3 DEF WritePolicy
  <2>5. LocatedLine(s, a).line[o] = LocatedMem(s, a)[x]
    BY <1>1, <2>4, LocatedAgrees
  <2>6. x \in MemAddrs
    BY WholeBlocks
  <2>7. x = base + o /\ a = base + off /\ base \in Nat /\ off \in Nat /\ o \in Nat /\ n \in Nat
    <3>1. GetTag(a) \in Nat /\ k \in Lines /\ off \in Offsets
            /\ a = GetAddress(GetTag(a), k, off)
      BY <1>2, SplitAddress
    <3>2. x = base + o /\ GetAddress(GetTag(a), k, off) = base + off
      BY <3>1, JoinAddress
    <3>3. base \in Nat
      BY <3>1, JoinAddress, GeometryAssumption DEF Offsets
    <3> QED BY <3>1, <3>2, <3>3, GeometryAssumption, DataAssumption DEF Offsets
  <2>8. mem'[x] = IF x \in a .. a + n - 1 THEN d[x - a] ELSE LocatedMem(s, a)[x]
    BY <1>4, <2>4, <2>6 DEF WrittenByte
  <2> HIDE DEF x, off, base
  <2>9. /\ x \in a .. a + n - 1 <=> o \in off .. off + n - 1
        /\ x - a = o - off
    BY <2>7
  <2>10. mem'[x] = caches'[t][i].line[o]
    BY <2>3, <2>5, <2>8, <2>9
  <2> QED BY <1>5, <2>3, <2>10 DEF x
<1>6. CASE ~(t = s /\ i = k)
  <2> DEFINE x == GetAddress(caches[t][i].tag, i, o)
  <2>1. caches'[t][i] = caches[t][i]
    BY <1>3, <1>6
  <2>2. /\ LocatedMem(s, a)[x] = mem[x]
        /\ ~(GetTag(x) = GetTag(a) /\ GetLineIndex(x) = k)
    BY <1>1, <1>6, <2>1, OthersUntouched
  <2>3. x \in MemAddrs
    BY <2>1, LineBytes
  <2> HIDE DEF x
  <2>4. x \notin a .. a + n - 1
    BY <1>2, <2>2, AccessInBlock
  <2>5. mem'[x] = mem[x]
    BY <1>4, <2>2, <2>3, <2>4 DEF WrittenByte
  <2> QED BY <2>1, <2>5 DEF x, DroppedAgrees, Agrees
<1> QED BY <1>5, <1>6

(* DroppedAgrees holds in an empty cache ...                               *)
LEMMA InitAgrees == Init => DroppedAgrees
<1>1. ASSUME Init, NEW s \in Sets, NEW i \in Lines PROVE ~caches[s][i].valid_bit
  BY <1>1 DEF Init, EmptyLine
<1> QED BY <1>1 DEF DroppedAgrees

(* ... and is kept by every step.                                          *)
LEMMA NextAgrees ==
  ASSUME NoWordThrough, Copies, DroppedAgrees, [Next]_vars
  PROVE  DroppedAgrees'
<1>1. ASSUME NEW a \in Addrs, NEW n \in Accesses, Read(a, n)
      PROVE  DroppedAgrees'
  <2>1. a \in MemAddrs
    BY <1>1, DataAssumption, GeometryAssumption DEF Read, MemAddrs
  <2> QED BY <1>1, <2>1, ReadKeepsAgreement
<1>2. ASSUME NEW a \in Addrs, NEW n \in Accesses, NEW d \in [0 .. n - 1 -> Byte],
             Write(a, n, d)
      PROVE  DroppedAgrees'
  <2>1. a \in MemAddrs
    BY <1>2, DataAssumption, GeometryAssumption DEF Write, MemAddrs
  <2> QED BY <1>2, <2>1, WriteKeepsAgreement
<1>3. ASSUME NEW a \in Addrs, Abort(a)
      PROVE  DroppedAgrees'
  BY <1>3 DEF Abort, DroppedAgrees, Agrees
<1>4. CASE ExecuteCycle
  <2>1. mem' = mem /\ TypeOK
    BY <1>4 DEF ExecuteCycle, Copies
  <2> QED BY <1>4, <2>1, CountersOnly DEF DroppedAgrees, Agrees
<1>5. CASE UNCHANGED vars
  BY <1>5 DEF vars, DroppedAgrees, Agrees
<1> QED BY <1>1, <1>2, <1>3, <1>4, <1>5 DEF Next

(* A line that EvictLine drops without writing it back never loses data,   *)
(* unless the policy is write-through and words are written: then only the *)
(* first byte of a word reaches the memory.                                *)
THEOREM NothingLost == NoWordThrough => (Spec => []DroppedAgrees)
<1> SUFFICES ASSUME NoWordThrough PROVE Spec => []DroppedAgrees
  OBVIOUS
<1>1. Copies /\ DroppedAgrees /\ [Next]_vars => Copies' /\ DroppedAgrees'
  BY NextCopies, NextAgrees
<1> QED BY InitCopies, InitAgrees, <1>1, PTL DEF Spec

(* Under write-through the main memory holds every byte that was written,  *)
(* unless words are.                                                       *)
THEOREM ThroughReachesMemory == NoWordThrough => (Spec => []WriteThroughCurrent)
<1>1. DroppedAgrees => WriteThroughCurrent
  BY DEF DroppedAgrees, WriteThroughCurrent, WritePolicy
<1> QED BY <1>1, NothingLost, PTL
-----------------------------------------------------------------------------
(* A cache of one set (directly mapped) or of one line per set (fully      *)
(* associative): the geometries in which the set EvictLine picks is the    *)
(* set of the line it means.  In all others it compares lines that the new *)
(* address cannot go to.                                                   *)
OneChoice == NumLines = 1 \/ SetAssociativity = 1

(* Then the line that a miss replaces is the least recently used of the    *)
(* lines its address could go to, and a hit replaces no line.              *)
LEMMA ReplacesOldest ==
  ASSUME OneChoice, TypeOK, NEW a \in MemAddrs, NEW s \in Sets, Located(s, a),
         NEW l \in Line, l.tag = GetTag(a),
         caches' = [caches EXCEPT ![s][GetLineIndex(a)] = l],
         NEW t \in Sets, NEW i \in Lines, Replaces(t, i),
         NEW u \in Sets
  PROVE  caches[t][i].timestamp <= caches[u][i].timestamp
<1> DEFINE k == GetLineIndex(a)
<1>1. k \in Lines
  BY SplitAddress, GeometryAssumption DEF MemAddrs
<1>2. caches'[t][i] = IF t = s /\ i = k THEN l ELSE caches[t][i]
  BY <1>1 DEF TypeOK
<1>3. t = s /\ i = k /\ caches[s][k].tag # GetTag(a)
  BY <1>2 DEF Replaces
<1>4. Missed(a)
  BY <1>3 DEF Located, Found, Hit, LineAt
<1>5. CASE NumLines = 1
  <2>1. \A j \in Lines : j = i
    BY <1>5 DEF Lines
  <2> QED BY <1>3, <1>4, <2>1 DEF Located, Evicts
<1>6. CASE SetAssociativity = 1
  <2>1. u = t
    BY <1>6 DEF Sets
  <2>2. caches[t][i].timestamp \in Nat
    BY DEF TypeOK, Line
  <2> QED BY <2>1, <2>2
<1> QED BY <1>5, <1>6 DEF OneChoice

(* Directly mapped and fully associative caches replace the least recently *)
(* used line.                                                              *)
THEOREM LeastRecentlyUsed == OneChoice => (Spec => EvictsLeastRecentlyUsed)
<1> SUFFICES ASSUME OneChoice PROVE Spec => EvictsLeastRecentlyUsed
  OBVIOUS
<1> DEFINE Oldest(t, i) ==
             \A u \in Sets : caches[t][i].timestamp <= caches[u][i].timestamp
<1>1. ASSUME TypeOK, [Next]_vars, NEW t \in Sets, NEW i \in Lines, Replaces(t, i)
      PROVE  Oldest(t, i)
  <2>1. ASSUME NEW a \in Addrs, NEW n \in Accesses, Read(a, n)
        PROVE  Oldest(t, i)
    <3>1. a \in MemAddrs
      BY <2>1, DataAssumption, GeometryAssumption DEF Read, MemAddrs
    <3>2. PICK s \in Sets :
            /\ Located(s, a)
            /\ caches' = [caches EXCEPT ![s][GetLineIndex(a)] = LocatedLine(s, a)]
      BY <2>1 DEF Read
    <3>3. LocatedLine(s, a) \in Line /\ LocatedLine(s, a).tag = GetTag(a)
      BY <1>1, <3>1, <3>2, LocatedLineType, LocatedLineHolds
    <3> QED BY <1>1, <3>1, <3>2, <3>3, ReplacesOldest
  <2>2. ASSUME NEW a \in Addrs, NEW n \in Accesses, NEW d \in [0 .. n - 1 -> Byte],
               Write(a, n, d)
        PROVE  Oldest(t, i)
    <3>1. a \in MemAddrs
      BY <2>2, DataAssumption, GeometryAssumption DEF Write, MemAddrs
    <3>2. PICK s \in Sets :
            /\ Located(s, a)
            /\ caches' = [caches EXCEPT ![s][GetLineIndex(a)] = WrittenLine(s, a, n, d)]
      BY <2>2 DEF Write
    <3>3. LocatedLine(s, a) \in Line /\ LocatedLine(s, a).tag = GetTag(a)
      BY <1>1, <3>1, <3>2, LocatedLineType, LocatedLineHolds
    <3>4. WrittenLine(s, a, n, d) \in Line
      BY <1>1, <3>1, WrittenLineType
    <3>5. WrittenLine(s, a, n, d).tag = GetTag(a)
      BY <3>3 DEF WrittenLine, Line
    <3> QED BY <1>1, <3>1, <3>2, <3>4, <3>5, ReplacesOldest
  <2>3. CASE \E a \in Addrs : Abort(a)
    BY <1>1, <2>3 DEF Abort, Replaces
  <2>4. CASE ExecuteCycle
    BY <1>1, <2>4, CountersOnly DEF Replaces
  <2>5. CASE UNCHANGED vars
    BY <1>1, <2>5 DEF vars, Replaces
  <2> QED BY <1>1, <2>1, <2>2, <2>3, <2>4, <2>5 DEF Next
<1>2. TypeOK /\ [Next]_vars => [ReplacesOldestOnly]_vars
  BY <1>1 DEF ReplacesOldestOnly
<1> QED BY <1>2, TypeCorrect, PTL DEF Spec, EvictsLeastRecentlyUsed
=============================================================================
