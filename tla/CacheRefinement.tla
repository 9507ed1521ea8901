-------------------------- MODULE CacheRefinement --------------------------
(***************************************************************************)
(* Every step of the cache is a step of ByteMemory or a stutter.  What is  *)
(* seen through the cache is compared before and after a line is replaced, *)
(* block by block: the block of the address that was located, the block    *)
(* that was evicted for it, and all others.                                *)
(***************************************************************************)
EXTENDS CacheProofs

(* A byte of a block that set s holds is read from its line there; a byte  *)
(* that no set holds is read from the main memory.                         *)
SeenBytes ==
  \A x \in MemAddrs :
    /\ \A s \in Sets : Hit(s, x) => AbsMem[x] = LineAt(s, x).line[GetLineOffset(x)]
    /\ Missed(x) => AbsMem[x] = mem[x]

(* It is so in every state without a second copy.                          *)
LEMMA SeenByte == Copies => SeenBytes
<1> SUFFICES ASSUME Copies, NEW x \in MemAddrs
             PROVE  /\ \A s \in Sets : Hit(s, x) =>
                         AbsMem[x] = LineAt(s, x).line[GetLineOffset(x)]
                    /\ Missed(x) => AbsMem[x] = mem[x]
  BY DEF SeenBytes
<1>1. GetLineIndex(x) \in Lines
  BY SplitAddress, GeometryAssumption DEF MemAddrs
<1>2. ASSUME NEW s \in Sets, Hit(s, x)
      PROVE  AbsMem[x] = LineAt(s, x).line[GetLineOffset(x)]
  <2> DEFINE c == CHOOSE t \in Sets : Hit(t, x)
  <2>1. c \in Sets /\ Hit(c, x)
    BY <1>2
  <2> HIDE DEF c
  <2>2. c = s
    BY <1>1, <1>2, <2>1 DEF Copies, SingleCopy, Hit, LineAt
  <2>3. AbsMem[x] = LineAt(c, x).line[GetLineOffset(x)]
    BY <1>2 DEF AbsMem, Missed, c
  <2> QED BY <2>2, <2>3
<1>3. Missed(x) => AbsMem[x] = mem[x]
  BY DEF AbsMem
<1> QED BY <1>2, <1>3

(* The same in the next state.                                             *)
LEMMA SeenByteNext ==
  ASSUME Copies', NEW x \in MemAddrs
  PROVE  /\ \A s \in Sets : Hit(s, x)' =>
              AbsMem'[x] = caches'[s][GetLineIndex(x)].line[GetLineOffset(x)]
         /\ Missed(x)' => AbsMem'[x] = mem'[x]
<1>1. (Copies => SeenBytes)'
  BY SeenByte, PTL
<1> QED BY <1>1 DEF SeenBytes, LineAt

(* Locating an address changes no byte of its block.                       *)
LEMMA LocatedLineSeen ==
  ASSUME Copies, NEW s \in Sets, NEW a \in MemAddrs, Located(s, a),
         NEW x \in MemAddrs, SameBlock(a, x)
  PROVE  LocatedLine(s, a).line[GetLineOffset(x)] = AbsMem[x]
<1> DEFINE k == GetLineIndex(a)
           o == GetLineOffset(x)
<1>1. a \in Nat /\ x \in Nat /\ TypeOK
  BY GeometryAssumption DEF MemAddrs, Copies
<1>2. /\ GetTag(a) \in Nat /\ k \in Lines /\ o \in Offsets
      /\ GetTag(x) = GetTag(a) /\ GetLineIndex(x) = k
      /\ GetAddress(GetTag(a), k, o) = x
  BY <1>1, SplitAddress DEF SameBlock
<1>3. \A t \in Sets : Hit(t, x) <=> Hit(t, a)
  BY <1>2 DEF Hit, LineAt
<1>4. LineAt(s, a) \in Line
  BY <1>1, LineAtType
<1>5. CASE Missed(a)
  <2>1. LocatedLine(s, a).line[o] = EvictedMem(s, a)[GetAddress(GetTag(a), k, 0) + o]
    BY <1>2, <1>4, <1>5 DEF LocatedLine, Line
  <2>2. GetAddress(GetTag(a), k, 0) + o = x
    BY <1>2, JoinAddress
  <2>3. EvictedMem(s, a)[x] = mem[x]
    <3>1. ~(LineAt(s, a).valid_bit /\ GetTag(x) = LineAt(s, a).tag)
      BY <1>2, <1>5 DEF Missed, Hit
    <3> QED BY <1>1, <3>1, EvictedMemAt
  <2>4. AbsMem[x] = mem[x]
    BY <1>3, <1>5, SeenByte DEF SeenBytes, Missed
  <2> QED BY <2>1, <2>2, <2>3, <2>4
<1>6. CASE ~Missed(a)
  <2>1. Hit(s, x)
    BY <1>3, <1>6 DEF Located, Found
  <2>2. LocatedLine(s, a).line = LineAt(s, a).line
    BY <1>4, <1>6 DEF LocatedLine, Line
  <2>3. LineAt(s, x) = LineAt(s, a)
    BY <1>2 DEF LineAt
  <2> QED BY <2>1, <2>2, <2>3, SeenByte DEF SeenBytes
<1> QED BY <1>5, <1>6

(* After line l is put where address a was located, the block of a is seen *)
(* in l, ...                                                               *)
LEMMA OwnBlockSeen ==
  ASSUME Copies, Copies', NEW s \in Sets, NEW a \in MemAddrs,
         NEW l, l.valid_bit, l.tag = GetTag(a),
         caches' = [caches EXCEPT ![s][GetLineIndex(a)] = l],
         NEW x \in MemAddrs, SameBlock(a, x)
  PROVE  AbsMem'[x] = l.line[GetLineOffset(x)]
<1> DEFINE k == GetLineIndex(a)
<1>1. k \in Lines
  BY SplitAddress, GeometryAssumption DEF MemAddrs
<1>2. caches'[s][k] = l
  BY <1>1 DEF Copies, TypeOK
<1>3. Hit(s, x)'
  BY <1>2 DEF Hit, LineAt, SameBlock
<1> QED BY <1>2, <1>3, SeenByteNext DEF SameBlock

(* ... and what is seen of every other block, the evicted one among them,  *)
(* has not changed.                                                        *)
LEMMA OtherBlocksSeen ==
  ASSUME Copies, Copies', DroppedAgrees,
         NEW s \in Sets, NEW a \in MemAddrs, Located(s, a),
         NEW l, l.valid_bit, l.tag = GetTag(a),
         caches' = [caches EXCEPT ![s][GetLineIndex(a)] = l],
         NEW x \in MemAddrs, ~SameBlock(a, x), mem'[x] = LocatedMem(s, a)[x]
  PROVE  AbsMem'[x] = AbsMem[x]
<1> DEFINE k == GetLineIndex(a)
           i == GetLineIndex(x)
           o == GetLineOffset(x)
<1>1. a \in Nat /\ x \in Nat /\ TypeOK
  BY GeometryAssumption DEF MemAddrs, Copies
<1>2. /\ k \in Lines /\ i \in Lines /\ o \in Offsets
      /\ GetAddress(GetTag(x), i, o) = x
  BY <1>1, SplitAddress
<1>3. \A t \in Sets, j \in Lines :
        caches'[t][j] = IF t = s /\ j = k THEN l ELSE caches[t][j]
  BY <1>1, <1>2 DEF TypeOK
<1>4. ASSUME NEW t \in Sets, Hit(t, x)'
      PROVE  Hit(t, x) /\ ~(t = s /\ i = k)
  BY <1>2, <1>3, <1>4 DEF Hit, LineAt, SameBlock
<1>5. CASE Missed(x)
  <2>1. Missed(x)'
    BY <1>4, <1>5 DEF Missed
  <2>2. LocatedMem(s, a)[x] = mem[x]
    <3>1. ~(LineAt(s, a).valid_bit /\ GetTag(x) = LineAt(s, a).tag /\ i = k)
      BY <1>5 DEF Missed, Hit, LineAt
    <3>2. EvictedMem(s, a)[x] = mem[x]
      BY <1>1, <3>1, EvictedMemAt
    <3> QED BY <3>2 DEF LocatedMem
  <2> QED BY <1>5, <2>1, <2>2, SeenByte, SeenByteNext DEF SeenBytes
<1>6. ASSUME NEW t \in Sets, Hit(t, x), ~(t = s /\ i = k)
      PROVE  AbsMem'[x] = AbsMem[x]
  <2>1. caches'[t][i] = LineAt(t, x) /\ Hit(t, x)'
    BY <1>2, <1>3, <1>6 DEF Hit, LineAt
  <2> QED BY <1>6, <2>1, SeenByte, SeenByteNext DEF SeenBytes
<1>7. CASE Hit(s, x) /\ i = k
  <2>1. LineAt(s, a) = caches[s][k] /\ caches[s][k].valid_bit /\ caches[s][k].tag = GetTag(x)
    BY <1>7 DEF Hit, LineAt
  <2>2. Missed(a)
    BY <1>7, <2>1 DEF Located, Found, Hit, SameBlock
  <2>3. \A t \in Sets : Hit(t, x) => t = s
    BY <1>2, <1>7 DEF Copies, SingleCopy, Hit, LineAt
  <2>4. Missed(x)'
    BY <1>4, <1>7, <2>3 DEF Missed
  <2>5. AbsMem'[x] = EvictedMem(s, a)[x]
    BY <2>2, <2>4, SeenByteNext DEF LocatedMem
  <2>6. AbsMem[x] = caches[s][k].line[o]
    BY <1>7, SeenByte DEF SeenBytes, LineAt
  <2>7. CASE caches[s][k].dirty_bit /\ WritePolicy = "WriteBack"
    <3>1. EvictedMem(s, a)[x] = caches[s][k].line[o]
      BY <1>1, <1>7, <2>1, <2>7, EvictedMemAt
    <3> QED BY <2>5, <2>6, <3>1
  <2>8. CASE ~(caches[s][k].dirty_bit /\ WritePolicy = "WriteBack")
    <3>1. EvictedMem(s, a)[x] = mem[x]
      BY <1>1, <2>1, <2>8, EvictedMemAt
    <3>2. caches[s][k].line[o] = mem[x]
      BY <1>2, <1>7, <2>1, <2>8 DEF DroppedAgrees, Agrees
    <3> QED BY <2>5, <2>6, <3>1, <3>2
  <2> QED BY <2>7, <2>8
<1> QED BY <1>5, <1>6, <1>7 DEF Missed
-----------------------------------------------------------------------------
(* An access that stays in its line stays in the memory.                   *)
LEMMA AccessInMemory ==
  ASSUME NEW a \in MemAddrs, NEW n \in Accesses, InLine(a, n)
  PROVE  /\ a + n <= MemSize
         /\ \A o \in 0 .. n - 1 :
              /\ a + o \in MemAddrs
              /\ SameBlock(a, a + o)
              /\ GetLineOffset(a + o) = GetLineOffset(a) + o
<1>1. a \in Nat /\ n \in Nat \ {0} /\ MemSize \in Nat
  BY GeometryAssumption, DataAssumption DEF MemAddrs
<1>2. GetTag(a) \in Nat /\ GetLineIndex(a) \in Lines /\ GetLineOffset(a) \in Nat
  BY <1>1, SplitAddress, GeometryAssumption DEF Offsets
<1>3. ASSUME NEW o \in 0 .. n - 1
      PROVE  /\ a + o \in MemAddrs
             /\ SameBlock(a, a + o)
             /\ GetLineOffset(a + o) = GetLineOffset(a) + o
  <2> DEFINE x == a + o
  <2>1. x \in a .. a + n - 1 /\ x \in Nat /\ x - a = o
    BY <1>1
  <2> HIDE DEF x
  <2>2. /\ GetTag(x) = GetTag(a) /\ GetLineIndex(x) = GetLineIndex(a)
        /\ x - a = GetLineOffset(x) - GetLineOffset(a)
        /\ GetLineOffset(x) \in Offsets
    BY <2>1, AccessInBlock
  <2>3. GetAddress(GetTag(a), GetLineIndex(a), GetLineOffset(x)) = x
    BY <2>1, <2>2, SplitAddress
  <2>4. x \in MemAddrs
    BY <2>2, <2>3, WholeBlocks
  <2>5. GetLineOffset(x) = GetLineOffset(a) + o
    BY <1>2, <2>1, <2>2 DEF Offsets
  <2> QED BY <2>2, <2>4, <2>5 DEF x, SameBlock
<1>4. a + (n - 1) \in MemAddrs
  BY <1>1, <1>3
<1> QED BY <1>1, <1>3, <1>4 DEF MemAddrs

(* A read through the cache is a read of the abstract memory.              *)
LEMMA ReadRefines ==
  ASSUME Copies, Copies', DroppedAgrees, NEW a \in MemAddrs, NEW n \in Accesses,
         Read(a, n)
  PROVE  B!Read(a, n)
<1>1. PICK s \in Sets :
        /\ Located(s, a)
        /\ mem' = LocatedMem(s, a)
        /\ caches' = [caches EXCEPT ![s][GetLineIndex(a)] = LocatedLine(s, a)]
        /\ out' = [o \in 0 .. n - 1 |-> LocatedLine(s, a).line[GetLineOffset(a) + o]]
  BY DEF Read
<1>2. TypeOK /\ alive /\ alive' = alive /\ InLine(a, n)
  BY DEF Copies, Read
<1>3. LocatedLine(s, a).tag = GetTag(a) /\ LocatedLine(s, a).valid_bit
  BY <1>1, <1>2, LocatedLineHolds
<1>4. ASSUME NEW x \in MemAddrs PROVE AbsMem'[x] = AbsMem[x]
  <2>1. CASE SameBlock(a, x)
    <3>1. AbsMem'[x] = LocatedLine(s, a).line[GetLineOffset(x)]
      BY <1>1, <1>3, <2>1, OwnBlockSeen
    <3>2. LocatedLine(s, a).line[GetLineOffset(x)] = AbsMem[x]
      BY <1>1, <2>1, LocatedLineSeen
    <3> QED BY <3>1, <3>2
  <2>2. CASE ~SameBlock(a, x)
    BY <1>1, <1>3, <2>2, OtherBlocksSeen
  <2> QED BY <2>1, <2>2
<1>5. AbsMem' = AbsMem
  BY <1>4 DEF AbsMem
<1>6. \A o \in 0 .. n - 1 : LocatedLine(s, a).line[GetLineOffset(a) + o] = AbsMem[a + o]
  <2> SUFFICES ASSUME NEW o \in 0 .. n - 1
               PROVE  LocatedLine(s, a).line[GetLineOffset(a) + o] = AbsMem[a + o]
    OBVIOUS
  <2>1. a + o \in MemAddrs /\ SameBlock(a, a + o)
          /\ GetLineOffset(a + o) = GetLineOffset(a) + o
    BY <1>2, AccessInMemory
  <2>2. LocatedLine(s, a).line[GetLineOffset(a + o)] = AbsMem[a + o]
    BY <1>1, <2>1, LocatedLineSeen
  <2> QED BY <2>1, <2>2
<1>7. out' = B!Bytes(AbsMem, a, n)
  BY <1>1, <1>6 DEF B!Bytes
<1>8. a + n <= MemSize
  BY <1>2, AccessInMemory
<1> QED BY <1>2, <1>5, <1>7, <1>8 DEF B!Read

(* A write through the cache is a write of the abstract memory.            *)
LEMMA WriteRefines ==
  ASSUME Copies, Copies', DroppedAgrees, NoWordThrough,
         NEW a \in MemAddrs, NEW n \in Accesses, NEW d \in [0 .. n - 1 -> Byte],
         Write(a, n, d)
  PROVE  B!Write(a, n, d)
<1> DEFINE off == GetLineOffset(a)
<1>1. PICK s \in Sets :
        /\ Located(s, a)
        /\ mem' = WrittenMem(s, a, n, d)
        /\ caches' = [caches EXCEPT ![s][GetLineIndex(a)] = WrittenLine(s, a, n, d)]
  BY DEF Write
<1>2. TypeOK /\ alive /\ alive' = alive /\ InLine(a, n) /\ out' = NoData
  BY DEF Copies, Write
<1>3. a \in Nat /\ n \in Nat \ {0} /\ off \in Nat
  <2>1. a \in Nat /\ n \in Nat \ {0}
    BY GeometryAssumption, DataAssumption DEF MemAddrs
  <2>2. off \in Offsets
    BY <2>1, SplitAddress
  <2> QED BY <2>1, <2>2, GeometryAssumption DEF Offsets
<1>4. LocatedLine(s, a) \in Line
        /\ LocatedLine(s, a).tag = GetTag(a) /\ LocatedLine(s, a).valid_bit
  BY <1>1, <1>2, LocatedLineHolds, LocatedLineType
<1>5. /\ WrittenLine(s, a, n, d).tag = GetTag(a)
      /\ WrittenLine(s, a, n, d).valid_bit
      /\ \A o \in Offsets :
           WrittenLine(s, a, n, d).line[o] =
             IF o \in off .. off + n - 1 THEN d[o - off] ELSE LocatedLine(s, a).line[o]
  BY <1>4 DEF WrittenLine, Line
<1>6. ASSUME NEW x \in MemAddrs PROVE AbsMem'[x] = B!Stored(AbsMem, a, n, d)[x]
  <2> DEFINE o == GetLineOffset(x)
  <2>0. x \in Nat /\ o \in Offsets
    BY SplitAddress, GeometryAssumption DEF MemAddrs
  <2>1. B!Stored(AbsMem, a, n, d)[x] =
          IF x \in a .. a + n - 1 THEN d[x - a] ELSE AbsMem[x]
    BY DEF B!Stored, B!MemAddrs, MemAddrs
  <2>2. CASE SameBlock(a, x)
    <3>1. AbsMem'[x] = IF o \in off .. off + n - 1 THEN d[o - off]
                       ELSE LocatedLine(s, a).line[o]
      BY <1>1, <1>5, <2>0, <2>2, OwnBlockSeen
    <3>2. LocatedLine(s, a).line[o] = AbsMem[x]
      BY <1>1, <2>2, LocatedLineSeen
    <3>3. x - a = o - off
      <4> DEFINE base == GetAddress(GetTag(a), GetLineIndex(a), 0)
      <4>1. GetTag(a) \in Nat /\ GetLineIndex(a) \in Lines /\ off \in Offsets
        BY <1>3, SplitAddress
      <4>2. GetAddress(GetTag(a), GetLineIndex(a), off) = a
              /\ GetAddress(GetTag(a), GetLineIndex(a), o) = x
        BY <1>3, <2>0, <2>2, SplitAddress DEF SameBlock
      <4>3. a = base + off /\ x = base + o
        BY <2>0, <4>1, <4>2, JoinAddress
      <4>4. base \in Nat
        BY <4>1, JoinAddress, GeometryAssumption DEF Offsets
      <4> HIDE DEF base, off, o
      <4> QED BY <1>3, <2>0, <4>3, <4>4, GeometryAssumption DEF Offsets
    <3> HIDE DEF off, o
    <3>4. x \in a .. a + n - 1 <=> o \in off .. off + n - 1
      BY <1>3, <2>0, <3>3, GeometryAssumption DEF Offsets
    <3> QED BY <2>1, <3>1, <3>2, <3>3, <3>4
  <2>3. CASE ~SameBlock(a, x)
    <3>1. x \notin a .. a + n - 1
      BY <1>2, <2>3, AccessInBlock DEF SameBlock
    <3>2. mem'[x] = LocatedMem(s, a)[x]
      BY <1>1, <3>1, WrittenMemAt DEF WrittenByte
    <3>3. AbsMem'[x] = AbsMem[x]
      BY <1>1, <1>5, <2>3, <3>2, OtherBlocksSeen
    <3> QED BY <2>1, <3>1, <3>3
  <2> QED BY <2>2, <2>3
<1>7. AbsMem' = B!Stored(AbsMem, a, n, d)
  BY <1>6 DEF AbsMem, B!Stored, B!MemAddrs, MemAddrs
<1>8. a + n <= MemSize
  BY <1>2, AccessInMemory
<1> QED BY <1>2, <1>7, <1>8 DEF B!Write, B!NoData, NoData

(* The swap-in counters are not seen.                                      *)
LEMMA CyclesUnseen ==
  ASSUME Copies, Copies', ExecuteCycle
  PROVE  UNCHANGED B!vars
<1>1. mem' = mem /\ out' = out /\ alive' = alive /\ TypeOK
  BY DEF ExecuteCycle, Copies
<1>2. ASSUME NEW x \in MemAddrs PROVE AbsMem'[x] = AbsMem[x]
  <2>1. x \in Nat /\ GetLineIndex(x) \in Lines
    BY SplitAddress, GeometryAssumption DEF MemAddrs
  <2>2. \A s \in Sets : /\ Hit(s, x)' <=> Hit(s, x)
                        /\ caches'[s][GetLineIndex(x)].line = LineAt(s, x).line
    BY <1>1, <2>1, CountersOnly DEF Hit, LineAt
  <2>3. CASE Missed(x)
    <3>1. Missed(x)'
      BY <2>2, <2>3 DEF Missed
    <3> QED BY <1>1, <2>3, <3>1, SeenByte, SeenByteNext DEF SeenBytes
  <2>4. ASSUME NEW s \in Sets, Hit(s, x) PROVE AbsMem'[x] = AbsMem[x]
    BY <2>2, <2>4, SeenByte, SeenByteNext DEF SeenBytes
  <2> QED BY <2>3, <2>4 DEF Missed
<1>3. AbsMem' = AbsMem
  BY <1>2 DEF AbsMem
<1> QED BY <1>1, <1>3 DEF B!vars

(* The empty cache shows the empty memory.                                 *)
LEMMA InitRefines == Init => B!Init
<1> SUFFICES ASSUME Init PROVE B!Init
  OBVIOUS
<1>1. ASSUME NEW x \in MemAddrs PROVE AbsMem[x] = 0
  <2>1. GetLineIndex(x) \in Lines
    BY SplitAddress, GeometryAssumption DEF MemAddrs
  <2>2. Missed(x)
    BY <2>1 DEF Init, EmptyLine, Missed, Hit, LineAt
  <2> QED BY <2>2 DEF AbsMem, Init
<1>2. AbsMem = [x \in B!MemAddrs |-> 0]
  BY <1>1 DEF AbsMem, B!MemAddrs, MemAddrs
<1> QED BY <1>2 DEF Init, B!Init, B!NoData, NoData

(* Every step of the cache is a step of the byte memory, or none.          *)
LEMMA StepRefines ==
  ASSUME Copies, Copies', DroppedAgrees, NoWordThrough, [Next]_vars
  PROVE  [B!Next]_(B!vars)
<1>1. ASSUME NEW a \in Addrs, NEW n \in Accesses, Read(a, n)
      PROVE  B!Next
  <2>1. a \in MemAddrs
    BY <1>1, DataAssumption, GeometryAssumption DEF Read, MemAddrs
  <2>2. B!Read(a, n)
    BY <1>1, <2>1, ReadRefines
  <2> QED BY <2>2 DEF B!Next
<1>2. ASSUME NEW a \in Addrs, NEW n \in Accesses, NEW d \in WriteData,
             d \in [0 .. n - 1 -> Byte], Write(a, n, d)
      PROVE  B!Next
  <2>1. a \in MemAddrs
    BY <1>2, DataAssumption, GeometryAssumption DEF Write, MemAddrs
  <2>2. B!Write(a, n, d)
    BY <1>2, <2>1, WriteRefines
  <2> QED BY <1>2, <2>2 DEF B!Next, B!Data
<1>3. ASSUME NEW a \in Addrs, Abort(a)
      PROVE  B!Next
  <2>1. mem' = mem /\ caches' = caches /\ out' = out /\ alive /\ a >= MemSize /\ alive' = FALSE
    BY <1>3 DEF Abort
  <2>2. AbsMem' = AbsMem
    BY <2>1 DEF AbsMem, Missed, Hit, LineAt
  <2>3. B!Abort(a)
    BY <2>1, <2>2 DEF B!Abort
  <2> QED BY <2>3 DEF B!Next
<1>4. CASE ExecuteCycle
  BY <1>4, CyclesUnseen
<1>5. CASE UNCHANGED vars
  <2>1. mem' = mem /\ caches' = caches /\ out' = out /\ alive' = alive
    BY <1>5 DEF vars
  <2>2. AbsMem' = AbsMem
    BY <2>1 DEF AbsMem, Missed, Hit, LineAt
  <2> QED BY <2>1, <2>2 DEF B!vars
<1> QED BY <1>1, <1>2, <1>3, <1>4, <1>5 DEF Next

(* The cache is a byte memory, for every geometry, latency, memory size and *)
(* set of accesses, unless words are written under write-through: every     *)
(* read returns what was last written, whatever was evicted in between.     *)
THEOREM CacheIsByteMemory == NoWordThrough => (Spec => ImplementsByteMemory)
<1> SUFFICES ASSUME NoWordThrough PROVE Spec => ImplementsByteMemory
  OBVIOUS
<1>1. Spec => []Copies
  BY InitCopies, NextCopies, PTL DEF Spec
<1>2. Spec => []DroppedAgrees
  BY NothingLost
<1>3. Copies /\ Copies' /\ DroppedAgrees /\ [Next]_vars => [B!Next]_(B!vars)
  BY StepRefines
<1> QED BY <1>1, <1>2, <1>3, InitRefines, PTL DEF Spec, ImplementsByteMemory, B!Spec
=============================================================================
