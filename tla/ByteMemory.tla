----------------------------- MODULE ByteMemory -----------------------------
(***************************************************************************)
(* What every memory of the simulator promises the instructions that use   *)
(* it: an array of bytes.  A read returns what was last written, a write   *)
(* changes exactly the bytes it names, an access that starts outside the   *)
(* memory kills the process.  Latencies and cycles are not visible here.   *)
(***************************************************************************)
EXTENDS Integers

CONSTANTS
  MemSize,   \* size_ of the main memory
  Byte,      \* the values of a byte
  Addrs,     \* the addresses that are accessed
  Accesses,  \* the sizes of the accesses: some of 1, 2 and 4 bytes
  WriteData  \* the data that are written: functions from 0 .. n - 1 to Byte

VARIABLES
  mem,      \* the bytes
  out,      \* what the last read returned
  alive     \* the process has not aborted

vars == <<mem, out, alive>>

MemAddrs == 0 .. MemSize - 1

(* The bytes of one access, lowest address first.                          *)
Data(n) == [0 .. n - 1 -> Byte]

NoData == <<>>

TypeOK ==
  /\ mem \in [MemAddrs -> Byte]
  /\ out \in (UNION {Data(n) : n \in Accesses}) \cup {NoData}
  /\ alive \in BOOLEAN

Init ==
  /\ mem = [x \in MemAddrs |-> 0]
  /\ out = NoData
  /\ alive = TRUE

(* n bytes of m from address a on.                                         *)
Bytes(m, a, n) == [o \in 0 .. n - 1 |-> m[a + o]]

(* m after the n bytes d are stored at address a.                          *)
Stored(m, a, n, d) ==
  [x \in MemAddrs |-> IF x \in a .. a + n - 1 THEN d[x - a] ELSE m[x]]

Read(a, n) ==
  /\ alive /\ a + n <= MemSize
  /\ out' = Bytes(mem, a, n)
  /\ UNCHANGED <<mem, alive>>

Write(a, n, d) ==
  /\ alive /\ a + n <= MemSize
  /\ out' = NoData
  /\ mem' = Stored(mem, a, n, d)
  /\ UNCHANGED alive

Abort(a) ==
  /\ alive /\ a >= MemSize
  /\ alive' = FALSE
  /\ UNCHANGED <<mem, out>>

Next ==
  \/ \E a \in Addrs, n \in Accesses : Read(a, n)
  \/ \E a \in Addrs, n \in Accesses : \E d \in WriteData :
       d \in Data(n) /\ Write(a, n, d)
  \/ \E a \in Addrs : Abort(a)

Spec == Init /\ [][Next]_vars
=============================================================================
