------------------------------ MODULE MCCache ------------------------------
(***************************************************************************)
(* Bytes are 0 or 1.  The halfword and the word that are written are not   *)
(* constant, so that a truncated or misplaced write shows.                 *)
(***************************************************************************)
EXTENDS Cache

ByteOne == [o \in 0 .. 0 |-> 1]
HalfOne == [o \in 0 .. 1 |-> o]
WordOne == [o \in 0 .. 3 |-> IF o \in {1, 2} THEN 1 ELSE 0]

ByteHalfData == {ByteOne, HalfOne}
ByteWordData == {ByteOne, WordOne}
WordData == {WordOne}
=============================================================================
