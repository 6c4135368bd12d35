----------------------------- MODULE MCSpillWal -----------------------------
(***************************************************************************)
(* The spill WAL for TLC: up to four spilled records, the second longer    *)
(* than the others, against a file that holds three, so that the limit,    *)
(* torn appends and checkpoints with and without a tail all occur.         *)
(***************************************************************************)
EXTENDS SpillWal

MCBodyLen == [n \in 1 .. MaxRecords |-> IF n = 2 THEN 2 ELSE 1]
=============================================================================
