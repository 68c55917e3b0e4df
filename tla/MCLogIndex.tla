----------------------------- MODULE MCLogIndex -----------------------------
(* Small instances of LogIndex for TLC.                                    *)
EXTENDS LogIndex, TLC

(* Bodies of zero to two cells: a body of two holds an embedded message.   *)
MCCells == {Begin(0), Begin(1), Begin(2), Field(1), End, Noise}
MCHotPairs == {1}
=============================================================================
