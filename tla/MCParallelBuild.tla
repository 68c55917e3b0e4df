-------------------------- MODULE MCParallelBuild --------------------------
(* Small instances of ParallelBuild for TLC: every buffer of no, one, four  *)
(* or five cells, bodies of zero to two cells.  Two threads cut four cells  *)
(* into two chunks, and five into three.                                    *)
EXTENDS ParallelBuild, TLC

MCCells == {Begin(0), Begin(1), Begin(2), Field(1), End, Noise}
MCBufs == UNION {[1 .. n -> MCCells] : n \in {0, 1, 4, 5}}
MCHotPairs == {1}
MCThreadCounts == {1, 2}
=============================================================================
